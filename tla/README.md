# A verification development for RISCV_LBIST

The repository adds a logic built-in self test (BIST) to the RI5CY RISC-V
core. `bist/` holds the self test in VHDL, `rtl/` the core in SystemVerilog,
`tb/` simulation environments with their C and C++ parts, `sbst/` the software
of a software self test, `syn/`, `tmp/` and `bist/syn/` scripts and netlists.
This directory holds TLA+ models of the self test, of the core's controller,
instruction fetch and data access paths, and of the software around them; the TLC runs that
check them on small instances; and TLAPS proofs for every instance.

The hardware is synchronous on one clock, so a step of its models is one rising
edge: the registers are the variables, and the combinational processes are
operators on the registers and on the inputs of the cycle. What makes it hard is
not threads but *partners that decide independently in each cycle*: a tester
that moves its pins, a memory that grants and answers when it likes, a decode
stage that stalls, a controller that changes the program counter. Those partners
are nondeterministic in the models, and that is where the interleavings come
from. The software is sequential; what makes it hard is the other side of a
socket, the clock that runs on between two statements, and the edges of numbers
and tables. A step of its models is a call, or the part of a call between two
points where it can wait.

## 1. The system and what can go wrong in it

### The self test (`bist/`)

| Part | State | Operations | Partners |
|---|---|---|---|
| Controller (`CONTROLLER/controller.vhd`) | `currState`, `cnt`, `cnt_reseed`, `cnt_chain`, and two latches | fill the chains, test, capture, reseed, announce the end, give the verdict, abort | drives all the others; sees `TEST`, `rst`, the signature |
| Pattern generator (`LFSR/lfsr.vhd`) | `t_prn` | shift, load, hold, reset | loads the seed the reseeder of `controller.vhd` selects by `cnt_reseed` |
| Phase shifter (`PHSHIFT/xorGrid.vhd`) | none | xor of neighbours | between LFSR and scan inputs |
| Scan chains (scan-inserted netlist) | the cells | shift, functional clock | between phase shifter and MISR |
| Signature register (`MISR/misr.vhd`) | `reg_outs` | compact, hold, reset | its upper 64 bits go to the controller |
| Testbenches (`bist/riscv_bist_testbench.vhd`, `riscv_bist_testbench.vhd`) | where the process waits | start, wait, sample, stop | watch `go_nogo` |

Hard: an output (`GO`) that means "finished" in one cycle and "passed" in the
next; counters cleared by nothing but reset; latches in the combinational
process (`next_cnt`, `next_cnt_reseed` are not assigned in every branch), so
that `TEST` falling inside a cycle has an effect; a tester that drops `TEST`
anywhere; index directions that differ from block to block. Correct means:
every fill is whole, every pattern is applied once, the verdict comes last and
is the comparison with the golden signature, the stimulus depends on nothing but
the counters, one wrong response is never hidden, and a session that is held
comes to its end.

### The core (`rtl/`)

| Part | State | Hard behaviour | Correct means | Modelled |
|---|---|---|---|---|
| Prefetch buffer and FIFO (`riscv_prefetch_buffer.sv`, `riscv_fetch_fifo.sv`) | two state machines, four words with addresses and flags | late grants and answers, aborted requests, instructions across two words, hardware loop jumps, PMP refusals | instructions in program order with the right words; no overflow; no hang | yes |
| Hardware loops (`riscv_hwloop_*.sv`) | start, end, counter of two loops | the decrement travels with the first instruction of the next iteration | each loop iterates as its counter says | yes, `lp.setup` only |
| IF stage (`riscv_if_stage.sv`) | IF/ID registers | the PC that traps save, faults of words that are not due | the PC is that of the following instruction | mostly |
| Load-store unit (`riscv_load_store_unit.sv`) | request machine, attributes of the pending access, held data | accesses over a word boundary, answers and requests in one cycle | what the instruction promises | yes, without data errors |
| ID/EX/WB for memory instructions (`riscv_id_stage.sv`, `riscv_ex_stage.sv`, `riscv_controller.sv`) | ID/EX and EX/WB registers, register file | forwarding from a load whose data is not there yet, two write ports | as if one instruction at a time | yes |
| Main controller (`riscv_controller.sv`), interrupt controller (`riscv_int_controller.sv`), CSRs (`riscv_cs_registers.sv`) | 20-state machine, pending interrupt, saved PCs, `mstatus`, `dcsr.step` | priorities in DECODE, interrupts withdrawn while the pipeline is flushed, halt requests and single steps at any instruction, the pipeline still at work behind it | precise traps: each instruction once and in turn, the saved PC that of the first one not executed | in machine mode |
| Divider, MULH machine, APU dispatcher | small machines in EX | operands of all signs, results that overtake | the specified results, in order | no, section 7 |
| PMP (`riscv_pmp.sv`) | regions, data error machine | error reported a cycle late | refused means no effect | fetch side as `Denied` |
| Decoders, ALU | none | tables and arithmetic | | entries used here only |

### The software (`tb/`, `sbst/`)

| Part | State | Hard behaviour | Correct means | Modelled |
|---|---|---|---|---|
| Socket bridge of the debug testbench (`tb/dm/remote_bitbang/`, `SimJTAG.sv`) | client, pin levels, sampled `tdo`, tick counter | a call that waits for a client or a byte holds the simulated clock; the answer of a read is sampled long before it is sent; clients hang up or do not read | an adapter that executes a client's bytes in order and answers each read with the level at that point | yes |
| Verilator testbench (`tb/verilator-model/testbench.cpp`) | a program and a debug ROM in RAM, pins, register log | `main` pulses `debug_req_i` and sets flags after fixed numbers of clocks, whatever the core is doing | the program resumes and finds its registers untouched | yes, with the controller states it drives |
| System calls (`sbst/syscalls.c`, the same as `tb/core/custom/syscalls.c`) | heap break, `errno`, output and exit registers | the heap's end | areas handed out lie in the heap | yes |
| flexfloat (`tb/core/fpnew/tb/flexfloat/`) | numbers with their formats, statistics tables | rounding a second time in a smaller format, denormalised numbers, colliding formats, a full table | every result is a number of its format, rightly rounded; every operation counted once | most |

`PROJECT.json` lists every component, including the simulation environments,
scripts and netlists, with what is modelled and why the rest is not, and the
hazards, each at its line, with the properties that cover it.

## 2. The modules

| Module | Models | Lines to read beside it |
|---|---|---|
| `LbistController` | the controller | `controller.vhd` |
| `LbistSession` | *abstract*: what a session promises | |
| `Lfsr`, `LfsrFreeRun` | the generator; the free-running one of the testbench | `lfsr.vhd` |
| `Misr`, `MisrAliasing` | signature register, phase shifter; a good and a faulty machine | `misr.vhd`, `xorGrid.vhd` |
| `LbistTop` | controller, LFSR, phase shifter, chains and MISR composed | `riscv_core_bist.vhd` |
| `LbistBench` | `LbistTop` under the testbench of `bist/`, or under any tester | `bist/riscv_bist_testbench.vhd` |
| `FetchFifo` | the FIFO and its aligner | `riscv_fetch_fifo.sv` |
| `PrefetchBuffer` | both state machines around it | `riscv_prefetch_buffer.sv` |
| `HardwareLoops` | loop registers and comparison | `riscv_hwloop_controller.sv`, `riscv_hwloop_regs.sv` |
| `FetchPath` | the three composed with the IF/ID registers, a memory and a controller | `riscv_if_stage.sv` |
| `InstructionStream` | *abstract*: program order with loops | |
| `LoadStoreUnit` | the unit | `riscv_load_store_unit.sv` |
| `MemoryPipeline` | the unit in the pipeline, with the data memory | `riscv_id_stage.sv`, `riscv_ex_stage.sv`, `riscv_controller.sv` |
| `MemoryIsa` | *abstract*: one memory instruction at a time | |
| `HartProgram` | the programs of the next two: any over a set of instructions, trap handlers, a debug ROM | |
| `CoreController` | controller, interrupt controller, the CSRs of traps, ID and EX as they follow the controller's wires | `riscv_controller.sv`, `riscv_int_controller.sv`, `riscv_id_stage.sv`, `riscv_cs_registers.sv` |
| `Hart` | *abstract*: one instruction, trap or halt at a time | |
| `RemoteBitbang` | the socket bridge with the simulator's thread, its clients and a device | `remote_bitbang.c`, `sim_jtag.c`, `SimJTAG.sv` |
| `BitbangAdapter` | *abstract*: what a client of the bridge may rely on | |
| `VerilatorModel` | `main`, its two programs and the hart they run on | `testbench.cpp`, `top.sv`, `riscv_controller.sv` |
| `Syscalls` | the system calls | `sbst/syscalls.c` |
| `FlexFloatFormat` | *pure*: backend arithmetic, packing, `flexfloat_sanitize` | `flexfloat.c`, `flexfloat.h` |
| `FlexFloat` | objects, operations and statistics tables | the same |
| `*Proofs` | theorems about the module of that name (`BistRegistersProofs`: `LfsrFreeRun` and `MisrAliasing`; `FetchProofs`: `FetchPath`; `VerilatorProofs`: `VerilatorModel`) | |
| `MC*` | values for TLC | |

Operators ending in a `_Suffix` and marked *Mutant* are plausible bugs: each is
a wrong variant of the operator after it and some property of a run fails when
it takes that operator's place. They are no part of the specification.

**Controller.** Each branch of the two processes is an action; `TEST`, `rst` and
the signature are inputs whose primed values are the levels the edge samples,
their unprimed values those of the cycle before. That is how the latches are
modelled: in `AbortTest`, `TEST` was high at the beginning of the `S_Test`
cycle and is low at its end, and the counters advance although the state goes
back. A behaviour begins after the reset edge every tester gives.

**Top level.** All blocks take their edge in one action `Edge`. The core is
external: `Respond(chains, defect)` is what a functional clock does to its scan
cells, which the netlist (generated) would tell; its functional inputs are
held. Chains of different lengths are kept, because the real ones have 47
or 48 cells and a fill shifts 48 times.

**Fetch path.** Addresses count half words and what a half word holds is named
by its own address, so a word that is in the wrong place is seen whatever the
program. `Compressed` says which half words are compressed instructions.
The prefetch buffer's combinational process is split into its wires
(`InstrReq`, `InstrAddr`, `NextFetch`, `FifoClear`, ...), each a function of the
registers and of the inputs `i` of the cycle. `FetchPath!Edge` closes the loop:
the memory's grant and answer, the PMP's refusal, and the IF stage taking the
instruction. What the main controller may do in a cycle are the actions
`Advance` (ID stalled or not, IF halted or not), `Jump`, `Branch`, `Trap`,
`HaltBehind`, `FetchFault`, `Flush`, `SetPc`, `Sleep`, `Hold` and `Boot`.
The history variable `at` is the last instruction that left ID; it makes the
path comparable to `InstructionStream`.

**Memory pipeline.** A word is four byte lanes. One register (`base`) holds
addresses, the others data. The ID/EX registers are one record; a field that no
enable makes visible has its reset value. The memory is the testbench's: byte
enables, any grant delay, any answer delay, one answer outstanding. Refinement of
`MemoryIsa` is by completion: the architectural state is what the registers
become when the answer owed to WB and the access in EX have taken effect.

**Core controller.** A step is a clock. The state machine's registers, the
pending interrupt, the CSRs, the IF/ID registers and the instruction in EX are
variables; of the rest only what the controller waits for remains, as inputs of
the cycle: `done`, `rvalid`, `stall`, `jr`, `fetched`. What it drives into the
pipeline (`halt_if_o`, `halt_id_o`, `is_decoding_o`, `pc_set_o`) is the record
`Wires`, and `Pipeline` is what the stages make of it. Each state of the machine
is an action, DECODE five; the order of the code's conditions is in their
guards. What stands at an address is chosen when it is fetched, so a run covers
every program over its instructions at once. `Pins` is the environment: interrupt
and halt lines, the second held until debug mode. The history variable `due`
is the instruction that has to be executed next, and becomes `Astray` when
another one takes effect; with `debug_mode_q` and the CSRs it refines `Hart`,
where a CSR counts as written when the instruction that writes it is in EX.
`since` counts what a single step executes and `elw` marks a `p.elw` that has left
ID. The core stays in machine mode, no access is refused, and `dcsr.ebreakm`
is 0.

**Socket bridge.** Clients, sockets and the device behind the pins are external:
clients connect, send, fetch answers and hang up when they like, `OutMax`
answers fill a socket. `pc` says where the simulator's only thread is. A call of
`jtag_tick` is split where it can block (`accept`, the repeated `read`, the
`write` of an answer), and nothing of the simulation moves until it returns. The
refinement of `BitbangAdapter` executes a read when its answer is written,
although `tdo` was sampled when the call began.

**Verilator testbench.** A clock of `clockSpin` is a step, a statement of `main`
between two spins another. The core is kept to what the two programs use: one
instruction per clock of DECODE or a bubble, and the controller states that boot,
debug request, CSR drains and `dret` lead through, with their lengths in clocks.
`Wirings` are the parameters of `top.sv` and the length of the pulse, as built
and as the testbench takes them to be.

**flexfloat.** A word of the backend is the record of its sign, exponent and
fraction. The backend's own arithmetic is external and given by IEEE 754 at a reduced width
(`Rounded`); the library's functions are translated one by one, in the order in
which `flexfloat_sanitize` applies them: `Normalised`, `AddRounding`, `Cut`. The
library is taken as it is built by default, with rounding, and with the statistics
on. The properties do not look at fields: `InFormat` and
`RoundedRight` measure a number in units of the backend's smallest number.

## 3. The runs

| Run | Question | Instance | Distinct states |
|---|---|---|---|
| `lbist_controller` | does the controller keep the promises of a session, and come to its end? | the constants of `controller.vhd` (101 patterns, 48 shifts, 11 reseedings) | 242 428 |
| `bist_registers` | does the generator reach every word, and which wrong responses can a signature hide? | the 16 bit configuration; 4 bits, taps 1 and 3, up to 2 wrong responses | 66 046 |
| `lbist_bench` | does the whole self test apply the scheduled patterns, under any tester, and does the testbench read the verdict? | 4 chains of 1 or 2 cells, 2 patterns a seed, 3 seeds, 9 cores; without the testbench `test_mode` low at up to 2 edges of a session, `rst` at any | 246 580 |
| `fetch_path` | do the right instructions reach ID, and keep coming, with two nested hardware loops and words that may not be read? | 24 half words of both sizes, instructions across words; two loops, counters below 5; one denied word; PC set to any of four addresses, in and outside loops | 24 990 |
| `loop_end_straddles` | *violation*, section 6 | one loop | stops early |
| `memory_pipeline` | has each access its effect, with every dependency between neighbours, and does it end? | 12 bytes; two instructions in a row of every size, sign, alignment and addressing mode, or four of nine kinds that get in each other's way | 52 963 |
| `core_controller` | are traps precise, steps single and requests served? | two instructions of ten kinds, every one after every one, with their handlers; interrupts, halt requests and single steps in any cycle | 112 478 |
| `elw_replay` | *violation*, section 6 | `p.elw` in a program of two, no requests | stops early |
| `remote_bitbang` | is the bridge an adapter, and does it execute all it has been sent? | two clients, four bytes in all, two answers fill a socket, a call every other clock, a device of two bits | 687 620 |
| `verilator_model` | does the program resume, undisturbed, in the right order of reports? | the constants of `testbench.cpp`; the wiring as built and six as meant, pulses of 2, 3 and 4 clocks; a bubble or none before each instruction | 746 288 |
| `flexfloat` | are results numbers of their format, rightly rounded, and counted once? | a backend of 4 + 5 bits, three formats, four rounding modes; every word, cast in place or not, then one operation with it; sessions of three counted operations | 520 314 |
| `heap` | *violation*, section 6 | a heap of 8 bytes | stops early |

**Why the bounds are enough.** The controller needs no bound. In
`bist_registers` the registers are compared by xor, which treats every bit
alike except tapped, untapped and feedback lines, and 4 bits have one of each
at least. `lbist_bench` has chains shorter than the fill, more than one pattern
per seed and a seed that is followed by another, and `MaxDrops = 2` lets the
tester interrupt a session in two places and resume it. The FIFO has four
entries and at most one request is owed, so the buffer never holds or awaits
more than five words; 24 half words are twelve words, so two words in flight
never have the same address, and the address space wraps. In
`memory_pipeline` two instructions of any kind are as many as EX and WB hold; three words of
memory let an access cross any of the word boundaries, the one at the top of the
address space included. Four
instructions of the other kind are enough because a dependency spans at most ID, EX and WB. `Counts = 5` is enough for a loop of
three iterations, in which the counter passes the two cases the code
distinguishes (above 2, and 2 with a decrement in flight).
Two instructions are enough for the controller: at most ID and EX hold one, each kind
may stand at both places, and a jump or branch may go to either. A plain
instruction is one of memory that does not wait; it is left out of the run, not of the
module. The debug ROM turns single steps on or off and leaves by `dret`, or starts
again by `ebreak`.
Two clients of the bridge are one that is served and one that is refused; four
bytes let a client fill its socket with answers and send one more. One bubble
before each instruction lets the request find the hart before, at and behind every
instruction the pulse can reach; `HeldLongEnough` says how more would lengthen the
pulse that is needed. A backend with four exponent and five fraction bits has
formats with denormalised numbers that are normalised in the backend, two bits or
more that rounding drops, and infinities that only the small format overflows to;
tables of two and four slots are full after the third format. A second operation matters
only after a cast in place, because every other one brings its result into the format.

**What the properties say.** The comment above each states it. The ones that carry
most:

- `ImplementsSession`: under any tester the controller applies each pattern
  once, announces its end only when none is left, and only a reset starts over.
  `NoPatternAfterEnd` is the reverse of the medal: the counters are not cleared at the
  end, so a second session without reset applies nothing.
- `StimulusIsScheduled`, `WholePatterns`: the LFSR and the chains are functions of
  the counters, as long as nobody drops `test_mode`.
- `SampleInGo`, `VerdictIsComparison`: the testbench's one and a half periods are
  right to the cycle.
- `WordIsMemory`, `ImplementsStream`, `PcIfFollows`, `FaultIsDue`: the right words,
  in program order, with the right saved PC, and no fault that is not due.
- `ImplementsIsa`: split accesses, forwarding, stalls and write-back add up to
  one instruction at a time.
- `ImplementsAdapter`, `EverythingIsExecuted`: whatever the client does and however
  the calls are spread over the clock, each read is answered with the level TDO
  has after all earlier bytes, and a byte sent by the client that is served is
  executed or the simulation ends.
- `TestResume`: what is enough for the test of the Verilator model to work and, in its part
  `ResumeNeeds`, what it cannot do without (section 6).
- `RoundedRight`: adding one unit in the backend and cutting the rest off is a
  rounding to the small format, but for denormalised results (section 6).
- `CountedOnce`: however formats collide, an operation is counted in the one slot of
  its format; a search that does not return has met a full table.
- `InFormat`: the history `rounded` keeps the format each number should be of. It is the
  object's own until the object is cast in place (section 6, 10); what is computed from
  such a number is in its format again.
- `ImplementsHart`: whatever the requests, the delays and the instructions still in
  EX and WB, each instruction takes effect once and in turn, and traps and halts save
  the address of the first one that has not. `StepIsOne`: a single step never executes
  two, which depends on its finding EX and WB empty. `RequestsAreServed`: no sleep is for ever.
- `NoWriteConflict`: the load stall looks at one register, the write address in
  EX, although the load may be in WB; this is why that is enough.

## 4. Fairness

| Specification | Assumption | Why |
|---|---|---|
| `LbistController!FairSpec`, `LbistBench!BenchSpec` (`BenchEnds`: the testbench is there) | WF of an edge | the clock runs |
| `LbistController!HeldTestFinishes` | its antecedent: the tester holds `TEST` and does not reset | a property of the tester, stated in the formula |
| `FetchPath!FairSpec` | WF of `Flows`, SF of `Flows` with a grant, SF of `Flows` with an answer | the clock runs; the random stall generator (`riscv_random_stall.sv`) and `mm_ram.sv` delay a grant and an answer by a bounded number of cycles; ID is ready again and again because each instruction ends. Nothing is assumed of the controller's other actions: they only ever give ID something else to do |
| `MCMemoryPipeline!MCSpec` | WF of a cycle, SF of one with a grant, SF of one with an answer | as above |
| `CoreController!FairSpec` | WF of a cycle in which every answer has come, `Best`, once the core is enabled | the clock runs, and memory answers; the subscript `coreVars` leaves out the pins, so nothing makes an interrupt or a halt request come or go |
| `RemoteBitbang!FairSpec` | WF of `SimNext` | the simulator runs; nothing is assumed of the clients, who may never connect, send or fetch, nor of `AcceptFails`, which is a failure of the system call |

`Flows` joins the memory's part with ID's: in one cycle ID accepts an
instruction and the memory grants or answers. `NextArrives` is about an empty ID
stage, which has nothing to be stalled by, so the two do come together. The
strong fairness is needed because a request may be withdrawn for an answer
and the reverse: each is enabled again and again, not continuously.

## 5. What is proved

TLAPS checks these for every value of the constants, under the named
assumptions about them in the modules (widths and limits of counters, an even
number of half words, a memory of whole words, taps other than bit 0). Three groups
have a hypothesis of their own, stated in the theorem: `LoopsBehave`, `PlainProgram` and
`HaltsAtEntry`, explained below.

| Theorem | Says |
|---|---|
| `LbistControllerProofs!TypeCorrect`, `WholeFills` | the invariants of the controller |
| `LbistControllerProofs!NoneAfterEnd` | `NoPatternAfterEnd`, an action property |
| `LbistControllerProofs!Refinement` | the controller implements `LbistSession` |
| `BistRegistersProofs!NeverLocksUp` | the lock-up word is never reached |
| `BistRegistersProofs!SingleErrorSeen` | one wrong response is never hidden |
| `LbistBenchProofs!SamplesVerdict`, `VerdictCompares` | the testbench looks when the verdict is there, and the verdict is the comparison |
| `LbistBenchProofs!StimulusScheduled`, `PatternsWhole` | the stimulus is a function of the counters, and a pattern goes into the core whole |
| `CoreControllerProofs!StepsOne` | a single step executes one instruction |
| `CoreControllerProofs!HartImplemented` | with `PlainProgram`, the controller and its pipeline implement `Hart` |
| `VerilatorProofs!MarksAreChanges` | a register is marked in the log exactly when it changed |
| `VerilatorProofs!RegistersComeBack`, `ReportsInOrder` | with `HaltsAtEntry`, the ROM gives the program its registers back, and reports halt and resume in order |
| `VerilatorProofs!ResumesOnlyAsMeant` | with `HaltsAtEntry`, `ResumeNeeds`, the half of `TestResume` that says what is needed: the program is resumed only as the right hart, from the ROM and after a pulse of three clocks |
| `MemoryPipelineProofs!TypeCorrect`, `AnswersAreTracked`, `WritesDoNotConflict`, `LoadsStayInOrder` | the invariants of the pipeline |
| `MemoryPipelineProofs!IsaImplemented` | the pipeline implements `MemoryIsa` |
| `FetchProofs!TypeCorrect`, `AnswersAreTracked`, `NeverOverflows` | the invariants of the fetch path |
| `FetchProofs!FetchesMemory`, `SavedPcFollows`, `FaultsAreDue`, `StreamImplemented` | with `LoopsBehave`, loops that jump back included, the right words with the right saved PC and no undue fault, as `InstructionStream` has them |
| `RemoteBitbangProofs!Refinement` | the bridge implements `BitbangAdapter` |

**Controller.** `Inv` adds to the properties that a verdict needs exhausted counters
(`GoIsLast`) and a reseed a cleared pattern counter (`ReseedIsCounted`). For the refinement each action maps to one of the session's;
the arithmetic is that `PatternsLeft` drops by one when `CountPattern` carries from
the pattern counter to the seed counter.

**Testbench.** `NoVerdictYet` says that before its sample the testbench has no verdict to
miss; `S_Go` is entered only from `S_Test` with exhausted counters, so the cycle behind
it is the one of the comparison. `StimulusScheduled` needs the schedule as an invariant in
the middle of a pattern: in each state of the controller the LFSR has made the shifts
the counters say, and the chains hold the phase shifter's outputs of the last of them. The
number of shifts is unbounded in the number of patterns, and the prover has no
induction rule; where a recursive function of the shifts is needed, the proof takes the
least number that fails (`WFMin` with the order of the naturals) and contradicts it.
Of the constants it needs that there are at least two chains (`WidthAssumption`).

**MISR.** `Compacted` is injective in the register for fixed data, and in the
data for a fixed register; so registers that differ stay different. The
invariant `PairInv` speaks of the registers instead of the signatures, and of bit 0,
which is in no signature and must not be the only difference.

**LFSR.** Only the lock-up word shifts into the lock-up word: the bits above
the first must all have come from lock-up bits, and then the feedback, whose
first tap is the bit that falls out, tells what that bit was. The reset word is
another word because the register has at least two bits.

**Memory pipeline.** `IInv` adds to the properties `Stage` (what the ID/EX
registers say about each other) and `Owner`: a load in WB has its register
still in the write address of EX unless another load is there. `Owner` is what makes
`NoWriteConflict` inductive. A consequence is that the two states of the
load-store unit for a stall of EX after a grant are never entered. For `ImplementsIsa`
the mapped state counts the access in EX as done, so a step of the machine is the cycle
in which an instruction leaves ID, and every other cycle must stutter. `SplitInv` says
what has happened to a split access between its halves: the first word is owed or held
(`FirstRead`), or its bytes are stored (`FirstWritten`). `LoadJoins`, `OnlyHalf`, `FirstHalf`
and `OtherHalf` are about values only: byte lanes against addresses that wrap around.
`RetireStep` shows that what EX lets go has its effect, `ReadDone` that an operand is
read as the instructions before left it, which is where the load stall is needed.

**Fetch path.** `IInv` adds `TargetIsStored` (a loop target in the second entry
of the FIFO is really there) and `RoomForRequest`: room for an answer is
reserved when the request is made, one entry before the FIFO is full, and it must
still be there while the request waits for its grant. A loop jump fetches
although the FIFO is full; its word replaces what is stored, hence the
exception `hwlp_CS = "FETCHING"`. One lemma per wire gives its type, one per
invariant its preservation by a cycle, and `EdgeKeeps` joins them for
whatever the controller does.

The four theorems about what is fetched have `OrderInv`. The FIFO holds a run of consecutive words
(`Contents`), and the request on its way is for the next word of the run (`Requested`). While the jump
of a loop is asked for and its end has not been taken, the word of the end stands in front of the run, and
the run is that of the loop's start (`Held`, `Phase`); `Jumps` says that this happens exactly where
rounds remain. `LoopRegs` says that a counter with rounds to go belongs to a loop
instruction of the program, `Rounds` what the counters are when the decrement in flight has
arrived. `InStep` relates IF and ID to the last instruction that left: the PC in IF is the one that
follows, and the decrement travels with the first instruction behind a jump. The
prefetch buffer's cycle is a case for each of three situations (nothing held, held, the end just
recognised: `FreeFlow`, `HeldFlow`, `EndFlow`), the controller's actions use it as one of
three cycles (`BranchCycle`, `FlowCycle`, `HoldCycle`).
The hypothesis `LoopsBehave` (`FetchPath`) restricts the loops that jump back; a loop set to
one round or none may be any. Ends must begin a word: otherwise the statements
are false (section 6, 1 and 6). No denied word within the three words behind an end or at a start: section 6, 5. No loop
instruction at an end or right before it, where its registers come too late for the
comparison. The last two conditions, a loop instruction that is not right behind the end of its
own loop and a first instruction that does not write the registers of its loop, are for the
comparison with `InstructionStream` only, which reads the registers a stalled loop instruction has already
written. `MCFetchPath` lets TLC check that the loops of the run meet the hypothesis (`HypothesisHolds`).

**Core controller.** `IInv` says where the controller may be (`Places`) while
something is in ID, in EX or has been executed. The argument: the
instruction that is stepped finds nothing in EX or WB to wait for
(`SteppedAlone`, `WbEmpty`), so a `wfi` or `fence.i` is ready in the cycle in which it is
counted as executed and goes to DBG_FLUSH; without that it would go to FLUSH_EX and
from there back to DECODE. Once an instruction has been executed, the controller is in one of
the states that lead to the debugger and nowhere else (`Leaving`). One lemma per
state of the machine. `StepsOne` needs no assumption about requests: the
withdrawn interrupts and early halts that `ImplementsHart` does not stand are included.
`HartImplemented` has `TurnInv` on top: in each state of the controller, the instruction in ID, if it is
to be executed, is the one `due`, the PC in IF is the one behind it or, with an empty ID, the one
due itself, and a branch in EX is the instruction before. `due` is a variable that follows
the program, so every disturbance is a step in which ID or IF could
part from it. Its hypothesis `PlainProgram` leaves out what the run leaves out:
withdrawn interrupts, a halt while stepping, `wfi` in the ROM and `p.elw`, with which the
refinement fails (section 6, 3 and 11).

**Verilator testbench.** `CopyIsCurrent`: the copy of the registers that the next
log line is compared with is the one of the last line. For the debug ROM, `DebugInv` gives each
of its addresses what must be true there: which of `s0` and `a0` are saved, what the
flags said when they were read, and what has been reported. `HaltsAtEntry` says that the halt address
is the entry of the ROM or outside of it, as it is for every wiring of the run; entered in
its middle, the ROM would restore registers nobody has saved. `ResumeInv` counts what is left of the
pulse from the acceptance of the request to DBG_TAKEN_ID, so a return address that is not 0
means a pulse of three clocks; without one `dret` goes to address 0, where there is no program,
and the hart traps to it for ever (`StaysAtZero`).

**Socket bridge.** `IInv` says which of the thread's places go with a client, with a
byte that is waiting, and with pins the device has already seen; the last is what
makes the early sample of `tdo` the right answer. `PendingRead` and
`ReadIsPending` relate the bytes the bridge holds to those the adapter has not
executed; then each action maps to one of the adapter's or to a stutter.

**Only model-checked.** Liveness (`HeldTestFinishes`, `DroppedTestStops`,
`BenchEnds`, `NextArrives`, `AccessEnds`, `EverythingIsExecuted`, `RequestsAreServed`): fairness is beyond the prover.
`FullPeriod`: a fact about one polynomial. `GoodCorePasses` depends on the golden signature of
the instance. The other half of `TestResume` is a matter of numbers:
with more than a bubble per instruction `main` may end before the program is reached again.
The properties of `FlexFloat` need powers of two, which the
prover's arithmetic does not have.

## 6. What the runs found

1. **A loop end that straddles two words loses its second half**
   (`loop_end_straddles`, `riscv_prefetch_buffer.sv:429`). When the PC is set to such an
   address and the request for the second word is not granted at once, the
   request address is overwritten by the loop's target.
2. **The heap may leave its area** (`heap`, `sbst/syscalls.c:264`). `_sbrk` moves the
   break in the comparison and again behind it, and hands out the old break even
   when nothing is left; `link.ld` puts the stack right behind the heap.
3. **A `p.elw` is executed again though no interrupt came** (`elw_replay`,
   `riscv_controller.sv:648`). ELW_EXE goes to IRQ_FLUSH when the answer is there;
   IRQ_FLUSH finds no interrupt and returns to DECODE with the flag that makes the ID
   registers be decoded again, and they still hold the `p.elw`. It ends with an interrupt or a halt only.

Seen while modelling, without a violation run of its own:

4. The root's `riscv_bist_testbench.vhd` asserts `go_nogo` after 30 000 periods; a
   session with the constants of `controller.vhd` takes 60 612. The copy in `bist/`
   waits for the end pulse.
5. The prefetch past the end of a loop may meet a denied word; WAIT_JUMP waits for
   a branch only, and a fault is raised though the next instruction is the start
   of the loop (`riscv_prefetch_buffer.sv:281`).
6. When the PC is set to an *odd compressed* loop end, the jump to the start comes
   one cycle later whether or not ID took the instruction
   (`riscv_prefetch_buffer.sv:180`); if ID was not ready, the instruction is dropped.
7. A single step, `wfi` or CSR access at the last instruction of a loop saves
   the start of the loop as the next PC, while the decrement travels with an
   instruction that never comes: the loop runs once more
   (`riscv_controller.sv:566`). `CoreController` has the saved PCs, and no loops.
8. The Verilator testbench does not reach the "Resume" its README announces.
   `TestResume` says what it takes, and the model as built has none of it:
   `top.sv` leaves the core its default halt address, at which there is no ROM; it
   wires hart 0 where `main` flags hart 0x3e0; and the pulse of two clocks is over
   when DBG_TAKEN_ID would save the return address, which it does only while
   `debug_req_i` is still up (`riscv_controller.sv:885`), so that `dret` goes to 0.
9. The bridge repeats a read that found nothing within the same call, so that a silent
   client holds the simulated clock; its comment
   says "We'll try again the next call" (`remote_bitbang.c:135`). A client that
   hangs up without `Q` is never replaced: `client_fd` stays set, and every later
   call reads the end of file. A full socket aborts the simulation.
   `BitbangAdapter` allows all three.
10. `ff_cast` stores the new format before it compares it with the source's and counts
   the cast (`flexfloat.c:363`). Of an object that is cast in place, `ff_cast(&x, &x, d)`, the
   number is therefore not rounded, and `ff_inverse` and casts to the same format hand it
   on; and the cast is counted as one from `d` to `d`, where
   the library's README says "grouped by source+destination type pairs" (its line 49); `CountedOnce` counts
   these apart. flexfloat rounds NEAREST ties away from zero, not to even. A denormalised
   result may be off by almost two units except when rounding toward zero; rounding
   up or down makes a zero of that sign the smallest number, because a backend zero is
   first replaced by the smallest normalised one. `ff_acc` is counted as an
   inversion (`flexfloat.c:471`). A NaN whose payload lies below the small format's
   last place becomes an infinity. `flexfloat_set_bits` and `flexfloat_get_bits` do
   not agree on denormalised numbers. A full statistics table makes `ht_search` go
   round for ever, so the assertion in `ht_insert` that should report it is not
   reached (`flexfloat.c:537`, `:553`). The properties are stated around these, and
   the comments say where.
11. Settings of `CoreController` under which `ImplementsHart` fails, and which the run therefore
    leaves out. `Requests` with `"withdraw while busy"`: an interrupt that is withdrawn in
    IRQ_FLUSH while EX or WB is busy loses the instruction in ID, because the replay flag lasts
    one cycle (`riscv_controller.sv:294`). `"halt while stepping"`: DBG_FLUSH takes every halt
    in step mode for the end of a step and saves the PC of IF, dropping the instruction in
    ID (`:948`). `RomOps` with `wfi`: FIRST_FETCH takes an interrupt in debug mode,
    which DECODE refuses ("don't serve in debug mode", `:436`).
12. Single-stepping a `p.elw` saves no return PC, DBG_TAKEN_ID doing that for `debug_req_i`
    only (`riscv_controller.sv:885`), and the step is repeated.

The passing run of the fetch path stays clear of 1, 5, 6 and 7: `fetch_path` sets the PC to
no odd loop end, its denied word is not behind a loop, and `HaltBehind` does
not act at a loop end. These are restrictions of the runs and actions, and two
more are assumptions about programs: a loop body has at least two instructions,
and its last one is no jump or branch (the guard `InLoopEnd`).

An interrupted self test (`test_mode` low in a session) is *not* claimed to give the
right signature: LFSR and MISR freeze while the chains shift on
(`controller.vhd:98`), and a reseed may be skipped (`:125`). `LbistTop`
states its properties for steady sessions only, and `ImplementsSession` allows the
interruption.

## 7. What is not modelled

**Of the parts with modules.** The fetch path is that for 32 bit instruction data,
the default of `riscv_core.sv` and what the program and debug testbenches run; the
netlist under self test and the Verilator model are built for 128 bits, where
`riscv_L0_buffer.sv` stands in the place of the FIFO. Single writes to loop registers; data errors
of the PMP, which come with user mode; jumps, CSR accesses, exceptions and multicycle
operations in the memory pipeline. In `CoreController` user mode, `dcsr.ebreakm`, the
numbers of interrupts and the causes, and the composition with the fetch
path, whose hardware loops move the saved PC (section 6, 7). `ZERO_D` of the LFSR is open. `FlexFloatAssumption` leaves out formats as wide as
the backend in a field, and those of which half a unit is not a normalised number of the
backend, where adding it loses bits; `flexfloat_set_bits`, the conversions back to
C types, the tracking build and the printing are left out, as is the C++ wrapper,
which adds operator syntax. The rounding mode is set once in a behaviour, and an
object is made once. The traced instructions of the Verilator model's pipeline
beyond ID are bubbles, and its VCD file is left out. The start-up code and the
linker script of the software self test are only read for the heap's place.

**Parts without a module.** The divider and the MULH machine are sequential algorithms
with one caller, whose results a simulation compares; the APU dispatcher is tied off
(`FPU = 0`); the PMP is a table of comparisons as long as the load-store unit's error
input is left out. Of the rest see the table of components in `PROJECT.json`:
combinational tables, wiring, text output, generated and third-party code have nothing a
model could check.

**What would come next.** `CoreController` composed with `FetchPath` in place of its free
actions; the 128 bit variant against the same `InstructionStream`; user mode with the
data error machine of the PMP. Theorems: `ImplementsHart` and the properties of `FetchPath` for the
settings left out, once the states in which they fail are described by an invariant.
