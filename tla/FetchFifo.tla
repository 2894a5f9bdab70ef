------------------------------ MODULE FetchFifo ------------------------------
(***************************************************************************)
(* rtl/riscv_fetch_fifo.sv: the words fetched but not yet decoded, and the *)
(* aligner that cuts instructions out of them.                             *)
(*                                                                         *)
(* Addresses count half words and wrap at Halves (2^31 in the code).  What *)
(* a half word holds is named by its address; it is the first half of a    *)
(* compressed instruction when it is in Compressed (low bits not 11).  A   *)
(* fetched word is the pair of its lower and upper half.                   *)
(*                                                                         *)
(* valid_Q is a prefix of the entries, so the valid words are a sequence.  *)
(* addr_Q is kept for entries 0 and 1 only, the code reads no other, and   *)
(* is 0 for an entry that is not in use.                                   *)
(***************************************************************************)
EXTENDS Naturals, Sequences

CONSTANTS Halves, Compressed

ASSUME FetchAssumption ==
    /\ Halves \in Nat /\ Halves > 2 /\ Halves % 2 = 0
    /\ \A h \in Compressed : h \in Nat /\ h < Halves

VARIABLES
    rdata_Q,    \* the valid words, oldest first
    addr_Q,     \* the address of entry 0, and of entry 1 while it is a loop target
    is_hwlp_Q   \* entries 0 and 1: the first word of a hardware loop jump

fifoVars == <<rdata_Q, addr_Q, is_hwlp_Q>>

DEPTH == 4

Addr  == 0..(Halves - 1)
Junk  == Halves                 \* what the data input shows without an answer
Half  == 0..Halves
Pair  == [1..2 -> Half]
Odd(a) == a % 2 = 1
WordOf(a)   == a - (a % 2)
NextWord(a) == (WordOf(a) + 2) % Halves

FifoTypeOK ==
    /\ rdata_Q \in Seq(Pair)
    /\ Len(rdata_Q) <= DEPTH
    /\ addr_Q \in [0..1 -> Addr]
    /\ is_hwlp_Q \in [0..1 -> BOOLEAN]

FifoInit ==
    /\ rdata_Q = <<>>
    /\ addr_Q = [e \in 0..1 |-> 0]
    /\ is_hwlp_Q = [e \in 0..1 |-> FALSE]

-----------------------------------------------------------------------------
(* The output port.  in is the input port of the cycle: valid, addr, data, *)
(* and jump when its word replaces the second entry.                       *)

Front(in)   == IF rdata_Q # <<>> THEN rdata_Q[1] ELSE in.data
OutAddr(in) == IF rdata_Q # <<>> THEN addr_Q[0] ELSE in.addr
OutIsHwlp(in) == IF rdata_Q # <<>> THEN is_hwlp_Q[0] ELSE in.jump

\* Before a loop target, entry 0 has been aligned already.
Unaligned(in) == Odd(OutAddr(in)) /\ ~is_hwlp_Q[1]
UnalignedIsCompressed(in) == Front(in)[2] \in Compressed

OutRdata(in) ==
    IF Unaligned(in)
    THEN <<Front(in)[2], IF Len(rdata_Q) > 1 THEN rdata_Q[2][1] ELSE in.data[1]>>
    ELSE Front(in)

OutValid(in) ==
    IF Unaligned(in) /\ ~UnalignedIsCompressed(in)
    THEN Len(rdata_Q) > 1 \/ (Len(rdata_Q) = 1 /\ in.valid)
    ELSE rdata_Q # <<>> \/ in.valid \/ is_hwlp_Q[1]

(* The same without the word that is arriving.                             *)
ValidStored(in) ==
    IF Unaligned(in) /\ ~(rdata_Q # <<>> /\ rdata_Q[1][2] \in Compressed)
    THEN Len(rdata_Q) > 1
    ELSE rdata_Q # <<>>

\* Mutant: the FIFO asks for a word while any entry is free.
InReady_Full == Len(rdata_Q) < DEPTH
InReady == Len(rdata_Q) < DEPTH - 1

-----------------------------------------------------------------------------
(* The input port, then the output port, then the registers.               *)

Replaces(in) == in.valid /\ in.jump /\ rdata_Q # <<>>

Pushed(in) ==
    IF Replaces(in) THEN <<OutRdata(in), in.data>>
    ELSE IF in.valid /\ Len(rdata_Q) < DEPTH THEN Append(rdata_Q, in.data)
    ELSE rdata_Q

PushedAddr(in) ==
    [e \in 0..1 |->
        IF in.valid /\ (e = Len(rdata_Q) \/ (e = 1 /\ Replaces(in))) THEN in.addr ELSE addr_Q[e]]

PushedHwlp(in) ==
    [e \in 0..1 |->
        IF in.valid /\ in.jump /\ (e = 1 <=> rdata_Q # <<>>) THEN TRUE ELSE is_hwlp_Q[e]]

\* An aligned compressed instruction leaves the upper half of its word.
KeepsWord(in) ==
    /\ ~PushedHwlp(in)[1]
    /\ ~Odd(PushedAddr(in)[0])
    /\ Front(in)[1] \in Compressed

PoppedAddr(in) ==
    LET a == PushedAddr(in)[0]
    IN  CASE PushedHwlp(in)[1] -> PushedAddr(in)[1]
          [] ~PushedHwlp(in)[1] /\ KeepsWord(in) -> a + 1
          [] ~PushedHwlp(in)[1] /\ ~KeepsWord(in) ->
                IF Odd(a) /\ ~UnalignedIsCompressed(in) THEN NextWord(a) + 1 ELSE NextWord(a)

FifoStep(data, addr, hwlp) ==
    /\ rdata_Q' = data
    /\ is_hwlp_Q' = hwlp
    /\ addr_Q' = [e \in 0..1 |-> IF IF e = 0 THEN data # <<>> ELSE hwlp[1] THEN addr[e] ELSE 0]

FifoCycle(in, ready, clear) ==
    CASE clear -> FifoStep(<<>>, addr_Q, [e \in 0..1 |-> FALSE])
      [] ~clear /\ ready /\ OutValid(in) ->
            FifoStep(IF KeepsWord(in) THEN Pushed(in) ELSE Tail(Pushed(in)),
                     [PushedAddr(in) EXCEPT ![0] = PoppedAddr(in)],
                     [e \in 0..1 |-> e = 0 /\ PushedHwlp(in)[1]])
      [] ~clear /\ ~(ready /\ OutValid(in)) ->
            FifoStep(Pushed(in), PushedAddr(in), PushedHwlp(in))
=============================================================================
