----------------------------- MODULE MemoryIsa -----------------------------
(***************************************************************************)
(* What the load and store instructions of the core promise a program: one *)
(* instruction at a time, in program order, each access of one, two or     *)
(* four bytes at any alignment taking effect at once on a byte-addressed   *)
(* memory whose addresses wrap around.  MemoryPipeline, where an access    *)
(* may be split in two and its data arrives cycles after the instruction   *)
(* was issued, implements this.                                            *)
(*                                                                         *)
(* The registers are split by what they hold: base is a register used as   *)
(* an address, data[r] a register used for data.                           *)
(***************************************************************************)
EXTENDS Naturals

CONSTANTS
    Instrs,     \* the instructions a program may contain
    DataRegs,   \* names of the registers that hold data
    AddrSpace,  \* number of byte addresses
    InitMem,    \* the bytes of the memory at reset
    InitData,   \* the words of the data registers at reset
    MaxIssued   \* bound: instructions executed

VARIABLES mem, data, base, executed

isaVars == <<mem, data, base, executed>>

(* Number of bytes a data type covers: W(ord), H(alf word), B(yte).        *)
Size(type) == CASE type = "W" -> 4 [] type = "H" -> 2 [] type = "B" -> 1

LoadValue(m, a, type, sext) ==
    LET byte(i) == m[(a + i) % AddrSpace]
        fill    == IF sext /\ byte(Size(type) - 1) >= 128 THEN 255 ELSE 0
    IN  [i \in 0..3 |-> IF i < Size(type) THEN byte(i) ELSE fill]

StoreInto(m, a, type, w) ==
    LET pos(k) == (k + AddrSpace - a) % AddrSpace
    IN  [k \in DOMAIN m |-> IF pos(k) < Size(type) THEN w[pos(k)] ELSE m[k]]

Sum(i)     == (base + i.off) % AddrSpace
Address(i) == IF i.post THEN base ELSE Sum(i)
NewBase(i) == IF i.post THEN Sum(i) ELSE base

Load(i) ==
    /\ i.op = "load"
    /\ data' = [data EXCEPT ![i.reg] = LoadValue(mem, Address(i), i.type, i.sext)]
    /\ base' = NewBase(i)
    /\ UNCHANGED mem

Store(i) ==
    /\ i.op = "store"
    /\ mem' = StoreInto(mem, Address(i), i.type, data[i.reg])
    /\ base' = NewBase(i)
    /\ UNCHANGED data

(* An ALU instruction on data registers, of which a copy is the example.   *)
Move(i) ==
    /\ i.op = "move"
    /\ data' = [data EXCEPT ![i.dst] = data[i.src]]
    /\ UNCHANGED <<mem, base>>

(* An ALU instruction that computes an address.                            *)
Point(i) ==
    /\ i.op = "point"
    /\ base' = i.val
    /\ UNCHANGED <<mem, data>>

(* A conditional branch that is not taken.                                 *)
Branch(i) ==
    /\ i.op = "branch"
    /\ UNCHANGED <<mem, data, base>>

Init ==
    /\ mem = InitMem
    /\ data = InitData
    /\ base = 0
    /\ executed = 0

Next ==
    /\ executed < MaxIssued
    /\ executed' = executed + 1
    /\ \E i \in Instrs : Load(i) \/ Store(i) \/ Move(i) \/ Point(i) \/ Branch(i)

Spec == Init /\ [][Next]_isaVars
=============================================================================
