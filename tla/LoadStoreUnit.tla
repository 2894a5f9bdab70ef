--------------------------- MODULE LoadStoreUnit ---------------------------
(***************************************************************************)
(* rtl/riscv_load_store_unit.sv: the state the unit keeps and the values   *)
(* its combinational processes compute from it.  The access in the EX      *)
(* stage is a record x with the ID/EX registers the unit reads:            *)
(*   req, we, type, sext, wdata, opA, opB, useincr, mis.                   *)
(* A 32-bit word is a function from the byte lanes 0..3 to bytes; byte     *)
(* addresses wrap at AddrSpace, which is 2^32 in the adder of the code.    *)
(*                                                                         *)
(* Two inputs are fixed to what the decoder and the privilege mode give:   *)
(* data_reg_offset_ex_i is 0 (the decoder never sets it) and data_err_i is *)
(* 0 (the PMP raises it only outside machine mode).                        *)
(***************************************************************************)
EXTENDS Naturals

CONSTANT AddrSpace

ASSUME AddrSpaceAssumption == AddrSpace \in Nat /\ AddrSpace > 4 /\ AddrSpace % 4 = 0

VARIABLES
    CS,     \* the request state machine
    q,      \* data_type_q, rdata_offset_q, data_sign_ext_q, data_we_q
    held    \* rdata_q

lsuVars == <<CS, q, held>>

Lane  == 0..3
Byte  == 0..255
Word  == [Lane -> Byte]
Zero  == [l \in Lane |-> 0]
Types == {"W", "H", "B"}

LsuStates == {"IDLE", "WAIT_RVALID", "WAIT_RVALID_EX_STALL", "IDLE_EX_STALL"}

LsuTypeOK ==
    /\ CS \in LsuStates
    /\ q \in [type : Types, off : Lane, sext : BOOLEAN, we : BOOLEAN]
    /\ held \in Word

LsuInit ==
    /\ CS = "IDLE"
    /\ q = [type |-> "W", off |-> 0, sext |-> FALSE, we |-> FALSE]
    /\ held = Zero

-----------------------------------------------------------------------------
(* Address, byte enables and write data of the request.                    *)

DataAddr(x) == IF x.useincr THEN (x.opA + x.opB) % AddrSpace ELSE x.opA

Offset(x) == DataAddr(x) % 4

ByteEnable(x) ==
    CASE x.type = "W" -> {l \in Lane : IF x.mis THEN l < Offset(x) ELSE l >= Offset(x)}
      [] x.type = "H" -> IF x.mis THEN {0} ELSE Lane \cap {Offset(x), Offset(x) + 1}
      [] x.type = "B" -> {Offset(x)}

WriteData(x) == [l \in Lane |-> x.wdata[(l + 4 - Offset(x)) % 4]]

(* An access that crosses a word boundary needs a second request.          *)
Misaligned(x) ==
    /\ x.req
    /\ ~x.mis
    /\ \/ x.type = "W" /\ Offset(x) # 0
       \/ x.type = "H" /\ Offset(x) = 3

-----------------------------------------------------------------------------
(* The answer: lanes of the data that arrives, joined for an access that   *)
(* crossed a word boundary to the lanes held from its first half.          *)

Extended(rdata) ==
    LET split   == (q.type = "W" /\ q.off # 0) \/ (q.type = "H" /\ q.off = 3)
        lane(i) == IF q.off + i > 3 THEN rdata[q.off + i - 4]
                   ELSE IF split THEN held[q.off + i] ELSE rdata[q.off + i]
        size    == CASE q.type = "W" -> 4 [] q.type = "H" -> 2 [] q.type = "B" -> 1
        fill    == IF q.sext /\ lane(size - 1) >= 128 THEN 255 ELSE 0
    IN  [i \in Lane |-> IF i < size THEN lane(i) ELSE fill]

(* What the write-back stage is given in a cycle.                          *)
RdataEx(rvalid, rdata) == IF rvalid THEN Extended(rdata) ELSE held

-----------------------------------------------------------------------------
(* Requests and stalls.                                                    *)

\* Mutant: a new request goes out before the last one was answered.
DataReq_Early(x, rvalid) == x.req /\ CS \in {"IDLE", "WAIT_RVALID"}
DataReq(x, rvalid) ==
    /\ x.req
    /\ \/ CS = "IDLE"
       \/ CS = "WAIT_RVALID" /\ rvalid

ReadyEx(x, gnt, rvalid) == DataReq(x, rvalid) => gnt
ReadyWb(rvalid)         == CS = "WAIT_RVALID" => rvalid

\* Mutant: an answer with a refused request behind it leaves the unit waiting.
NextCS_StaysWaiting(x, gnt, rvalid, exValid) ==
    CASE DataReq(x, rvalid) /\ gnt -> IF exValid THEN "WAIT_RVALID" ELSE "WAIT_RVALID_EX_STALL"
      [] CS = "WAIT_RVALID" /\ rvalid /\ ~x.req -> "IDLE"
      [] OTHER -> CS
NextCS(x, gnt, rvalid, exValid) ==
    CASE DataReq(x, rvalid) /\ gnt -> IF exValid THEN "WAIT_RVALID" ELSE "WAIT_RVALID_EX_STALL"
      [] CS = "WAIT_RVALID" /\ rvalid /\ ~(DataReq(x, rvalid) /\ gnt) -> "IDLE"
      [] CS = "WAIT_RVALID_EX_STALL" /\ rvalid  -> IF exValid THEN "IDLE" ELSE "IDLE_EX_STALL"
      [] CS = "WAIT_RVALID_EX_STALL" /\ ~rvalid -> IF exValid THEN "WAIT_RVALID" ELSE CS
      [] CS = "IDLE_EX_STALL" /\ exValid -> "IDLE"
      [] OTHER -> CS

(* The registers at the clock edge.  The data held is the raw word while a *)
(* split access is in EX, the value written back otherwise.                *)
\* Mutant: only the first half of a split access makes the unit hold raw data.
Held_FirstHalfOnly(x, rvalid, rdata) ==
    IF ~(rvalid /\ ~q.we) THEN held
    ELSE IF Misaligned(x) THEN rdata ELSE Extended(rdata)
Held(x, rvalid, rdata) ==
    IF ~(rvalid /\ ~q.we) THEN held
    ELSE IF x.mis \/ Misaligned(x) THEN rdata ELSE Extended(rdata)

LsuCycle(x, gnt, rvalid, rdata, exValid) ==
    /\ CS' = NextCS(x, gnt, rvalid, exValid)
    /\ q' = IF gnt THEN [type |-> x.type, off |-> Offset(x), sext |-> x.sext, we |-> x.we] ELSE q
    /\ held' = Held(x, rvalid, rdata)
=============================================================================
