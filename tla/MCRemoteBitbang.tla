--------------------------- MODULE MCRemoteBitbang ---------------------------
(***************************************************************************)
(* A device with a shift register of two bits: TRSTn clears it, a rising   *)
(* edge of TCK with TMS low shifts TDI in, a falling edge puts the other   *)
(* end out.                                                                *)
(***************************************************************************)
EXTENDS RemoteBitbang, TLC

MCReset == [bits |-> <<0, 1>>, out |-> 0]

MCOnPins(d, old, new) ==
  IF new.trstn = 0 THEN MCReset
  ELSE IF old.tck = 0 /\ new.tck = 1 /\ new.tms = 0
  THEN [d EXCEPT !.bits = <<new.tdi, d.bits[1]>>]
  ELSE IF old.tck = 1 /\ new.tck = 0
  THEN [d EXCEPT !.out = d.bits[2]]
  ELSE d

MCTdo(d) == d.out

\* Clock low, clock high with both levels of TDI, read, quit, blink.
MCCommands == {"0", "4", "5", "R", "Q", "B"}
=============================================================================
