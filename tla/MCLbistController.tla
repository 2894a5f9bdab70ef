-------------------------- MODULE MCLbistController --------------------------
(***************************************************************************)
(* Model values for LbistController: a signature that matches the golden   *)
(* one and one that does not stand for all signatures.                     *)
(***************************************************************************)
EXTENDS LbistController
=============================================================================
