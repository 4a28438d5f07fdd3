------------------------------ MODULE MCStrobe ------------------------------
(* Instances of Strobe for TLC. *)
EXTENDS Strobe, TLC

AnyPin == Permutations(Pins)
=============================================================================
