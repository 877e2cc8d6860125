---------------------------- MODULE MCConversion ----------------------------
(* A small instance of the conversions for TLC.  Sellers and prospects are *)
(* interchangeable: nothing in ProspectConversion tells them apart.        *)
EXTENDS ProspectConversion, TLC

MCSymmetry == Permutations(Owners) \cup Permutations(Prospects)
=============================================================================
