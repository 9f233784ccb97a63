------------------------------ MODULE MCSession ------------------------------
(* Instances of Session for TLC.                                              *)
EXTENDS Session, TLC

CONSTANTS p1, p2
MCProcs == {p1, p2}
MCSymmetry == Permutations(MCProcs)
=============================================================================
