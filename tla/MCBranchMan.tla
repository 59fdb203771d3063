---------------------------- MODULE MCBranchMan ----------------------------
(***************************************************************************)
(* Small unions: a directory in two of three branches and a file in two.   *)
(***************************************************************************)
EXTENDS BranchMan, TLC

CONSTANTS b0, b1, b2, slash, etc, passwd, h1, h2

MCHas == [n \in Names |-> IF n = slash THEN Branch
                          ELSE IF n = etc THEN Branch \ {b2} ELSE Branch \ {b0}]

Symmetry == Permutations(Handles)
=============================================================================
