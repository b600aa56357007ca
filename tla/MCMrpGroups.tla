---------------------------- MODULE MCMrpGroups ----------------------------
(* MrpGroups on three addresses.  The bases give two shapes of two residues that      *)
(* differ in their moduli only, and one of three, so that a re-registration can be    *)
(* identical, change the moduli, or change the membership.                            *)
EXTENDS MrpGroups, TLC

TwoAndThree == {<<"q0", "q1">>, <<"q0", "q2">>, <<"q0", "q1", "q2">>}
Symmetry == Permutations(Addrs)
=============================================================================
