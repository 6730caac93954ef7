------------------------------- MODULE MCFido2 -------------------------------
(***************************************************************************)
(* Constants of Fido2 for TLC: one relying party with two users, two PINs    *)
(* and the two confirmers of main.c.                                         *)
(***************************************************************************)
EXTENDS Fido2, TLC

CONSTANTS rp, alice, bob, p1, p2
Symmetry == Permutations({alice, bob}) \cup Permutations({p1, p2})
==============================================================================
