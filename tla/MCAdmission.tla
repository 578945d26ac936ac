---------------------------- MODULE MCAdmission ----------------------------
(***************************************************************************)
(* Two launchers on a machine below the reserve and on two above it.       *)
(***************************************************************************)
EXTENDS Admission, TLC

CONSTANTS l1, l2

\* The launchers are interchangeable.
Symmetry == Permutations({l1, l2})
=============================================================================
