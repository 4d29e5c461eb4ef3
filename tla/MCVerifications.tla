-------------------------- MODULE MCVerifications --------------------------
(* Small instances of Verifications for TLC.                                 *)
EXTENDS Verifications, TLC

\* Handlers are interchangeable.
SlotSymmetry == Permutations(Slots)

=============================================================================
