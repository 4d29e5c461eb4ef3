--------------------------- MODULE MCPointsLedger ---------------------------
(* Small instances of PointsLedger for TLC.                                  *)
EXTENDS PointsLedger, TLC

\* Handlers are interchangeable.
SlotSymmetry == Permutations(Slots)

=============================================================================
