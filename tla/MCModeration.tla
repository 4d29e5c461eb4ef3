----------------------------- MODULE MCModeration -----------------------------
(* A small instance of Moderation for TLC.                                   *)
EXTENDS Moderation, TLC

\* Processes are interchangeable, and so are handlers.
MCSymmetry == Permutations(Slots) \cup Permutations(Processes)

=============================================================================
