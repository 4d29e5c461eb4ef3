------------------------------- MODULE MCKbzPay -------------------------------
(* A small instance of KbzPay for TLC.                                       *)
EXTENDS KbzPay, TLC

\* Handlers are interchangeable.
HandlerSymmetry == Permutations(Handlers)

=============================================================================
