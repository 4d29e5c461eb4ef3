----------------------------- MODULE MCAccounts -----------------------------
(* Small instances of Accounts for TLC.                                      *)
EXTENDS Accounts, TLC

\* Handlers are interchangeable, and so are the accounts that are not the
\* configured root.
SlotSymmetry == Permutations(Slots) \cup Permutations(Users \ {Root})

=============================================================================
