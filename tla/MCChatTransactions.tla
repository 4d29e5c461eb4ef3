------------------------- MODULE MCChatTransactions -------------------------
(* Small instances of ChatTransactions for TLC.                              *)
EXTENDS ChatTransactions, TLC

\* Handlers and rooms are interchangeable.
SlotSymmetry == Permutations(Slots)
RoomSymmetry == Permutations(Slots) \cup Permutations(Rooms)

=============================================================================
