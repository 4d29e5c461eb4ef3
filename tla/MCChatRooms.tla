---------------------------- MODULE MCChatRooms ----------------------------
(* Small instances of ChatRooms for TLC.                                     *)
EXTENDS ChatRooms, TLC

\* Handlers are interchangeable.
SlotSymmetry == Permutations(Slots)

=============================================================================
