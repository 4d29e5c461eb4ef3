--------------------------- MODULE MCLiveLocation ---------------------------
(* Small instances of LiveLocation for TLC.                                  *)
EXTENDS LiveLocation, TLC

=============================================================================
