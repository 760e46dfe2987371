----------------------------- MODULE MCTerminal -----------------------------
(* An instance of Terminal for TLC.                                           *)
EXTENDS Terminal

MCKeys == Shifts \X OfflineIds
=============================================================================
