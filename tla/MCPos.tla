------------------------------- MODULE MCPos --------------------------------
(* An instance of Pos for TLC.                                                *)
EXTENDS Pos

MCKeys == Shifts \X OfflineIds
=============================================================================
