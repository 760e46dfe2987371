------------------------------- MODULE MCFront -------------------------------
(* The parts of Front for TLC, with two of everyone who can meet another.     *)
EXTENDS Front, TLC

CONSTANTS d1, d2

\* Bound: the last code is sent to an account that is not signed in, and from then on the
\* panel lets the account alone.
LastCodeIsQuiet ==
  Len(codes') = MaxCodes => /\ ~revoking' /\ account' # "blocked"
                            /\ Len(codes) < MaxCodes => sessions = 0

MCFrontSpec == FrontInit /\ [][FrontNext /\ LastCodeIsQuiet]_frontVars

MCFrontSymmetry == Permutations({d1, d2})
=============================================================================
