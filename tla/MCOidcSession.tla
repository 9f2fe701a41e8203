--------------------------- MODULE MCOidcSession ---------------------------
(***************************************************************************)
(* Finite instances of OidcSession.                                        *)
(***************************************************************************)
EXTENDS OidcSession, TLC

CONSTANTS r1, r2, r3, j1, j2

Symmetry == Permutations(Requests) \cup Permutations(Jobs)
============================================================================
