------------------------------ MODULE MCTeams ------------------------------
(***************************************************************************)
(* The instance of Teams for TLC.                                          *)
(***************************************************************************)
EXTENDS Teams, TLC

CONSTANTS ann, bob, root, crew, site, link, q1, q2

Symmetry == Permutations(Requests) \cup Permutations(Users \ Admins)
=============================================================================
