------------------------------ MODULE MCVisitor ------------------------------
(***************************************************************************)
(* The instance of Visitor for TLC.                                        *)
(***************************************************************************)
EXTENDS Visitor, TLC

CONSTANTS home, mobile, a, b

PlaceSymmetry == Permutations(Addresses) \cup Permutations(Pages)
=============================================================================
