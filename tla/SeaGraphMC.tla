----------------------------- MODULE SeaGraphMC -----------------------------
(* SeaGraph on a few nodes.  Addresses are interchangeable, except Start's. *)
EXTENDS SeaGraph, TLC

Symmetry == Permutations(Node \ {Root})
=============================================================================
