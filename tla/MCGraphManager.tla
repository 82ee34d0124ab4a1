--------------------------- MODULE MCGraphManager ---------------------------
(***************************************************************************)
(* GraphManager for TLC.  Graph ids, nodes and requests are model values   *)
(* that nothing tells apart, so the runs without liveness use Symmetry.    *)
(***************************************************************************)
EXTENDS GraphManager, TLC

Symmetry ==
  Permutations(GraphIds) \cup Permutations(Nodes) \cup Permutations(Requests)

=============================================================================
