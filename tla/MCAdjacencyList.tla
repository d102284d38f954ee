-------------------------- MODULE MCAdjacencyList --------------------------
(***************************************************************************)
(* Three nodes and three edges: parallel edges beside a third node, a       *)
(* triangle, a loop, two or three nodes with the same datum.  Nodes and     *)
(* edges are interchangeable; of the data it only matters which nodes share *)
(* one, which is what View keeps of named.                                  *)
(***************************************************************************)
EXTENDS AdjacencyList, TLC

Symmetric == Permutations(Nodes) \union Permutations(Edges)

View == <<node_list, node_count, Range(named), edge_list, edge_count, edge, freed,
          custom_free, status>>
=============================================================================
