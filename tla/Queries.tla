-------------------------------- MODULE Queries --------------------------------
(***************************************************************************)
(* What the store's readers (graph/sqlite_store.py) and the commands that  *)
(* only read (cli/commands/query.py, explore.py) answer on a graph.        *)
(***************************************************************************)
EXTENDS GraphStore

(* neighbors: a join, so an edge that dangles leads nowhere.               *)
NeighborsOf(nodes, edges, id) == {e \in edges : e[1] = id /\ IsStored(nodes, e[3])}

(* _neighbors_with_edge, which is the answer to "what touches" and what    *)
(* explore shows: the edges at a node whose other end is stored.           *)
Touching(nodes, edges, id) ==
    NeighborsOf(nodes, edges, id) \cup {e \in edges : e[3] = id /\ IsStored(nodes, e[1])}

(* "what runs": the edges of the steps and programs that invoke a program. *)
Invokers(nodes, edges, program) ==
    {e \in edges : e[2] \in {"EXECUTES", "CALLS"} /\ e[3] = program /\ IsStored(nodes, e[1])}
================================================================================
