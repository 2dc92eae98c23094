------------------------------ MODULE GraphStore ------------------------------
(***************************************************************************)
(* The graph tables of the SQLite file (graph/sqlite_store.py) and what    *)
(* each statement does to them: `nodes`, one row per id; `edges`, a set of *)
(* keys <source, type, destination>; `node_history`, one row per write of  *)
(* a node, in the order of the commits, with the operation it recorded.    *)
(*                                                                         *)
(* A node is a record with its id and what else the properties look at;    *)
(* an edge's properties and the timestamps are left out.                   *)
(***************************************************************************)
EXTENDS Naturals, Sequences

NoNodes == [id \in {} |-> id]

(* get_node                                                                *)
IsStored(nodes, id) == id \in DOMAIN nodes

(* add_node decides under a lock of its own what the history will say.     *)
OpFor(nodes, n) == IF IsStored(nodes, n.id) THEN "update" ELSE "add"

(* A mutant of Upserted: INSERT OR IGNORE instead of the upsert.           *)
InsertedOnce(nodes, n) ==
    [id \in DOMAIN nodes \cup {n.id} |-> IF id \in DOMAIN nodes THEN nodes[id] ELSE n]

(* add_node's upsert: the last writer's columns replace the row.           *)
Upserted(nodes, n) ==
    [id \in DOMAIN nodes \cup {n.id} |-> IF id = n.id THEN n ELSE nodes[id]]

(* A mutant of Recorded: only new nodes get a row of history.              *)
RecordedIfNew(history, n, op) ==
    IF op = "add" THEN Append(history, [node |-> n, op |-> op]) ELSE history

(* add_node's second statement, committed with the first.                  *)
Recorded(history, n, op) == Append(history, [node |-> n, op |-> op])

(* add_edge: a key that is there already is left as it is.                 *)
Linked(edges, e) == edges \cup {e}
===============================================================================
