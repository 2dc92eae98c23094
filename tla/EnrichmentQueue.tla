--------------------------- MODULE EnrichmentQueue ---------------------------
(***************************************************************************)
(* The table enrichment_queue (enrichment/queue.py) and the statements the *)
(* class EnrichmentQueue runs on it.  A queue is the sequence of its rows  *)
(* by row id; rows are never deleted.  Each operator is the effect of one  *)
(* committed statement; next_pending runs two, the SELECT (IsNext) and the *)
(* UPDATE (SetStatus), and another process may commit between them.        *)
(*                                                                         *)
(* Of a row's columns the model keeps the source node, the risk score and  *)
(* the status: unit_hash is written and never read back, the others are    *)
(* labels and timestamps.                                                  *)
(***************************************************************************)
EXTENDS Naturals, Sequences

CONSTANTS
    Paragraphs,     \* the Paragraph nodes of the graph
    Risks           \* the risk scores a row can be given

ASSUME RisksAssumption == Risks \subseteq Nat

Status == {"pending", "in_progress", "done"}

QueueRow == [para : Paragraphs, risk : Risks, status : Status]

(* add: a new pending row; an open row for the same paragraph is no        *)
(* obstacle.                                                               *)
Added(q, p, r) == Append(q, [para |-> p, risk |-> r, status |-> "pending"])

RowsIn(q, s) == {i \in DOMAIN q : q[i].status = s}

(* next_pending's SELECT: ORDER BY risk_score DESC, id ASC LIMIT 1.        *)
IsNext(q, i) ==
    /\ i \in RowsIn(q, "pending")
    /\ \A j \in RowsIn(q, "pending") :
          q[j].risk < q[i].risk \/ (q[j].risk = q[i].risk /\ i <= j)

(* next_pending's UPDATE, mark_done and mark_failed: by row id alone, with *)
(* no condition on the status the row has now.                             *)
SetStatus(q, i, s) == [q EXCEPT ![i].status = s]

(* A mutant of ResetInProgress that reopens the finished rows as well.     *)
ResetEveryRow(q) == [i \in DOMAIN q |-> [q[i] EXCEPT !.status = "pending"]]

(* reset_in_progress: every claimed row, whichever process claimed it.     *)
ResetInProgress(q) ==
    [i \in DOMAIN q |->
        IF q[i].status = "in_progress" THEN [q[i] EXCEPT !.status = "pending"] ELSE q[i]]
==============================================================================
