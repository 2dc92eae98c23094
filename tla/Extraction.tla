------------------------------ MODULE Extraction ------------------------------
(***************************************************************************)
(* `brain extract` (cli/commands/extract.py; the loop of `brain build` is  *)
(* the same): a process walks the files in the order the file system gives *)
(* them, asks every extractor that can handle a file, and stores what it   *)
(* returns, first its nodes, then its edges, each with a commit of its     *)
(* own.  An exception, of the extractor or of the store, is reported and   *)
(* ends the work on that extractor's result; the next extractor is tried.  *)
(*                                                                         *)
(* What the extractors return is given: Output[f] holds the results for    *)
(* file f, in the order of the registry.  Module Extractors says what they *)
(* are for the artifacts of each kind.                                     *)
(***************************************************************************)
EXTENDS GraphStore, SequencesExt

CONSTANTS
    Nodes,          \* the nodes the extractors return
    Edges,          \* the edges they return
    Files,          \* the files under the path
    Output,         \* what the extractors return for each file
    Processes,      \* extract processes on one store
    MaxRuns,        \* bound: extract runs
    MaxFailures,    \* bound: exceptions
    MaxCrashes      \* bound: processes that die

Result == [nodes : Seq(Nodes), edges : Seq(Edges)]

ASSUME OutputAssumption == Output \in [Files -> Seq(Result)]

ASSUME BoundAssumption == MaxRuns \in Nat /\ MaxFailures \in Nat /\ MaxCrashes \in Nat

VARIABLES
    nodes, edges, history,      \* the store
    pc,             \* what each process does next
    left,           \* the files it has not come to
    at,             \* where it is: file, result and item of the result
    op,             \* what its add_node found out about the node
    runs, failures, crashes,    \* how often each event has happened
    order,          \* observer: the files of the present run, in its order
    clean,          \* observer: nothing has failed in the present run, reported or not
    complete,       \* observer: some run has ended without a failure
    overlapped      \* observer: two runs have been active at once

storeVars == <<nodes, edges, history>>
observers == <<order, clean, complete, overlapped>>
counters == <<runs, failures, crashes>>
vars == <<storeVars, pc, left, at, op, counters, observers>>

PC == {"idle", "pick", "ask", "store", "write"}

Position == [file : Files, result : Nat, item : Nat]

ResultOf(f, k) == Output[f][k]

(* The result a process is storing, and the node it has come to.           *)
Current(p) == ResultOf(at[p].file, at[p].result)
AtNode(p) == at[p].item <= Len(Current(p).nodes)
NodeAt(p) == Current(p).nodes[at[p].item]
EdgeNo(p) == at[p].item - Len(Current(p).nodes)

(* Where it goes on: the next item, the next result.                       *)
Advanced(pos) == [pos EXCEPT !.item = @ + 1]
Passed(pos) == [file |-> pos.file, result |-> pos.result + 1, item |-> 1]

StoreOK ==
    /\ nodes \in [DOMAIN nodes -> Nodes]
    /\ \A id \in DOMAIN nodes : nodes[id].id = id
    /\ edges \subseteq Edges
    /\ history \in Seq([node : Nodes, op : {"add", "update"}])

ProcessOK ==
    /\ pc \in [Processes -> PC]
    /\ left \in [Processes -> SUBSET Files]
    /\ at \in [Processes -> Position \cup {<< >>}]
    /\ op \in [Processes -> {"add", "update"}]
    /\ order \in [Processes -> Seq(Files)]
    /\ clean \in [Processes -> BOOLEAN]

(* A process with work in hand is at a result of its file and, while it    *)
(* writes, at a node of the result.                                        *)
PositionOK(p) ==
    /\ pc[p] \in {"ask", "store", "write"} =>
          at[p] \in Position /\ at[p].result >= 1 /\ at[p].item >= 1
    /\ pc[p] \in {"store", "write"} => at[p].result <= Len(Output[at[p].file])
    /\ pc[p] = "write" => AtNode(p)

BoundsOK ==
    /\ runs \in 0 .. MaxRuns
    /\ failures \in 0 .. MaxFailures
    /\ crashes \in 0 .. MaxCrashes
    /\ complete \in BOOLEAN /\ overlapped \in BOOLEAN

TypeOK == StoreOK /\ ProcessOK /\ BoundsOK /\ \A p \in Processes : PositionOK(p)

Init ==
    /\ nodes = NoNodes /\ edges = {} /\ history = << >>
    /\ pc = [p \in Processes |-> "idle"]
    /\ left = [p \in Processes |-> {}]
    /\ at = [p \in Processes |-> << >>]
    /\ op = [p \in Processes |-> "add"]
    /\ runs = 0 /\ failures = 0 /\ crashes = 0
    /\ order = [p \in Processes |-> << >>]
    /\ clean = [p \in Processes |-> TRUE]
    /\ complete = FALSE /\ overlapped = FALSE

Goto(p, l) == pc' = [pc EXCEPT ![p] = l]

(* The process opens the store and lists the files.                        *)
Start(p) ==
    /\ pc[p] = "idle" /\ runs < MaxRuns
    /\ runs' = runs + 1
    /\ left' = [left EXCEPT ![p] = Files]
    /\ order' = [order EXCEPT ![p] = << >>]
    /\ clean' = [clean EXCEPT ![p] = TRUE]
    /\ overlapped' = (overlapped \/ \E q \in Processes \ {p} : pc[q] # "idle")
    /\ Goto(p, "pick")
    /\ UNCHANGED <<storeVars, at, op, failures, crashes, complete>>

(* The next file of the walk: rglob gives no order.                        *)
Pick(p) ==
    /\ pc[p] = "pick"
    /\ \E f \in left[p] :
          /\ left' = [left EXCEPT ![p] = @ \ {f}]
          /\ at' = [at EXCEPT ![p] = [file |-> f, result |-> 1, item |-> 1]]
          /\ order' = [order EXCEPT ![p] = Append(@, f)]
    /\ Goto(p, "ask")
    /\ UNCHANGED <<storeVars, op, counters, clean, complete, overlapped>>

(* No file is left: the run reports what it counted and ends.              *)
Finish(p) ==
    /\ pc[p] = "pick" /\ left[p] = {}
    /\ complete' = (complete \/ clean[p])
    /\ Goto(p, "idle")
    /\ UNCHANGED <<storeVars, left, at, op, counters, order, clean, overlapped>>

(* The next extractor that can handle the file reads and parses it.        *)
Ask(p) ==
    /\ pc[p] = "ask" /\ at[p].result <= Len(Output[at[p].file])
    /\ Goto(p, "store")
    /\ UNCHANGED <<storeVars, left, at, op, counters, observers>>

(* Every extractor has been asked.                                         *)
NextFile(p) ==
    /\ pc[p] = "ask" /\ at[p].result > Len(Output[at[p].file])
    /\ Goto(p, "pick")
    /\ UNCHANGED <<storeVars, left, at, op, counters, observers>>

(* A mutant of LookUp: what the last add_node found out is used again.     *)
LookUpOnce(p) ==
    /\ pc[p] = "store" /\ AtNode(p)
    /\ op' = [op EXCEPT ![p] = IF at[p].item = 1 THEN OpFor(nodes, NodeAt(p)) ELSE @]
    /\ Goto(p, "write")
    /\ UNCHANGED <<storeVars, left, at, counters, observers>>

(* add_node's look-up, before it takes the lock again to write.            *)
LookUp(p) ==
    /\ pc[p] = "store" /\ AtNode(p)
    /\ op' = [op EXCEPT ![p] = OpFor(nodes, NodeAt(p))]
    /\ Goto(p, "write")
    /\ UNCHANGED <<storeVars, left, at, counters, observers>>

(* A mutant of AddNode: the next node is written without a look-up.        *)
AddNodes(p) ==
    /\ pc[p] = "write"
    /\ nodes' = Upserted(nodes, NodeAt(p))
    /\ history' = Recorded(history, NodeAt(p), op[p])
    /\ at' = [at EXCEPT ![p] = Advanced(@)]
    /\ UNCHANGED <<edges, pc, left, op, counters, observers>>

(* add_node's upsert and its row of history, in one transaction.           *)
AddNode(p) ==
    /\ pc[p] = "write"
    /\ nodes' = Upserted(nodes, NodeAt(p))
    /\ history' = Recorded(history, NodeAt(p), op[p])
    /\ at' = [at EXCEPT ![p] = Advanced(@)]
    /\ Goto(p, "store")
    /\ UNCHANGED <<edges, left, op, counters, observers>>

(* add_edge, once all nodes of the result are stored.                      *)
AddEdge(p) ==
    /\ pc[p] = "store" /\ ~AtNode(p) /\ EdgeNo(p) <= Len(Current(p).edges)
    /\ edges' = Linked(edges, Current(p).edges[EdgeNo(p)])
    /\ at' = [at EXCEPT ![p] = Advanced(@)]
    /\ UNCHANGED <<nodes, history, pc, left, op, counters, observers>>

(* A mutant of EndResult: one extractor per file.                          *)
EndFile(p) ==
    /\ pc[p] = "store" /\ ~AtNode(p) /\ EdgeNo(p) > Len(Current(p).edges)
    /\ Goto(p, "pick")
    /\ UNCHANGED <<storeVars, left, at, op, counters, observers>>

(* The result is stored: its numbers are counted, the next one is asked    *)
(* for.                                                                    *)
EndResult(p) ==
    /\ pc[p] = "store" /\ ~AtNode(p) /\ EdgeNo(p) > Len(Current(p).edges)
    /\ at' = [at EXCEPT ![p] = Passed(@)]
    /\ Goto(p, "ask")
    /\ UNCHANGED <<storeVars, left, op, counters, observers>>

(* A mutant of Fail: the result's edges are stored although a node is      *)
(* missing.                                                                *)
FailNodeOnly(p) ==
    /\ pc[p] = "write" /\ failures < MaxFailures
    /\ failures' = failures + 1
    /\ clean' = [clean EXCEPT ![p] = FALSE]
    /\ at' = [at EXCEPT ![p] = Advanced(@)]
    /\ Goto(p, "store")
    /\ UNCHANGED <<storeVars, left, op, runs, crashes, order, complete, overlapped>>

(* An exception: the extractor cannot read or parse the file, or the store *)
(* stays locked by another process longer than it waits.  What the result  *)
(* has not stored yet is given up.  The command reports it, but not when   *)
(* it was can_handle that could not read the file: it then says no         *)
(* (cics_bms/extractor.py:66, and the DB2 extractors), and the extractor   *)
(* is passed over in silence, which is a failure here all the same.        *)
Fail(p) ==
    /\ \/ pc[p] = "ask" /\ at[p].result <= Len(Output[at[p].file])
       \/ pc[p] = "store" /\ EdgeNo(p) <= Len(Current(p).edges)
       \/ pc[p] = "write"
    /\ failures < MaxFailures
    /\ failures' = failures + 1
    /\ clean' = [clean EXCEPT ![p] = FALSE]
    /\ at' = [at EXCEPT ![p] = Passed(@)]
    /\ Goto(p, "ask")
    /\ UNCHANGED <<storeVars, left, op, runs, crashes, order, complete, overlapped>>

(* The process dies; what is committed stays.                              *)
Crash(p) ==
    /\ pc[p] # "idle" /\ crashes < MaxCrashes
    /\ crashes' = crashes + 1
    /\ Goto(p, "idle")
    /\ UNCHANGED <<storeVars, left, at, op, runs, failures, observers>>

Work(p) ==
    \/ Pick(p) \/ Finish(p) \/ Ask(p) \/ NextFile(p)
    \/ LookUp(p) \/ AddNode(p) \/ AddEdge(p) \/ EndResult(p)

Next == \E p \in Processes : Start(p) \/ Work(p) \/ Fail(p) \/ Crash(p)

Spec == Init /\ [][Next]_vars

-----------------------------------------------------------------------------
HasNodes(r) == \A i \in DOMAIN r.nodes : IsStored(nodes, r.nodes[i].id)
HasEdges(r) == \A i \in DOMAIN r.edges : r.edges[i] \in edges

(* The nodes and edges of a result are there to be seen together: an edge  *)
(* is in the graph only if a result it belongs to has all its nodes there, *)
(* whatever failed and wherever a process died (add_nodes comes before     *)
(* add_edges, and an exception ends both).                                 *)
EdgesAfterNodes ==
    \A e \in edges : \E f \in Files : \E k \in DOMAIN Output[f] :
        e \in Range(ResultOf(f, k).edges) /\ HasNodes(ResultOf(f, k))

(* The history says when a node was new: the first row of an id is an      *)
(* "add", and if no two runs overlapped no other row is, although add_node *)
(* looks the node up before it takes the lock to write.                    *)
HistoryTellsNew ==
    \A i \in DOMAIN history :
        LET first == \A j \in 1 .. i - 1 : history[j].node.id # history[i].node.id
        IN  /\ first => history[i].op = "add"
            /\ ~overlapped /\ history[i].op = "add" => first

(* Once one run has ended without a failure, everything any extractor      *)
(* found in any file is in the graph, in whatever order the files came and *)
(* whatever an earlier run left behind.  (A run that reports no error may  *)
(* have had one: see Fail.)                                                *)
RunIsComplete ==
    complete => \A f \in Files : \A k \in DOMAIN Output[f] :
                    HasNodes(ResultOf(f, k)) /\ HasEdges(ResultOf(f, k))

(* The store implements AdditiveGraph: every write of a node is in the     *)
(* history, and the node is what the history's last row for its id says.   *)
Additive == INSTANCE AdditiveGraph
    WITH past <- [i \in DOMAIN history |-> history[i].node], graph <- nodes, links <- edges

KeepsHistory == Additive!Spec

(* A run without exceptions leaves no trace of an earlier, interrupted     *)
(* one: each node it writes ends as the last file of its own walk has it.  *)
Written(files) ==
    FlattenSeq([i \in DOMAIN files |->
        FlattenSeq([k \in DOMAIN Output[files[i]] |-> Output[files[i]][k].nodes])])

EndsAsWalked ==
    \A p \in Processes :
        pc[p] = "pick" /\ left[p] = {} /\ clean[p] /\ ~overlapped =>
            LET last == Additive!Latest(Written(order[p]))
            IN  \A id \in DOMAIN last : nodes[id] = last[id]
===============================================================================
