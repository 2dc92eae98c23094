----------------------------- MODULE ImpactSearch -----------------------------
(***************************************************************************)
(* The searches of the graph from a node: `brain query "impact of x"`      *)
(* (cli/commands/query.py), `brain impact` (analyze_impact in              *)
(* analytics/graph_intelligence.py) and the cascade and trigger-chain      *)
(* depth of the risk scores (_bfs_depth in triage/risk.py).  A search      *)
(* reads the store again for each node it comes to, and `brain extract`    *)
(* may write to it in between; nothing is ever deleted.                    *)
(***************************************************************************)
EXTENDS Integers, FiniteSets, Sequences, SequencesExt

CONSTANTS
    Ids,            \* ids of nodes
    Graphs,         \* what the store may hold when a search begins
    Targets,        \* the nodes that are asked about
    MaxDepth,       \* `--depth` of `brain impact`
    MaxWrites       \* bound: writes of a concurrent extraction

ASSUME GraphAssumption ==
    /\ IsFiniteSet(Ids) /\ Targets \subseteq Ids
    /\ Graphs \subseteq [nodes : SUBSET Ids, links : SUBSET (Ids \X Ids)]

ASSUME SearchAssumption == MaxDepth \in Int /\ MaxWrites \in Nat

VARIABLES
    nodes,      \* the ids that have a node
    links,      \* the edges, as pairs; for a depth, those of its type
    kind,       \* the search that is made
    target,     \* the node it is about
    todo,       \* query's `frontier`, impact's `queue`: the ids to come to
    found,      \* query's `visited`, impact's `impact_nodes`: id -> hops
    seen,       \* impact's and the depth's `seen`
    frontier, layer, depth,     \* of the depth: `frontier`, `nxt`, `depth`
    writes,     \* how often the extraction has written
    began       \* observer: the graph when the search began

graph == <<nodes, links>>
search == <<kind, target, began>>
breadth == <<frontier, layer, depth>>
vars == <<graph, search, todo, found, seen, breadth, writes>>

Item(id, hop) == [id |-> id, hop |-> hop]
Items == [id : Ids, hop : Nat]
Nothing == [id \in {} |-> 0]

MaxHops == 2        \* of `impact of`

TypeOK ==
    /\ nodes \subseteq Ids /\ links \subseteq Ids \X Ids
    /\ kind \in {"none", "query", "impact", "depth"}
    /\ target \in Ids \cup {<< >>}
    /\ kind # "none" => target \in Targets
    /\ todo \in Seq(Items)
    /\ found \in [DOMAIN found -> Nat] /\ DOMAIN found \subseteq Ids
    /\ kind \in {"none", "depth"} => todo = << >> /\ DOMAIN found = {}
    /\ kind = "query" => \A n \in DOMAIN found : found[n] <= MaxHops
    /\ kind = "impact" => \A n \in DOMAIN found : found[n] <= MaxDepth
    /\ seen \subseteq Ids /\ frontier \subseteq seen /\ layer \subseteq seen
    /\ depth \in Nat /\ writes \in 0 .. MaxWrites
    /\ began \in [nodes : SUBSET Ids, links : SUBSET (Ids \X Ids)]

Init ==
    /\ \E g \in Graphs : nodes = g.nodes /\ links = g.links
    /\ kind = "none" /\ target = << >> /\ began = [nodes |-> nodes, links |-> links]
    /\ todo = << >> /\ found = Nothing /\ seen = {}
    /\ frontier = {} /\ layer = {} /\ depth = 0
    /\ writes = 0

(* An extraction stores a node or an edge; edges may lead to ids that have *)
(* no node.                                                                *)
Write ==
    /\ writes < MaxWrites
    /\ writes' = writes + 1
    /\ \/ \E n \in Ids \ nodes : nodes' = nodes \cup {n} /\ UNCHANGED links
       \/ \E e \in (Ids \X Ids) \ links : links' = links \cup {e} /\ UNCHANGED nodes
    /\ UNCHANGED <<search, todo, found, seen, breadth>>

(* The node that is asked about is looked up; without it there is no       *)
(* search.                                                                 *)
Begin(s) ==
    /\ kind = "none" /\ kind' = s
    /\ target' \in Targets \cap nodes
    /\ began' = [nodes |-> nodes, links |-> links]
    /\ UNCHANGED <<graph, writes>>

StartQuery ==
    /\ Begin("query")
    /\ todo' = <<Item(target', 0)>> /\ found' = [n \in {target'} |-> 0]
    /\ UNCHANGED <<seen, breadth>>

StartImpact ==
    /\ Begin("impact")
    /\ todo' = <<Item(target', 0)>>
    /\ UNCHANGED <<found, seen, breadth>>

(* A mutant of StartDepth: the start counts as a level.                    *)
StartDepthAtOne ==
    /\ Begin("depth")
    /\ seen' = {target'} /\ frontier' = {target'} /\ layer' = {} /\ depth' = 1
    /\ UNCHANGED <<todo, found>>

StartDepth ==
    /\ Begin("depth")
    /\ seen' = {target'} /\ frontier' = {target'} /\ layer' = {} /\ depth' = 0
    /\ UNCHANGED <<todo, found>>

-----------------------------------------------------------------------------
Beside(id) == {n \in Ids : <<id, n>> \in links \/ <<n, id>> \in links}

(* The hits of a search, with more of them at one distance.                *)
Noted(ids, hop) ==
    [n \in DOMAIN found \cup ids |-> IF n \in DOMAIN found THEN found[n] ELSE hop]

(* The ids of a set with their distance, in any order: the order of a      *)
(* Python set, or of the rows of the table of edges.                       *)
Queued(ids, hop) == {[i \in DOMAIN s |-> Item(s[i], hop)] : s \in SetToSeqs(ids)}

(* A mutant of QueryVisit: edges are only followed forwards.               *)
QueryVisitForwards ==
    /\ kind = "query" /\ todo # << >> /\ Head(todo).hop < MaxHops
    /\ LET hop == Head(todo).hop + 1
           fresh == {n \in Ids : <<Head(todo).id, n>> \in links} \ DOMAIN found
       IN  /\ found' = Noted(fresh, hop)
           /\ \E more \in Queued(fresh, hop) : todo' = Tail(todo) \o more
    /\ UNCHANGED <<graph, search, seen, breadth, writes>>

(* A mutant of QueryVisit: a hop is not counted.                           *)
QueryVisitUncounted ==
    /\ kind = "query" /\ todo # << >> /\ Head(todo).hop < MaxHops
    /\ LET hop == Head(todo).hop
           fresh == Beside(Head(todo).id) \ DOMAIN found
       IN  /\ found' = Noted(fresh, hop)
           /\ \E more \in Queued(fresh, hop) : todo' = Tail(todo) \o more
    /\ UNCHANGED <<graph, search, seen, breadth, writes>>

(* query: the first id is taken, the ids beside it that are new are noted  *)
(* and put at the end.                                                     *)
QueryVisit ==
    /\ kind = "query" /\ todo # << >> /\ Head(todo).hop < MaxHops
    /\ LET hop == Head(todo).hop + 1
           fresh == Beside(Head(todo).id) \ DOMAIN found
       IN  /\ found' = Noted(fresh, hop)
           /\ \E more \in Queued(fresh, hop) : todo' = Tail(todo) \o more
    /\ UNCHANGED <<graph, search, seen, breadth, writes>>

QueryPass ==
    /\ kind = "query" /\ todo # << >> /\ Head(todo).hop >= MaxHops
    /\ todo' = Tail(todo)
    /\ UNCHANGED <<graph, search, found, seen, breadth, writes>>

(* A mutant of ImpactVisit: the distance is not compared with the bound.   *)
ImpactVisitUnbounded ==
    /\ kind = "impact" /\ todo # << >>
    /\ LET cur == Last(todo)
           fresh == Beside(cur.id) \ (seen \cup {cur.id, target})
       IN  /\ cur.id \notin seen /\ cur.id \in nodes
           /\ seen' = seen \cup {cur.id}
           /\ found' = Noted({cur.id} \ {target}, cur.hop)
           /\ \E more \in Queued(fresh, cur.hop + 1) : todo' = Front(todo) \o more
    /\ UNCHANGED <<graph, search, breadth, writes>>

(* impact: the last id is taken (`queue.pop()`), is a hit unless it is the *)
(* target, and the ids beside it that have not been seen are put at the    *)
(* end, again if they are there already.                                   *)
ImpactVisit ==
    /\ kind = "impact" /\ todo # << >>
    /\ LET cur == Last(todo)
           fresh == Beside(cur.id) \ (seen \cup {cur.id, target})
       IN  /\ cur.id \notin seen /\ cur.hop <= MaxDepth /\ cur.id \in nodes
           /\ seen' = seen \cup {cur.id}
           /\ found' = Noted({cur.id} \ {target}, cur.hop)
           /\ \E more \in Queued(fresh, cur.hop + 1) : todo' = Front(todo) \o more
    /\ UNCHANGED <<graph, search, breadth, writes>>

(* A mutant of ImpactPass: the id is looked at but not taken.              *)
ImpactPeek ==
    /\ kind = "impact" /\ todo # << >>
    /\ Last(todo).id \in seen \/ Last(todo).hop > MaxDepth
    /\ UNCHANGED vars

(* It has been seen, or is too far.                                        *)
ImpactPass ==
    /\ kind = "impact" /\ todo # << >>
    /\ Last(todo).id \in seen \/ Last(todo).hop > MaxDepth
    /\ todo' = Front(todo)
    /\ UNCHANGED <<graph, search, found, seen, breadth, writes>>

(* It has no node.                                                         *)
ImpactMiss ==
    /\ kind = "impact" /\ todo # << >>
    /\ LET cur == Last(todo)
       IN  /\ cur.id \notin seen /\ cur.hop <= MaxDepth /\ cur.id \notin nodes
           /\ seen' = seen \cup {cur.id}
    /\ todo' = Front(todo)
    /\ UNCHANGED <<graph, search, found, breadth, writes>>

(* A depth: the nodes an id of this level leads to, `neighbors`, are of    *)
(* the next level if they are new.                                         *)
DepthVisit ==
    /\ kind = "depth"
    /\ \E id \in frontier :
          LET fresh == {n \in nodes : <<id, n>> \in links} \ seen
          IN  /\ frontier' = frontier \ {id}
              /\ seen' = seen \cup fresh
              /\ layer' = layer \cup fresh
    /\ UNCHANGED <<graph, search, todo, found, depth, writes>>

(* There is a next level.                                                  *)
DepthNext ==
    /\ kind = "depth" /\ frontier = {} /\ layer # {}
    /\ depth' = depth + 1 /\ frontier' = layer /\ layer' = {}
    /\ UNCHANGED <<graph, search, todo, found, seen, writes>>

Visit ==
    \/ QueryVisit \/ QueryPass
    \/ ImpactVisit \/ ImpactPass \/ ImpactMiss
    \/ DepthVisit \/ DepthNext

Next == StartQuery \/ StartImpact \/ StartDepth \/ Visit \/ Write

(* The search is a loop without waits.                                     *)
Spec == Init /\ [][Next]_vars

FairSpec == Spec /\ WF_vars(Visit)

-----------------------------------------------------------------------------
Ended == kind # "none" /\ todo = << >> /\ frontier = {} /\ layer = {}

Undirected(edges) == {e \in Ids \X Ids : e \in edges \/ <<e[2], e[1]>> \in edges}
Among(ids, edges) == {e \in edges : e[2] \in ids}

(* There is a walk of d steps from the target to n.                        *)
Walk(steps, d, n) ==
    \E w \in [0 .. d -> Ids] :
        w[0] = target /\ w[d] = n /\ \A i \in 0 .. d - 1 : <<w[i], w[i + 1]>> \in steps

(* Every distance that is reported is the length of a walk in the graph,   *)
(* also when the graph has grown between two reads of the search: no hit   *)
(* is nearer than the store says, and a cascade is at least as long as     *)
(* its depth.                                                              *)
HopsAreReal ==
    /\ \A n \in DOMAIN found : Walk(Undirected(links), found[n], n)
    /\ kind = "depth" => \E n \in seen : Walk(Among(nodes, links), depth, n)

(* `impact of` finds everything that was within two hops when it began,    *)
(* and no farther than it was then: with HopsAreReal, exactly the radius   *)
(* of a graph that nobody writes to.                                       *)
QueryFindsRadius ==
    Ended /\ kind = "query" =>
        \A n \in Ids : \A d \in 0 .. MaxHops :
            Walk(Undirected(began.links), d, n) => n \in DOMAIN found /\ found[n] <= d

(* A depth search sees everything the start led to when it began; its      *)
(* result is the distance of the farthest node, cycles or not, if nobody   *)
(* has written meanwhile.                                                  *)
DepthIsFarthest ==
    LET steps == Among(began.nodes, began.links)
        sizes == 0 .. Cardinality(Ids) - 1
    IN  Ended /\ kind = "depth" =>
            /\ \A n \in Ids, d \in sizes : Walk(steps, d, n) => n \in seen
            /\ began = [nodes |-> nodes, links |-> links] =>
                  /\ \A n \in seen : \E d \in 0 .. depth : Walk(steps, d, n)
                  /\ \E n \in seen : \A d \in 0 .. depth - 1 : ~Walk(steps, d, n)

(* `brain impact` reports the blast radius of a node                       *)
(* (cli/commands/impact.py:18): every node within the depth.               *)
BlastRadius ==
    Ended /\ kind = "impact" /\ began = [nodes |-> nodes, links |-> links] =>
        \A n \in nodes \ {target} : \A d \in 0 .. MaxDepth :
            Walk({e \in Undirected(links) : {e[1], e[2]} \subseteq nodes}, d, n)
                => n \in DOMAIN found

(* Every search ends: each read of the store adds to what has been seen,   *)
(* and the ids are finitely many, whatever is written meanwhile.           *)
SearchEnds == kind # "none" ~> Ended
===============================================================================
