----------------------------- MODULE AdditiveGraph -----------------------------
(***************************************************************************)
(* What the graph store promises to whoever reads it: every write of a     *)
(* node is remembered, a node is what was last written under its id, and   *)
(* no edge is ever taken away.                                             *)
(***************************************************************************)
EXTENDS Naturals, Sequences

CONSTANTS Nodes, Edges

VARIABLES
    past,       \* every node ever written, in order
    graph,      \* the node of each id
    links       \* the edges

(* The node last written under each id.                                    *)
Latest(s) ==
    [id \in {s[i].id : i \in DOMAIN s} |->
        LET last == CHOOSE i \in DOMAIN s :
                        s[i].id = id /\ \A j \in DOMAIN s : s[j].id = id => j <= i
        IN  s[last]]

Init == past = << >> /\ graph = Latest(past) /\ links = {}

Write(n) ==
    /\ past' = Append(past, n)
    /\ graph' = Latest(past')
    /\ UNCHANGED links

Link(e) == links' = links \cup {e} /\ UNCHANGED <<past, graph>>

Next == (\E n \in Nodes : Write(n)) \/ (\E e \in Edges : Link(e))

Spec == Init /\ [][Next]_<<past, graph, links>>
================================================================================
