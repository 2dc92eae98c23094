----------------------------- MODULE MCExtraction -----------------------------
(* A small output of the extractors for TLC: two versions of one node, one  *)
(* from each of two files, and a second file with two results.              *)
EXTENDS Extraction

CONSTANTS a, b, f1, f2

NodeA(version) == [id |-> a, version |-> version]
NodeB == [id |-> b, version |-> 1]

MCNodes == {NodeA(1), NodeA(2), NodeB}
MCEdges == {<<a, b>>, <<b, a>>}

\* f1: a node and its edge, from one extractor; f2: a mention of the same node
\* by one extractor, and an edge without nodes by the next
MCOutput == [f \in Files |->
    CASE f = f1 -> <<[nodes |-> <<NodeA(1), NodeB>>, edges |-> <<<<a, b>>>>]>>
      [] f = f2 -> <<[nodes |-> <<NodeA(2)>>, edges |-> << >>],
                     [nodes |-> << >>, edges |-> <<<<b, a>>>>]>>]

===============================================================================
