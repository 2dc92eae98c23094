---------------------------- MODULE MCImpactSearch ----------------------------
(* All graphs over a few edges for TLC: cycles, two ways to one node, an     *)
(* edge to itself, and edges to an id without a node.                        *)
EXTENDS ImpactSearch

CONSTANTS a, b, c, t

MCLinks == {<<t, a>>, <<t, b>>, <<a, b>>, <<b, c>>, <<c, a>>, <<b, b>>}

MCGraphs == [nodes : {Ids, Ids \ {a}}, links : SUBSET MCLinks]

===============================================================================
