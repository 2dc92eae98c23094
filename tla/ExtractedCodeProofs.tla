-------------------------- MODULE ExtractedCodeProofs --------------------------
(***************************************************************************)
(* Theorems about ExtractedCode, for every code base of artifacts: what    *)
(* the extractors return fits together, so that the edges in the graph     *)
(* lead from node to node.                                                 *)
(***************************************************************************)
EXTENDS ExtractedCode, ExtractionProofs

USE CodeAssumption DEF CodeAssumption, ResultOf

(* Some node of the sequence has the id.                                   *)
Named(ns, id) == \E n \in Range(ns) : n.id = id

(* The edges of one result about programs: a CALL or an EXEC PGM joins two *)
(* nodes of the result, leads to a program, and nothing else does.         *)
Fits(r) ==
    \A e \in Range(r.edges) :
        /\ e[2] \in {"CALLS", "EXECUTES"} => Named(r.nodes, e[1]) /\ Named(r.nodes, e[3])
        /\ e[2] \in {"CALLS", "EXECUTES"} <=> e[3].type = "Program"
        /\ e[2] = "CALLS" => e[1].type = "Program"
        /\ e[2] = "PERFORMS" => e[3].type = "Paragraph"

(* A node for a program comes with its source, or another node's CALL or   *)
(* EXEC PGM leads to it.                                                   *)
Mentioned(ns, es) ==
    \A n \in Range(ns) : n.id.type = "Program" /\ n.by # "cobol" =>
        \E e \in Range(es) : e[2] \in {"CALLS", "EXECUTES"} /\ e[3] = n.id /\ e[1] # n.id

(* Every edge starts at a node of the sequence.                            *)
StartIn(es, ns) == \A e \in Range(es) : Named(ns, e[1])

IsResult(r) == IsSequence(r.nodes) /\ IsSequence(r.edges)

(* A result none of whose edges is about programs.                         *)
LEMMA FitsOther ==
    ASSUME NEW r, \A e \in Range(r.edges) :
               e[2] \notin {"CALLS", "EXECUTES", "PERFORMS"} /\ e[3].type # "Program"
    PROVE  Fits(r)
  BY DEF Fits

LEMMA OneOf ==
    ASSUME NEW x
    PROVE  IsSequence(<<x>>) /\ Range(<<x>>) = {x}
  BY DEF IsSequence, Range

LEMMA TwoOf ==
    ASSUME NEW x, NEW y
    PROVE  IsSequence(<<x, y>>) /\ Range(<<x, y>>) = {x, y}
<1>1. DOMAIN <<x, y>> = 1 .. 2 /\ <<x, y>>[1] = x /\ <<x, y>>[2] = y
  OBVIOUS
<1>2. Range(<<x, y>>) = {x, y}
  BY <1>1 DEF Range
<1>3. <<x, y>> \in Seq({x, y})
  OBVIOUS
<1> QED
  BY <1>2, <1>3 DEF IsSequence

LEMMA NoneOf == IsSequence(<< >>) /\ Range(<< >>) = {}
  BY DEF IsSequence, Range

-----------------------------------------------------------------------------
(* COBOL.                                                                  *)

LEMMA CobolParts ==
    ASSUME NEW a \in CobolSource
    PROVE  /\ IsSequence(a.lead) /\ IsSequence(a.paras) /\ IsSequence(a.fields)
           /\ IsSequence(a.calls) /\ IsSequence(a.copies) /\ IsSequence(a.reads)
           /\ IsSequence(a.writes) /\ IsSequence(a.files) /\ IsSequence(a.maps)
           /\ a.paras \in Seq([name : Names, performs : Seq(Names), gotos : Seq(Names), statements : Nat])
           /\ a.lead \in Seq(Names)
           /\ a.files \in Seq([name : Names, vsam : BOOLEAN, org : BOOLEAN, read : BOOLEAN, written : BOOLEAN])
<1>1. /\ a.paras \in Seq([name : Names, performs : Seq(Names), gotos : Seq(Names), statements : Nat])
      /\ a.fields \in Seq([name : Names, partial : BOOLEAN])
      /\ a.lead \in Seq(Names) /\ a.calls \in Seq(Names) /\ a.copies \in Seq(Names)
      /\ a.reads \in Seq(Names) /\ a.writes \in Seq(Names) /\ a.maps \in Seq(Names)
      /\ a.files \in Seq([name : Names, vsam : BOOLEAN, org : BOOLEAN, read : BOOLEAN, written : BOOLEAN])
  BY DEF CobolSource
<1> QED
  BY <1>1, SequenceOf, Zenon

LEMMA Screens ==
    ASSUME NEW a \in CobolSource
    PROVE  /\ IsSequence(ScreenEdges(a))
           /\ \A e \in Range(ScreenEdges(a)) :
                 /\ e[1] = ProgramId(ScreenProgram(a)) /\ e[2] = "RENDERS_ON"
                 /\ e[3].type = "CICSMap"
<1> DEFINE t == ScreenEdges(a)
<1>1. t = [i \in DOMAIN a.maps |-> <<ProgramId(ScreenProgram(a)), "RENDERS_ON",
                                     MakeId("CICSMap", "", Upper[a.maps[i]])>>]
  BY DEF ScreenEdges, Each, Edge
<1>2. IsSequence(a.maps)
  BY CobolParts
<1>3. DOMAIN t = DOMAIN a.maps /\ t = [i \in DOMAIN a.maps |-> t[i]]
  BY <1>1
<1> HIDE DEF t
<1>4. IsSequence(t) /\ Range(t) = {t[i] : i \in DOMAIN a.maps}
  BY <1>2, <1>3, EachSequence
<1>5. \A i \in DOMAIN a.maps :
         /\ t[i][1] = ProgramId(ScreenProgram(a)) /\ t[i][2] = "RENDERS_ON"
         /\ t[i][3].type = "CICSMap"
  BY <1>1 DEF MakeId
<1> QED
  BY <1>4, <1>5 DEF t

(* The paragraphs of a program, with the one that may be made up for it.   *)
Para == [name : Names \cup {"MAIN"}, performs : Seq(Names), gotos : Seq(Names), statements : Nat]

LEMMA Paragraphs ==
    ASSUME NEW a \in CobolSource
    PROVE  ParasOf(a) \in Seq(Para)
<1> DEFINE none == << >>
           host == [name |-> "MAIN", performs |-> none, gotos |-> none, statements |-> 0]
           paras == IF a.paras = << >> THEN <<host>> ELSE a.paras
<1>1. a.paras \in Seq(Para) /\ a.lead \in Seq(Names)
  <2>1. [name : Names, performs : Seq(Names), gotos : Seq(Names), statements : Nat] \subseteq Para
    BY DEF Para
  <2> QED
    BY <2>1, CobolParts, SeqMonotonic
<1>2. host \in Para
  <2>1. none \in Seq(Names)
    OBVIOUS
  <2> HIDE DEF none
  <2> QED
    BY <2>1 DEF Para
<1> HIDE DEF host
<1>3. paras \in Seq(Para) /\ paras # << >>
  BY <1>1, <1>2
<1> HIDE DEF paras
<1>4. 1 \in 1 .. Len(paras) /\ paras[1] \in Para
  BY <1>3
<1>5. [paras[1] EXCEPT !.performs = @ \o a.lead] \in Para
  <2>1. paras[1].performs \o a.lead \in Seq(Names)
    BY <1>1, <1>4 DEF Para
  <2> QED
    BY <1>4, <2>1 DEF Para
<1>6. [paras EXCEPT ![1].performs = @ \o a.lead] = [paras EXCEPT ![1] = [paras[1] EXCEPT !.performs = @ \o a.lead]]
  OBVIOUS
<1>7. [paras EXCEPT ![1].performs = @ \o a.lead] \in Seq(Para)
  BY <1>3, <1>4, <1>5, <1>6, ExceptSeq
<1> QED
  BY <1>1, <1>7 DEF ParasOf, paras, host

LEMMA Callees ==
    ASSUME NEW a \in CobolSource
    PROVE  /\ IsSequence(CalleesOf(a))
           /\ \A i \in DOMAIN a.calls :
                 Upper[a.calls[i]] # ProgramName(a) => Named(CalleesOf(a), ProgramId(Upper[a.calls[i]]))
           /\ \A n \in Range(CalleesOf(a)) : n.by = "call" /\ \E i \in DOMAIN a.calls :
                 n.id = ProgramId(Upper[a.calls[i]]) /\ Upper[a.calls[i]] # ProgramName(a)
<1> DEFINE t == [i \in DOMAIN a.calls |->
                    IF Upper[a.calls[i]] # ProgramName(a) THEN <<a.calls[i]>> ELSE << >>]
           others == FlattenSeq(t)
           ns == [i \in DOMAIN others |-> Node(ProgramId(Upper[others[i]]), "call", "none")]
<1>1. CalleesOf(a) = ns
  BY DEF CalleesOf, Only, Each
<1>2. IsSequence(a.calls)
  BY CobolParts
<1>3. DOMAIN t = DOMAIN a.calls /\ t = [i \in DOMAIN a.calls |-> t[i]]
  OBVIOUS
<1>4. \A i \in DOMAIN a.calls :
         t[i] = IF Upper[a.calls[i]] # ProgramName(a) THEN <<a.calls[i]>> ELSE << >>
  OBVIOUS
<1> HIDE DEF t
<1>5. \A i \in DOMAIN a.calls : t[i] = <<a.calls[i]>> \/ t[i] = << >>
  BY <1>4
<1>6. /\ IsSequence(others)
      /\ \A x : x \in Range(others) <=> \E i \in DOMAIN a.calls : x = a.calls[i] /\ t[i] = <<a.calls[i]>>
  BY <1>2, <1>3, <1>5, OnlySequence
<1>7. DOMAIN ns = DOMAIN others /\ ns = [i \in DOMAIN others |-> ns[i]]
  OBVIOUS
<1>8. \A i \in DOMAIN others : ns[i].id = ProgramId(Upper[others[i]]) /\ ns[i].by = "call"
  BY DEF Node
<1> HIDE DEF ns, others
<1>9. IsSequence(ns) /\ Range(ns) = {ns[i] : i \in DOMAIN others}
  BY <1>6, <1>7, EachSequence
<1>10. ASSUME NEW i \in DOMAIN a.calls, Upper[a.calls[i]] # ProgramName(a)
       PROVE  Named(ns, ProgramId(Upper[a.calls[i]]))
  <2>1. a.calls[i] \in Range(others)
    BY <1>4, <1>6, <1>10
  <2>2. PICK k \in DOMAIN others : others[k] = a.calls[i]
    BY <2>1 DEF Range
  <2> QED
    BY <1>8, <1>9, <2>2 DEF Named
<1>11. ASSUME NEW n \in Range(ns)
       PROVE  n.by = "call" /\ \E i \in DOMAIN a.calls :
                 n.id = ProgramId(Upper[a.calls[i]]) /\ Upper[a.calls[i]] # ProgramName(a)
  <2>1. PICK k \in DOMAIN others : n = ns[k]
    BY <1>9, <1>11
  <2>2. PICK i \in DOMAIN a.calls : others[k] = a.calls[i] /\ t[i] = <<a.calls[i]>>
    BY <1>6 DEF Range
  <2>3. Upper[a.calls[i]] # ProgramName(a)
    <3>1. <<a.calls[i]>> # << >>
      OBVIOUS
    <3> QED
      BY <1>4, <2>2, <3>1
  <2> QED
    BY <1>8, <2>1, <2>2, <2>3
<1> QED
  BY <1>1, <1>9, <1>10, <1>11

(* The names of a source's program and of those it calls are in capitals.  *)
LEMMA UpperNames ==
    ASSUME NEW a \in CobolSource
    PROVE  /\ ProgramName(a) \in Names /\ Upper[ProgramName(a)] = ProgramName(a)
           /\ \A i \in DOMAIN a.calls :
                 Upper[a.calls[i]] \in Names /\ Upper[Upper[a.calls[i]]] = Upper[a.calls[i]]
<1>1. a.stem \in Names /\ a.program \in Names /\ a.calls \in Seq(Names)
  BY DEF CobolSource
<1>2. OrElse(a.program, a.stem) \in Names
  BY <1>1 DEF OrElse
<1>3. \A i \in DOMAIN a.calls : a.calls[i] \in Names
  BY <1>1
<1> QED
  BY <1>2, <1>3, UpperAssumption DEF ProgramName

LEMMA Tables ==
    ASSUME NEW a \in CobolSource
    PROVE  /\ IsSequence(TablesOnDemand(a))
           /\ \A n \in Range(TablesOnDemand(a)) : n.id.type = "DB2Table"
<1> DEFINE t == [i \in DOMAIN a.writes |->
                    IF a.writes[i] \notin ToSet(a.reads) THEN <<a.writes[i]>> ELSE << >>]
           named == a.reads \o FlattenSeq(t)
           ns == [i \in DOMAIN named |-> Node(TableId(named[i]), "exec_sql", "full")]
<1>1. TablesOnDemand(a) = ns
  BY DEF TablesOnDemand, Only, Each
<1>2. IsSequence(a.reads) /\ IsSequence(a.writes)
  BY CobolParts
<1>3. DOMAIN t = DOMAIN a.writes /\ t = [i \in DOMAIN a.writes |-> t[i]]
  OBVIOUS
<1>4. \A i \in DOMAIN a.writes : t[i] = <<a.writes[i]>> \/ t[i] = << >>
  OBVIOUS
<1> HIDE DEF t
<1>5. IsSequence(FlattenSeq(t))
  BY <1>2, <1>3, <1>4, OnlySequence
<1>6. IsSequence(named)
  BY <1>2, <1>5, ConcatSequence
<1>7. DOMAIN ns = DOMAIN named /\ ns = [i \in DOMAIN named |-> ns[i]]
  OBVIOUS
<1>8. \A i \in DOMAIN named : ns[i].id.type = "DB2Table"
  BY DEF Node, TableId, MakeId
<1> HIDE DEF ns, named
<1>9. IsSequence(ns) /\ Range(ns) = {ns[i] : i \in DOMAIN named}
  BY <1>6, <1>7, EachSequence
<1> QED
  BY <1>1, <1>8, <1>9

(* The nodes of a program: itself, its paragraphs and what it calls.       *)
LEMMA CobolNodesNamed ==
    ASSUME NEW a \in CobolSource
    PROVE  /\ IsSequence(CobolNodes(a))
           /\ Named(CobolNodes(a), ProgramId(ProgramName(a)))
           /\ \A i \in DOMAIN ParasOf(a) : Named(CobolNodes(a), ParaId(a, ParasOf(a)[i].name))
           /\ \A i \in DOMAIN a.calls : Named(CobolNodes(a), ProgramId(Upper[a.calls[i]]))
           /\ \A n \in Range(CobolNodes(a)) :
                 n.id.type = "Program" =>
                    \/ n.by = "cobol" /\ n.id = ProgramId(ProgramName(a))
                    \/ n \in Range(CalleesOf(a))
<1> DEFINE program == Node(ProgramId(ProgramName(a)), "cobol",
                           Confidence(a.unended \/ \E i \in DOMAIN a.fields : a.fields[i].partial))
           ps == [i \in DOMAIN ParasOf(a) |-> ParaNode(a, ParasOf(a)[i])]
           fs == [i \in DOMAIN a.fields |-> Node(MakeId("Field", ProgramName(a), a.fields[i].name),
                                                 "cobol", Confidence(a.fields[i].partial))]
<1>1. CobolNodes(a) = <<program>> \o ps \o fs \o CalleesOf(a) \o TablesOnDemand(a)
  BY DEF CobolNodes, Each
<1>2. IsSequence(ParasOf(a)) /\ IsSequence(a.fields)
  BY Paragraphs, CobolParts, SequenceOf
<1>3. DOMAIN ps = DOMAIN ParasOf(a) /\ ps = [i \in DOMAIN ParasOf(a) |-> ps[i]]
  OBVIOUS
<1>4. DOMAIN fs = DOMAIN a.fields /\ fs = [i \in DOMAIN a.fields |-> fs[i]]
  OBVIOUS
<1>5. \A i \in DOMAIN ParasOf(a) : ps[i].id = ParaId(a, ParasOf(a)[i].name) /\ ps[i].by = "cobol"
  BY DEF ParaNode, Node
<1>6. program.id = ProgramId(ProgramName(a)) /\ program.by = "cobol"
  BY DEF Node
<1>0. /\ \A i \in DOMAIN ParasOf(a) : ps[i].id.type # "Program"
      /\ \A i \in DOMAIN a.fields : fs[i].by = "cobol" /\ fs[i].id.type # "Program"
  <2>1. \A i \in DOMAIN a.fields : fs[i].by = "cobol" /\ fs[i].id.type # "Program"
    BY DEF Node, MakeId
  <2>2. \A name : ParaId(a, name).type # "Program"
    BY DEF ParaId, MakeId
  <2> QED
    BY <1>5, <2>1, <2>2
<1> HIDE DEF ps, fs, program
<1>7. /\ IsSequence(ps) /\ Range(ps) = {ps[i] : i \in DOMAIN ParasOf(a)}
      /\ IsSequence(fs) /\ Range(fs) = {fs[i] : i \in DOMAIN a.fields}
  BY <1>2, <1>3, <1>4, EachSequence
<1>8. IsSequence(<<program>>) /\ Range(<<program>>) = {program}
  BY OneOf
<1>9. IsSequence(CalleesOf(a)) /\ IsSequence(TablesOnDemand(a))
  BY Callees, Tables
<1>10. /\ IsSequence(<<program>> \o ps)
       /\ Range(<<program>> \o ps) = {program} \cup Range(ps)
  BY <1>7, <1>8, ConcatSequence
<1>11. /\ IsSequence(<<program>> \o ps \o fs)
       /\ Range(<<program>> \o ps \o fs) = {program} \cup Range(ps) \cup Range(fs)
  BY <1>7, <1>10, ConcatSequence
<1>12. /\ IsSequence(<<program>> \o ps \o fs \o CalleesOf(a))
       /\ Range(<<program>> \o ps \o fs \o CalleesOf(a))
             = {program} \cup Range(ps) \cup Range(fs) \cup Range(CalleesOf(a))
  BY <1>9, <1>11, ConcatSequence
<1>13. /\ IsSequence(CobolNodes(a))
       /\ {program} \cup Range(ps) \cup Range(CalleesOf(a)) \subseteq Range(CobolNodes(a))
       /\ Range(CobolNodes(a)) = {program} \cup Range(ps) \cup Range(fs) \cup Range(CalleesOf(a))
                                    \cup Range(TablesOnDemand(a))
  BY <1>1, <1>9, <1>12, ConcatSequence
<1>14. Named(CobolNodes(a), ProgramId(ProgramName(a)))
  BY <1>6, <1>13 DEF Named
<1>15. \A i \in DOMAIN ParasOf(a) : Named(CobolNodes(a), ParaId(a, ParasOf(a)[i].name))
  BY <1>5, <1>7, <1>13 DEF Named
<1>16. ASSUME NEW i \in DOMAIN a.calls PROVE Named(CobolNodes(a), ProgramId(Upper[a.calls[i]]))
  <2>1. CASE Upper[a.calls[i]] = ProgramName(a)
    BY <1>14, <2>1
  <2>2. CASE Upper[a.calls[i]] # ProgramName(a)
    <3>1. Named(CalleesOf(a), ProgramId(Upper[a.calls[i]]))
      BY <2>2, Callees
    <3> QED
      BY <1>13, <3>1 DEF Named
  <2> QED
    BY <2>1, <2>2
<1>17. ASSUME NEW n \in Range(CobolNodes(a)), n.id.type = "Program"
       PROVE  (n.by = "cobol" /\ n.id = ProgramId(ProgramName(a))) \/ n \in Range(CalleesOf(a))
  <2>1. n \in {program} \cup Range(ps) \cup Range(fs) => n = program
    BY <1>0, <1>7, <1>17
  <2>2. n \notin Range(TablesOnDemand(a))
    BY <1>17, Tables
  <2> QED
    BY <1>6, <1>13, <2>1, <2>2
<1> QED
  BY <1>13, <1>14, <1>15, <1>16, <1>17

(* The flow out of one paragraph, of a program that has those names.       *)
KnownGotos(names, q) ==
    [k \in DOMAIN q.gotos |-> IF Upper[q.gotos[k]] \in names THEN <<q.gotos[k]>> ELSE << >>]

PerformsFrom(a, names, q) ==
    [k \in DOMAIN q.performs |->
        Edge(IF Upper[q.performs[k]] \in names THEN ParaId(a, q.name) ELSE ProgramId(ProgramName(a)),
             "PERFORMS", ParaId(a, Upper[q.performs[k]]))]

GotosFrom(a, names, q) ==
    [k \in DOMAIN FlattenSeq(KnownGotos(names, q)) |->
        Edge(ParaId(a, q.name), "PERFORMS", ParaId(a, Upper[FlattenSeq(KnownGotos(names, q))[k]]))]

LEMMA FlowOfOne ==
    ASSUME NEW a, NEW names, NEW q \in Para
    PROVE  /\ IsSequence(PerformsFrom(a, names, q) \o GotosFrom(a, names, q))
           /\ \A e \in Range(PerformsFrom(a, names, q) \o GotosFrom(a, names, q)) :
                 /\ e[2] = "PERFORMS" /\ e[3].type = "Paragraph"
                 /\ e[1] \in {ProgramId(ProgramName(a)), ParaId(a, q.name)}
<1> DEFINE ok(e) == /\ e[2] = "PERFORMS" /\ e[3].type = "Paragraph"
                    /\ e[1] \in {ProgramId(ProgramName(a)), ParaId(a, q.name)}
           ps == PerformsFrom(a, names, q)
           gs == GotosFrom(a, names, q)
           t == KnownGotos(names, q)
<1>1. IsSequence(q.performs) /\ IsSequence(q.gotos)
  BY SequenceOf DEF Para
<1>2. \A name : ParaId(a, name).type = "Paragraph"
  BY DEF ParaId, MakeId
<1>3. DOMAIN ps = DOMAIN q.performs /\ ps = [k \in DOMAIN q.performs |-> ps[k]]
  BY DEF PerformsFrom
<1>4. \A k \in DOMAIN q.performs : ok(ps[k])
  BY <1>2 DEF PerformsFrom, Edge
<1>5. /\ DOMAIN t = DOMAIN q.gotos /\ t = [k \in DOMAIN q.gotos |-> t[k]]
      /\ \A k \in DOMAIN q.gotos : t[k] = <<q.gotos[k]>> \/ t[k] = << >>
  BY DEF KnownGotos
<1> HIDE DEF t
<1>6. IsSequence(FlattenSeq(t))
  BY <1>1, <1>5, OnlySequence
<1>7. DOMAIN gs = DOMAIN FlattenSeq(t) /\ gs = [k \in DOMAIN FlattenSeq(t) |-> gs[k]]
  BY DEF GotosFrom, t
<1>8. \A k \in DOMAIN FlattenSeq(t) : ok(gs[k])
  BY <1>2 DEF GotosFrom, Edge, t
<1> HIDE DEF ps, gs, ok
<1>9. IsSequence(ps) /\ Range(ps) = {ps[k] : k \in DOMAIN q.performs}
  BY <1>1, <1>3, EachSequence
<1>10. IsSequence(gs) /\ Range(gs) = {gs[k] : k \in DOMAIN FlattenSeq(t)}
  BY <1>6, <1>7, EachSequence
<1>11. IsSequence(ps \o gs) /\ Range(ps \o gs) = Range(ps) \cup Range(gs)
  BY <1>9, <1>10, ConcatSequence
<1>12. \A e \in Range(ps \o gs) : ok(e)
  BY <1>4, <1>8, <1>9, <1>10, <1>11
<1> QED
  BY <1>11, <1>12 DEF ok, ps, gs

LEMMA Flow ==
    ASSUME NEW a \in CobolSource
    PROVE  /\ IsSequence(FlowEdges(a))
           /\ \A e \in Range(FlowEdges(a)) :
                 /\ e[2] = "PERFORMS" /\ e[3].type = "Paragraph"
                 /\ \/ e[1] = ProgramId(ProgramName(a))
                    \/ \E i \in DOMAIN ParasOf(a) : e[1] = ParaId(a, ParasOf(a)[i].name)
<1> DEFINE names == {ParasOf(a)[i].name : i \in DOMAIN ParasOf(a)}
           t == [i \in DOMAIN ParasOf(a) |-> PerformsFrom(a, names, ParasOf(a)[i])
                                             \o GotosFrom(a, names, ParasOf(a)[i])]
<1>1. FlowEdges(a) = FlattenSeq(t)
  BY DEF FlowEdges, Each, Only, PerformsFrom, GotosFrom, KnownGotos
<1>2. ParasOf(a) \in Seq(Para) /\ IsSequence(ParasOf(a))
  BY Paragraphs, SequenceOf
<1>3. \A i \in DOMAIN ParasOf(a) : ParasOf(a)[i] \in Para
  BY <1>2
<1> HIDE DEF names
<1>4. DOMAIN t = DOMAIN ParasOf(a) /\ t = [i \in DOMAIN ParasOf(a) |-> t[i]]
  OBVIOUS
<1>5. \A i \in DOMAIN ParasOf(a) :
         /\ IsSequence(t[i])
         /\ \A e \in Range(t[i]) :
               /\ e[2] = "PERFORMS" /\ e[3].type = "Paragraph"
               /\ e[1] \in {ProgramId(ProgramName(a)), ParaId(a, ParasOf(a)[i].name)}
  BY <1>3, FlowOfOne
<1> HIDE DEF t
<1>6. IsSequence(t)
  BY <1>2, <1>4, EachSequence
<1>7. /\ IsSequence(FlattenSeq(t))
      /\ \A e : e \in Range(FlattenSeq(t)) <=> \E i \in DOMAIN t : e \in Range(t[i])
  BY <1>4, <1>5, <1>6, FlattenSequence
<1> QED
  BY <1>1, <1>4, <1>5, <1>7

(* The edges of a program.                                                 *)
LEMMA CobolEdgesAre ==
    ASSUME NEW a \in CobolSource
    PROVE  /\ IsSequence(CobolEdges(a))
           /\ \A e \in Range(CobolEdges(a)) :
                 \/ e \in Range(FlowEdges(a))
                 \/ /\ e[1] = ProgramId(ProgramName(a)) /\ e[2] = "CALLS"
                    /\ \E i \in DOMAIN a.calls : e[3] = ProgramId(Upper[a.calls[i]])
                 \/ /\ e[1] = ProgramId(ProgramName(a))
                    /\ e[2] \in {"INCLUDES", "READS", "WRITES"}
                    /\ e[3].type \in {"Copybook", "DB2Table"}
           /\ \A i \in DOMAIN a.calls : \E e \in Range(CobolEdges(a)) :
                 /\ e[1] = ProgramId(ProgramName(a)) /\ e[2] = "CALLS"
                 /\ e[3] = ProgramId(Upper[a.calls[i]])
<1> DEFINE program == ProgramId(ProgramName(a))
           cs == [i \in DOMAIN a.calls |-> Edge(program, "CALLS", ProgramId(Upper[a.calls[i]]))]
           is == [i \in DOMAIN a.copies |->
                     Edge(program, "INCLUDES", MakeId("Copybook", "", Upper[a.copies[i]]))]
           rs == [i \in DOMAIN a.reads |-> Edge(program, "READS", TableId(a.reads[i]))]
           ws == [i \in DOMAIN a.writes |-> Edge(program, "WRITES", TableId(a.writes[i]))]
           other(e) == /\ e[1] = program /\ e[2] \in {"INCLUDES", "READS", "WRITES"}
                       /\ e[3].type \in {"Copybook", "DB2Table"}
<1>1. CobolEdges(a) = FlowEdges(a) \o cs \o is \o rs \o ws
  BY DEF CobolEdges, Each
<1>2. /\ IsSequence(a.calls) /\ IsSequence(a.copies) /\ IsSequence(a.reads) /\ IsSequence(a.writes)
  BY CobolParts
<1>3. /\ DOMAIN cs = DOMAIN a.calls /\ cs = [i \in DOMAIN a.calls |-> cs[i]]
      /\ DOMAIN is = DOMAIN a.copies /\ is = [i \in DOMAIN a.copies |-> is[i]]
      /\ DOMAIN rs = DOMAIN a.reads /\ rs = [i \in DOMAIN a.reads |-> rs[i]]
      /\ DOMAIN ws = DOMAIN a.writes /\ ws = [i \in DOMAIN a.writes |-> ws[i]]
  OBVIOUS
<1>4. \A i \in DOMAIN a.calls :
         cs[i][1] = program /\ cs[i][2] = "CALLS" /\ cs[i][3] = ProgramId(Upper[a.calls[i]])
  BY DEF Edge
<1>5. /\ \A i \in DOMAIN a.copies : other(is[i])
      /\ \A i \in DOMAIN a.reads : other(rs[i])
      /\ \A i \in DOMAIN a.writes : other(ws[i])
  BY DEF Edge, MakeId, TableId
<1> HIDE DEF cs, is, rs, ws, other
<1>6. IsSequence(cs) /\ Range(cs) = {cs[i] : i \in DOMAIN a.calls}
  <2>1. IsSequence(a.calls) /\ DOMAIN cs = DOMAIN a.calls /\ cs = [i \in DOMAIN a.calls |-> cs[i]]
    BY <1>2, <1>3
  <2> QED
    BY <2>1, EachSequence
<1>7. IsSequence(is) /\ Range(is) = {is[i] : i \in DOMAIN a.copies}
  <2>1. IsSequence(a.copies) /\ DOMAIN is = DOMAIN a.copies /\ is = [i \in DOMAIN a.copies |-> is[i]]
    BY <1>2, <1>3
  <2> QED
    BY <2>1, EachSequence
<1>8. IsSequence(rs) /\ Range(rs) = {rs[i] : i \in DOMAIN a.reads}
  <2>1. IsSequence(a.reads) /\ DOMAIN rs = DOMAIN a.reads /\ rs = [i \in DOMAIN a.reads |-> rs[i]]
    BY <1>2, <1>3
  <2> QED
    BY <2>1, EachSequence
<1>9. IsSequence(ws) /\ Range(ws) = {ws[i] : i \in DOMAIN a.writes}
  <2>1. IsSequence(a.writes) /\ DOMAIN ws = DOMAIN a.writes /\ ws = [i \in DOMAIN a.writes |-> ws[i]]
    BY <1>2, <1>3
  <2> QED
    BY <2>1, EachSequence
<1>10. IsSequence(FlowEdges(a))
  BY Flow
<1>11. /\ IsSequence(FlowEdges(a) \o cs)
       /\ Range(FlowEdges(a) \o cs) = Range(FlowEdges(a)) \cup Range(cs)
  BY <1>6, <1>10, ConcatSequence
<1>12. /\ IsSequence(FlowEdges(a) \o cs \o is)
       /\ Range(FlowEdges(a) \o cs \o is) = Range(FlowEdges(a)) \cup Range(cs) \cup Range(is)
  BY <1>7, <1>11, ConcatSequence
<1>13. /\ IsSequence(FlowEdges(a) \o cs \o is \o rs)
       /\ Range(FlowEdges(a) \o cs \o is \o rs)
             = Range(FlowEdges(a)) \cup Range(cs) \cup Range(is) \cup Range(rs)
  BY <1>8, <1>12, ConcatSequence
<1>14. /\ IsSequence(CobolEdges(a))
       /\ Range(CobolEdges(a))
             = Range(FlowEdges(a)) \cup Range(cs) \cup Range(is) \cup Range(rs) \cup Range(ws)
  BY <1>1, <1>9, <1>13, ConcatSequence
<1>15. \A e \in Range(is) \cup Range(rs) \cup Range(ws) : other(e)
  BY <1>5, <1>7, <1>8, <1>9
<1> QED
  BY <1>4, <1>6, <1>14, <1>15 DEF other

(* The data sets of a program.                                             *)
LEMMA DataSets ==
    ASSUME NEW a \in CobolSource
    PROVE  /\ IsSequence(VsamNodes(a)) /\ IsSequence(VsamEdges(a))
           /\ \A n \in Range(VsamNodes(a)) : n.id.type \in {"VSAMDataset", "Dataset"}
           /\ \A e \in Range(VsamEdges(a)) :
                 /\ e[1] = ProgramId(FileProgram(a))
                 /\ e[2] \in {"READS", "WRITES"} /\ e[3].type \in {"VSAMDataset", "Dataset"}
<1> DEFINE program == ProgramId(FileProgram(a))
           ns == [i \in DOMAIN a.files |-> Node(FileId(a.files[i]), "vsam", Confidence(~a.files[i].org))]
           tr == [i \in DOMAIN a.files |-> IF a.files[i].read THEN <<a.files[i]>> ELSE << >>]
           tw == [i \in DOMAIN a.files |-> IF a.files[i].written THEN <<a.files[i]>> ELSE << >>]
           sr == FlattenSeq(tr)
           sw == FlattenSeq(tw)
           rs == [i \in DOMAIN sr |-> Edge(program, "READS", FileId(sr[i]))]
           ws == [i \in DOMAIN sw |-> Edge(program, "WRITES", FileId(sw[i]))]
           ok(e) == /\ e[1] = program /\ e[2] \in {"READS", "WRITES"}
                    /\ e[3].type \in {"VSAMDataset", "Dataset"}
<1>1. VsamNodes(a) = ns /\ VsamEdges(a) = rs \o ws
  BY DEF VsamNodes, VsamEdges, Each, Only
<1>2. IsSequence(a.files)
  BY CobolParts
<1>3. /\ DOMAIN ns = DOMAIN a.files /\ ns = [i \in DOMAIN a.files |-> ns[i]]
      /\ DOMAIN tr = DOMAIN a.files /\ tr = [i \in DOMAIN a.files |-> tr[i]]
      /\ DOMAIN tw = DOMAIN a.files /\ tw = [i \in DOMAIN a.files |-> tw[i]]
      /\ \A i \in DOMAIN a.files : tr[i] = <<a.files[i]>> \/ tr[i] = << >>
      /\ \A i \in DOMAIN a.files : tw[i] = <<a.files[i]>> \/ tw[i] = << >>
  OBVIOUS
<1>4. \A d : FileId(d).type \in {"VSAMDataset", "Dataset"}
  BY DEF FileId, MakeId
<1>0. \A i \in DOMAIN a.files : ns[i].id.type \in {"VSAMDataset", "Dataset"}
  BY <1>4 DEF Node
<1> HIDE DEF tr, tw, ns
<1>5. IsSequence(ns) /\ Range(ns) = {ns[i] : i \in DOMAIN a.files}
  <2>1. DOMAIN ns = DOMAIN a.files /\ ns = [i \in DOMAIN a.files |-> ns[i]]
    BY <1>3
  <2> QED
    BY <1>2, <2>1, EachSequence
<1>6. IsSequence(sr)
  BY <1>2, <1>3, OnlySequence
<1>7. IsSequence(sw)
  BY <1>2, <1>3, OnlySequence
<1> HIDE DEF sr, sw, program
<1>8. /\ DOMAIN rs = DOMAIN sr /\ rs = [i \in DOMAIN sr |-> rs[i]]
      /\ DOMAIN ws = DOMAIN sw /\ ws = [i \in DOMAIN sw |-> ws[i]]
  OBVIOUS
<1>9. (\A i \in DOMAIN sr : ok(rs[i])) /\ (\A i \in DOMAIN sw : ok(ws[i]))
  BY <1>4 DEF Edge
<1> HIDE DEF rs, ws, ok
<1>10. IsSequence(rs) /\ Range(rs) = {rs[i] : i \in DOMAIN sr}
  BY <1>6, <1>8, EachSequence
<1>11. IsSequence(ws) /\ Range(ws) = {ws[i] : i \in DOMAIN sw}
  BY <1>7, <1>8, EachSequence
<1>12. IsSequence(rs \o ws) /\ Range(rs \o ws) = Range(rs) \cup Range(ws)
  BY <1>10, <1>11, ConcatSequence
<1>13. \A e \in Range(rs \o ws) : ok(e)
  BY <1>9, <1>10, <1>11, <1>12
<1> QED
  BY <1>0, <1>1, <1>5, <1>12, <1>13 DEF ok, program

(* The nodes of a copybook: itself and its fields.                         *)
LEMMA CopybookNodesAre ==
    ASSUME NEW a \in Copybook
    PROVE  \A n \in Range(CopybookNodes(a)) : n.id.type \in {"Copybook", "Field"}
<1> DEFINE name == Upper[a.stem]
           self == Node(MakeId("Copybook", "", name), "copybook",
                        Confidence(\E i \in DOMAIN a.fields : a.fields[i].partial))
           fs == [i \in DOMAIN a.fields |-> Node(MakeId("Field", name, a.fields[i].name), "copybook",
                                                 Confidence(a.fields[i].partial))]
<1>1. CopybookNodes(a) = <<self>> \o fs
  BY DEF CopybookNodes, Each
<1>2. IsSequence(a.fields)
  <2>1. a.fields \in Seq([name : Names, partial : BOOLEAN])
    BY DEF Copybook
  <2> QED
    BY <2>1, SequenceOf, Zenon
<1>3. DOMAIN fs = DOMAIN a.fields /\ fs = [i \in DOMAIN a.fields |-> fs[i]]
  OBVIOUS
<1>4. self.id.type = "Copybook" /\ \A i \in DOMAIN a.fields : fs[i].id.type = "Field"
  BY DEF Node, MakeId
<1> HIDE DEF self, fs
<1>5. IsSequence(fs) /\ Range(fs) = {fs[i] : i \in DOMAIN a.fields}
  BY <1>2, <1>3, EachSequence
<1>6. IsSequence(<<self>>) /\ Range(<<self>>) = {self}
  BY OneOf
<1>7. Range(<<self>> \o fs) = {self} \cup Range(fs)
  BY <1>5, <1>6, ConcatSequence
<1> QED
  BY <1>1, <1>4, <1>5, <1>7

-----------------------------------------------------------------------------
(* DB2.                                                                    *)

TableParts == [name : Names, columns : Seq(Names),
               constraints : Seq([name : Names, partial : BOOLEAN]),
               cascades : Seq(Names), partial : BOOLEAN]

ViewParts == [name : Names, tables : Seq(Names)]

TriggerParts == [name : Names, table : Names, event : Names, nocascade : BOOLEAN,
                 dml : Seq(Names \X Names), partial : BOOLEAN]

ProcParts == [name : Names, calls : Seq(Names), reads : Seq(Names), writes : Seq(Names),
              partial : BOOLEAN]

LEMMA SqlParts ==
    ASSUME NEW a \in SqlSource
    PROVE  /\ IsSequence(a.tables) /\ IsSequence(a.indexes) /\ IsSequence(a.views)
           /\ IsSequence(a.triggers) /\ IsSequence(a.procs)
           /\ \A i \in DOMAIN a.tables :
                 /\ IsSequence(a.tables[i].columns) /\ IsSequence(a.tables[i].constraints)
                 /\ IsSequence(a.tables[i].cascades)
           /\ \A i \in DOMAIN a.views : IsSequence(a.views[i].tables)
           /\ \A i \in DOMAIN a.triggers : IsSequence(a.triggers[i].dml)
           /\ \A i \in DOMAIN a.procs :
                 /\ IsSequence(a.procs[i].calls) /\ IsSequence(a.procs[i].reads)
                 /\ IsSequence(a.procs[i].writes)
<1>1. /\ a.tables \in Seq(TableParts) /\ a.indexes \in Seq(Names)
      /\ a.views \in Seq(ViewParts) /\ a.triggers \in Seq(TriggerParts) /\ a.procs \in Seq(ProcParts)
  BY DEF SqlSource, TableParts, ViewParts, TriggerParts, ProcParts
<1>2. /\ IsSequence(a.tables) /\ IsSequence(a.indexes) /\ IsSequence(a.views)
      /\ IsSequence(a.triggers) /\ IsSequence(a.procs)
  BY <1>1, SequenceOf, Zenon
<1>3. ASSUME NEW i \in DOMAIN a.tables
      PROVE  /\ IsSequence(a.tables[i].columns) /\ IsSequence(a.tables[i].constraints)
             /\ IsSequence(a.tables[i].cascades)
  <2>1. a.tables[i] \in TableParts
    BY <1>1
  <2>2. /\ a.tables[i].columns \in Seq(Names) /\ a.tables[i].cascades \in Seq(Names)
        /\ a.tables[i].constraints \in Seq([name : Names, partial : BOOLEAN])
    BY <2>1 DEF TableParts
  <2> QED
    BY <2>2, SequenceOf, Zenon
<1>4. ASSUME NEW i \in DOMAIN a.views PROVE IsSequence(a.views[i].tables)
  <2>1. a.views[i] \in ViewParts
    BY <1>1
  <2>2. a.views[i].tables \in Seq(Names)
    BY <2>1 DEF ViewParts
  <2> QED
    BY <2>2, SequenceOf, Zenon
<1>5. ASSUME NEW i \in DOMAIN a.triggers PROVE IsSequence(a.triggers[i].dml)
  <2>1. a.triggers[i] \in TriggerParts
    BY <1>1
  <2>2. a.triggers[i].dml \in Seq(Names \X Names)
    BY <2>1 DEF TriggerParts
  <2> QED
    BY <2>2, SequenceOf, Zenon
<1>6. ASSUME NEW i \in DOMAIN a.procs
      PROVE  /\ IsSequence(a.procs[i].calls) /\ IsSequence(a.procs[i].reads)
             /\ IsSequence(a.procs[i].writes)
  <2>1. a.procs[i] \in ProcParts
    BY <1>1
  <2>2. /\ a.procs[i].calls \in Seq(Names) /\ a.procs[i].reads \in Seq(Names)
        /\ a.procs[i].writes \in Seq(Names)
    BY <2>1 DEF ProcParts
  <2> QED
    BY <2>2, SequenceOf, Zenon
<1> QED
  BY <1>2, <1>3, <1>4, <1>5, <1>6

(* The nodes of a table: its columns, its constraints and itself.          *)
NodesOfTable(t) ==
    [k \in DOMAIN t.columns |-> Node(MakeId("DB2Column", t.name, t.columns[k]), "db2_ddl", "full")]
    \o [k \in DOMAIN t.constraints |-> ConstraintNode(t.constraints[k].name, t.constraints[k].partial)]
    \o <<Node(TableId(t.name), "db2_ddl", Confidence(t.partial))>>

LEMMA TableIsNamed ==
    ASSUME NEW t, IsSequence(t.columns), IsSequence(t.constraints)
    PROVE  /\ IsSequence(NodesOfTable(t)) /\ Named(NodesOfTable(t), TableId(t.name))
           /\ \A n \in Range(NodesOfTable(t)) : n.id.type \in {"DB2Column", "Constraint", "DB2Table"}
<1> DEFINE cs == [k \in DOMAIN t.columns |->
                     Node(MakeId("DB2Column", t.name, t.columns[k]), "db2_ddl", "full")]
           xs == [k \in DOMAIN t.constraints |->
                     ConstraintNode(t.constraints[k].name, t.constraints[k].partial)]
           self == Node(TableId(t.name), "db2_ddl", Confidence(t.partial))
<1>1. NodesOfTable(t) = cs \o xs \o <<self>>
  BY DEF NodesOfTable
<1>2. self.id = TableId(t.name)
  BY DEF Node
<1>3. DOMAIN cs = DOMAIN t.columns /\ cs = [k \in DOMAIN t.columns |-> cs[k]]
  OBVIOUS
<1>4. DOMAIN xs = DOMAIN t.constraints /\ xs = [k \in DOMAIN t.constraints |-> xs[k]]
  OBVIOUS
<1>0. /\ \A k \in DOMAIN t.columns : cs[k].id.type = "DB2Column"
      /\ \A k \in DOMAIN t.constraints : xs[k].id.type = "Constraint"
      /\ self.id.type = "DB2Table"
  BY DEF ConstraintNode, Node, TableId, MakeId
<1> HIDE DEF cs, xs, self
<1>5. IsSequence(cs) /\ Range(cs) = {cs[k] : k \in DOMAIN t.columns}
  BY <1>3, EachSequence
<1>6. IsSequence(xs) /\ Range(xs) = {xs[k] : k \in DOMAIN t.constraints}
  BY <1>4, EachSequence
<1>7. IsSequence(cs \o xs) /\ Range(cs \o xs) = Range(cs) \cup Range(xs)
  BY <1>5, <1>6, ConcatSequence
<1>8. IsSequence(<<self>>) /\ Range(<<self>>) = {self}
  BY OneOf
<1>9. /\ IsSequence(cs \o xs \o <<self>>)
      /\ Range(cs \o xs \o <<self>>) = Range(cs) \cup Range(xs) \cup {self}
  BY <1>7, <1>8, ConcatSequence
<1> QED
  BY <1>0, <1>1, <1>2, <1>5, <1>6, <1>9 DEF Named

LEMMA DdlNodesNamed ==
    ASSUME NEW a \in SqlSource
    PROVE  /\ \A i \in DOMAIN a.tables : Named(DdlNodes(a), TableId(a.tables[i].name))
           /\ \A i \in DOMAIN a.views : Named(DdlNodes(a), MakeId("View", "", a.views[i].name))
           /\ \A n \in Range(DdlNodes(a)) : n.id.type \in {"DB2Column", "Constraint", "DB2Table", "View"}
<1> DEFINE t == [i \in DOMAIN a.tables |-> NodesOfTable(a.tables[i])]
           xs == [i \in DOMAIN a.indexes |-> ConstraintNode(a.indexes[i], TRUE)]
           vs == [i \in DOMAIN a.views |->
                     Node(MakeId("View", "", a.views[i].name), "db2_ddl",
                          Confidence(a.views[i].tables = << >>))]
<1>1. DdlNodes(a) = FlattenSeq(t) \o xs \o vs
  BY DEF DdlNodes, Each, NodesOfTable
<1>2. /\ IsSequence(a.tables) /\ IsSequence(a.indexes) /\ IsSequence(a.views)
      /\ \A i \in DOMAIN a.tables : IsSequence(a.tables[i].columns) /\ IsSequence(a.tables[i].constraints)
  BY SqlParts
<1>3. DOMAIN t = DOMAIN a.tables /\ t = [i \in DOMAIN a.tables |-> t[i]]
  OBVIOUS
<1>4. \A i \in DOMAIN a.tables :
         /\ IsSequence(t[i]) /\ Named(t[i], TableId(a.tables[i].name))
         /\ \A n \in Range(t[i]) : n.id.type \in {"DB2Column", "Constraint", "DB2Table"}
  BY <1>2, TableIsNamed
<1>5. DOMAIN xs = DOMAIN a.indexes /\ xs = [i \in DOMAIN a.indexes |-> xs[i]]
  OBVIOUS
<1>6. DOMAIN vs = DOMAIN a.views /\ vs = [i \in DOMAIN a.views |-> vs[i]]
  OBVIOUS
<1>7. \A i \in DOMAIN a.views : vs[i].id = MakeId("View", "", a.views[i].name)
  BY DEF Node
<1>0. /\ \A i \in DOMAIN a.indexes : xs[i].id.type = "Constraint"
      /\ \A i \in DOMAIN a.views : vs[i].id.type = "View"
  BY DEF ConstraintNode, Node, MakeId
<1> HIDE DEF t, xs, vs
<1>8. IsSequence(t)
  BY <1>2, <1>3, EachSequence
<1>9. /\ IsSequence(FlattenSeq(t))
      /\ \A n : n \in Range(FlattenSeq(t)) <=> \E i \in DOMAIN t : n \in Range(t[i])
  BY <1>3, <1>4, <1>8, FlattenSequence
<1>10. IsSequence(xs) /\ Range(xs) = {xs[i] : i \in DOMAIN a.indexes}
  BY <1>2, <1>5, EachSequence
<1>11. IsSequence(vs) /\ Range(vs) = {vs[i] : i \in DOMAIN a.views}
  BY <1>2, <1>6, EachSequence
<1>12. /\ IsSequence(FlattenSeq(t) \o xs)
       /\ Range(FlattenSeq(t) \o xs) = Range(FlattenSeq(t)) \cup Range(xs)
  BY <1>9, <1>10, ConcatSequence
<1>13. Range(DdlNodes(a)) = Range(FlattenSeq(t)) \cup Range(xs) \cup Range(vs)
  BY <1>1, <1>11, <1>12, ConcatSequence
<1>14. ASSUME NEW i \in DOMAIN a.tables PROVE Named(DdlNodes(a), TableId(a.tables[i].name))
  <2>1. PICK n \in Range(t[i]) : n.id = TableId(a.tables[i].name)
    BY <1>4 DEF Named
  <2>2. n \in Range(FlattenSeq(t))
    BY <1>3, <1>9, <2>1
  <2> QED
    BY <1>13, <2>1, <2>2 DEF Named
<1>15. \A i \in DOMAIN a.views : Named(DdlNodes(a), MakeId("View", "", a.views[i].name))
  BY <1>7, <1>11, <1>13 DEF Named
<1>16. \A n \in Range(FlattenSeq(t)) : n.id.type \in {"DB2Column", "Constraint", "DB2Table"}
  BY <1>3, <1>4, <1>9
<1>17. ASSUME NEW n \in Range(DdlNodes(a))
       PROVE  n.id.type \in {"DB2Column", "Constraint", "DB2Table", "View"}
  <2>1. n \in Range(xs) => n.id.type = "Constraint"
    BY <1>0, <1>10
  <2>2. n \in Range(vs) => n.id.type = "View"
    BY <1>0, <1>11
  <2> QED
    BY <1>13, <1>16, <1>17, <2>1, <2>2
<1> QED
  BY <1>14, <1>15, <1>17

LEMMA DdlEdgesAre ==
    ASSUME NEW a \in SqlSource
    PROVE  /\ IsSequence(DdlEdges(a))
           /\ \A e \in Range(DdlEdges(a)) :
                 /\ e[2] \in {"CASCADES_TO", "ABSTRACTS"} /\ e[3].type = "DB2Table"
                 /\ \/ \E i \in DOMAIN a.tables : e[1] = TableId(a.tables[i].name)
                    \/ \E i \in DOMAIN a.views : e[1] = MakeId("View", "", a.views[i].name)
<1> DEFINE cascades(x) == [k \in DOMAIN x.cascades |->
                              Edge(TableId(x.name), "CASCADES_TO", TableId(x.cascades[k]))]
           abstracts(v) == [k \in DOMAIN v.tables |->
                               Edge(MakeId("View", "", v.name), "ABSTRACTS", TableId(v.tables[k]))]
           t == [i \in DOMAIN a.tables |-> cascades(a.tables[i])]
           u == [i \in DOMAIN a.views |-> abstracts(a.views[i])]
           okt(i, e) == /\ e[2] = "CASCADES_TO" /\ e[3].type = "DB2Table"
                        /\ e[1] = TableId(a.tables[i].name)
           oku(i, e) == /\ e[2] = "ABSTRACTS" /\ e[3].type = "DB2Table"
                        /\ e[1] = MakeId("View", "", a.views[i].name)
<1>1. DdlEdges(a) = FlattenSeq(t) \o FlattenSeq(u)
  BY DEF DdlEdges, Each
<1>2. /\ IsSequence(a.tables) /\ IsSequence(a.views)
      /\ \A i \in DOMAIN a.tables : IsSequence(a.tables[i].cascades)
      /\ \A i \in DOMAIN a.views : IsSequence(a.views[i].tables)
  BY SqlParts
<1>3. DOMAIN t = DOMAIN a.tables /\ t = [i \in DOMAIN a.tables |-> t[i]]
  OBVIOUS
<1>4. DOMAIN u = DOMAIN a.views /\ u = [i \in DOMAIN a.views |-> u[i]]
  OBVIOUS
<1>5. ASSUME NEW i \in DOMAIN a.tables
      PROVE  IsSequence(t[i]) /\ \A e \in Range(t[i]) : okt(i, e)
  <2> DEFINE c == cascades(a.tables[i])
  <2>1. t[i] = c
    OBVIOUS
  <2>2. DOMAIN c = DOMAIN a.tables[i].cascades /\ c = [k \in DOMAIN a.tables[i].cascades |-> c[k]]
    OBVIOUS
  <2>3. \A k \in DOMAIN a.tables[i].cascades : okt(i, c[k])
    BY DEF Edge, TableId, MakeId
  <2> HIDE DEF c, okt, t
  <2>4. IsSequence(c) /\ Range(c) = {c[k] : k \in DOMAIN a.tables[i].cascades}
    BY <1>2, <2>2, EachSequence
  <2> QED
    BY <2>1, <2>3, <2>4
<1>6. ASSUME NEW i \in DOMAIN a.views
      PROVE  IsSequence(u[i]) /\ \A e \in Range(u[i]) : oku(i, e)
  <2> DEFINE c == abstracts(a.views[i])
  <2>1. u[i] = c
    OBVIOUS
  <2>2. DOMAIN c = DOMAIN a.views[i].tables /\ c = [k \in DOMAIN a.views[i].tables |-> c[k]]
    OBVIOUS
  <2>3. \A k \in DOMAIN a.views[i].tables : oku(i, c[k])
    BY DEF Edge, TableId, MakeId
  <2> HIDE DEF c, oku, u
  <2>4. IsSequence(c) /\ Range(c) = {c[k] : k \in DOMAIN a.views[i].tables}
    BY <1>2, <2>2, EachSequence
  <2> QED
    BY <2>1, <2>3, <2>4
<1> HIDE DEF t, u, okt, oku
<1>7. IsSequence(t)
  BY <1>2, <1>3, EachSequence
<1>8. IsSequence(u)
  BY <1>2, <1>4, EachSequence
<1>9. /\ IsSequence(FlattenSeq(t))
      /\ \A e : e \in Range(FlattenSeq(t)) <=> \E i \in DOMAIN t : e \in Range(t[i])
  BY <1>3, <1>5, <1>7, FlattenSequence
<1>10. /\ IsSequence(FlattenSeq(u))
       /\ \A e : e \in Range(FlattenSeq(u)) <=> \E i \in DOMAIN u : e \in Range(u[i])
  BY <1>4, <1>6, <1>8, FlattenSequence
<1>11. /\ IsSequence(DdlEdges(a))
       /\ Range(DdlEdges(a)) = Range(FlattenSeq(t)) \cup Range(FlattenSeq(u))
  BY <1>1, <1>9, <1>10, ConcatSequence
<1>12. \A e \in Range(DdlEdges(a)) :
          \/ \E i \in DOMAIN a.tables : okt(i, e)
          \/ \E i \in DOMAIN a.views : oku(i, e)
  BY <1>3, <1>4, <1>5, <1>6, <1>9, <1>10, <1>11
<1> QED
  BY <1>11, <1>12 DEF okt, oku

(* A trigger's edges, and a procedure's, start at it.                      *)
LEMMA TriggersAre ==
    ASSUME NEW a \in SqlSource
    PROVE  /\ IsSequence(TriggerEdges(a))
           /\ \A e \in Range(TriggerEdges(a)) :
                 /\ e[2] \in {"FIRES_ON", "TRIGGERS_TRIGGER"} /\ e[3].type \in {"DB2Table", "Trigger"}
                 /\ Named(TriggerNodes(a), e[1])
           /\ \A n \in Range(TriggerNodes(a)) : n.id.type = "Trigger"
<1> DEFINE ns == [i \in DOMAIN a.triggers |->
                     Node(TriggerId(a.triggers[i].name), "trigger", Confidence(a.triggers[i].partial))]
           on(t) == IF t.table = "" THEN << >>
                    ELSE <<Edge(TriggerId(t.name), "FIRES_ON", TableId(t.table))>>
           other(t) == [k \in DOMAIN t.dml |->
                           IF Upper[t.dml[k][1]] # Upper[t.table] THEN <<t.dml[k]>> ELSE << >>]
           fires(t) == [k \in DOMAIN FlattenSeq(other(t)) |->
                           Edge(TriggerId(t.name), "TRIGGERS_TRIGGER",
                                FiredId(FlattenSeq(other(t))[k][1], FlattenSeq(other(t))[k][2]))]
           chain(t) == IF t.nocascade THEN << >> ELSE fires(t)
           es == [i \in DOMAIN a.triggers |-> on(a.triggers[i]) \o chain(a.triggers[i])]
           ok(i, e) == /\ e[2] \in {"FIRES_ON", "TRIGGERS_TRIGGER"}
                       /\ e[3].type \in {"DB2Table", "Trigger"}
                       /\ e[1] = TriggerId(a.triggers[i].name)
<1>1. TriggerNodes(a) = ns /\ TriggerEdges(a) = FlattenSeq(es)
  BY DEF TriggerNodes, TriggerEdges, Each, Only
<1>2. IsSequence(a.triggers) /\ \A i \in DOMAIN a.triggers : IsSequence(a.triggers[i].dml)
  BY SqlParts
<1>3. DOMAIN es = DOMAIN a.triggers /\ es = [i \in DOMAIN a.triggers |-> es[i]]
  OBVIOUS
<1>4. ASSUME NEW i \in DOMAIN a.triggers
      PROVE  IsSequence(es[i]) /\ \A e \in Range(es[i]) : ok(i, e)
  <2> DEFINE t == a.triggers[i]
             o == other(t)
             f == fires(t)
  <2>1. es[i] = on(t) \o chain(t)
    OBVIOUS
  <2>2. /\ DOMAIN o = DOMAIN t.dml /\ o = [k \in DOMAIN t.dml |-> o[k]]
        /\ \A k \in DOMAIN t.dml : o[k] = <<t.dml[k]>> \/ o[k] = << >>
    OBVIOUS
  <2>3. IsSequence(FlattenSeq(o))
    <3> HIDE DEF o
    <3> QED
      BY <1>2, <2>2, OnlySequence
  <2>4. DOMAIN f = DOMAIN FlattenSeq(o) /\ f = [k \in DOMAIN FlattenSeq(o) |-> f[k]]
    OBVIOUS
  <2>5. \A k \in DOMAIN FlattenSeq(o) : ok(i, f[k])
    BY DEF Edge, FiredId, MakeId
  <2>6. IsSequence(f) /\ Range(f) = {f[k] : k \in DOMAIN FlattenSeq(o)}
    <3> HIDE DEF f, o
    <3> QED
      BY <2>3, <2>4, EachSequence
  <2>7. IsSequence(chain(t)) /\ \A e \in Range(chain(t)) : ok(i, e)
    <3> HIDE DEF ok, f, o
    <3>1. chain(t) = IF t.nocascade THEN << >> ELSE f
      BY DEF f
    <3> HIDE DEF chain
    <3>2. CASE t.nocascade
      BY <3>1, <3>2, NoneOf
    <3>3. CASE ~t.nocascade
      BY <2>5, <2>6, <3>1, <3>3
    <3> QED
      BY <3>2, <3>3
  <2>8. IsSequence(on(t)) /\ \A e \in Range(on(t)) : ok(i, e)
    <3> DEFINE e0 == Edge(TriggerId(t.name), "FIRES_ON", TableId(t.table))
    <3>1. on(t) = IF t.table = "" THEN << >> ELSE <<e0>>
      OBVIOUS
    <3>2. ok(i, e0)
      BY DEF Edge, TableId, MakeId
    <3> HIDE DEF on, e0, ok
    <3>3. CASE t.table = ""
      BY <3>1, <3>3, NoneOf
    <3>4. CASE t.table # ""
      BY <3>1, <3>2, <3>4, OneOf
    <3> QED
      BY <3>3, <3>4
  <2> HIDE DEF on, chain, ok, es
  <2>9. IsSequence(on(t) \o chain(t)) /\ Range(on(t) \o chain(t)) = Range(on(t)) \cup Range(chain(t))
    BY <2>7, <2>8, ConcatSequence
  <2> QED
    BY <2>1, <2>7, <2>8, <2>9
<1>5. DOMAIN ns = DOMAIN a.triggers /\ \A i \in DOMAIN a.triggers : ns[i].id = TriggerId(a.triggers[i].name)
  BY DEF Node
<1>0. \A i \in DOMAIN a.triggers : ns[i].id.type = "Trigger"
  BY DEF Node, TriggerId, MakeId
<1> HIDE DEF ns, es, ok
<1>6. IsSequence(es)
  BY <1>2, <1>3, EachSequence
<1>7. /\ IsSequence(FlattenSeq(es))
      /\ \A e : e \in Range(FlattenSeq(es)) <=> \E i \in DOMAIN es : e \in Range(es[i])
  BY <1>3, <1>4, <1>6, FlattenSequence
<1>8. \A e \in Range(TriggerEdges(a)) : \E i \in DOMAIN a.triggers : ok(i, e)
  BY <1>1, <1>3, <1>4, <1>7
<1>9. \A i \in DOMAIN a.triggers : Named(TriggerNodes(a), TriggerId(a.triggers[i].name))
  BY <1>1, <1>5 DEF Named, Range
<1>10. \A n \in Range(TriggerNodes(a)) : n.id.type = "Trigger"
  BY <1>0, <1>1, <1>5 DEF Range
<1> QED
  BY <1>1, <1>7, <1>8, <1>9, <1>10 DEF ok

LEMMA ProceduresAre ==
    ASSUME NEW a \in SqlSource
    PROVE  /\ IsSequence(ProcEdges(a))
           /\ \A e \in Range(ProcEdges(a)) :
                 /\ e[2] \in {"INVOKES_PROC", "WRITES", "READS"}
                 /\ e[3].type \in {"StoredProcedure", "DB2Table"}
                 /\ Named(ProcNodes(a), e[1])
           /\ \A n \in Range(ProcNodes(a)) : n.id.type = "StoredProcedure"
<1> DEFINE ns == [i \in DOMAIN a.procs |-> Node(ProcId(a.procs[i].name), "sql_pl", Confidence(a.procs[i].partial))]
           others(q) == [k \in DOMAIN q.calls |->
                            IF Upper[q.calls[k]] # Upper[q.name] THEN <<q.calls[k]>> ELSE << >>]
           calls(q) == [k \in DOMAIN FlattenSeq(others(q)) |->
                           Edge(ProcId(q.name), "INVOKES_PROC", ProcId(FlattenSeq(others(q))[k]))]
           writes(q) == [k \in DOMAIN q.writes |-> Edge(ProcId(q.name), "WRITES", TableId(q.writes[k]))]
           reads(q) == [k \in DOMAIN q.reads |-> Edge(ProcId(q.name), "READS", TableId(q.reads[k]))]
           es == [i \in DOMAIN a.procs |-> calls(a.procs[i]) \o writes(a.procs[i]) \o reads(a.procs[i])]
           ok(i, e) == /\ e[2] \in {"INVOKES_PROC", "WRITES", "READS"}
                       /\ e[3].type \in {"StoredProcedure", "DB2Table"}
                       /\ e[1] = ProcId(a.procs[i].name)
<1>1. ProcNodes(a) = ns /\ ProcEdges(a) = FlattenSeq(es)
  BY DEF ProcNodes, ProcEdges, Each, Only
<1>2. /\ IsSequence(a.procs)
      /\ \A i \in DOMAIN a.procs :
            /\ IsSequence(a.procs[i].calls) /\ IsSequence(a.procs[i].reads)
            /\ IsSequence(a.procs[i].writes)
  BY SqlParts
<1>3. DOMAIN es = DOMAIN a.procs /\ es = [i \in DOMAIN a.procs |-> es[i]]
  OBVIOUS
<1>4. ASSUME NEW i \in DOMAIN a.procs
      PROVE  IsSequence(es[i]) /\ \A e \in Range(es[i]) : ok(i, e)
  <2> DEFINE q == a.procs[i]
             o == others(q)
             c == calls(q)
             w == writes(q)
             r == reads(q)
  <2>1. es[i] = c \o w \o r
    OBVIOUS
  <2>2. /\ DOMAIN o = DOMAIN q.calls /\ o = [k \in DOMAIN q.calls |-> o[k]]
        /\ \A k \in DOMAIN q.calls : o[k] = <<q.calls[k]>> \/ o[k] = << >>
    OBVIOUS
  <2>3. IsSequence(FlattenSeq(o))
    <3> HIDE DEF o
    <3> QED
      BY <1>2, <2>2, OnlySequence
  <2>4. DOMAIN c = DOMAIN FlattenSeq(o) /\ c = [k \in DOMAIN FlattenSeq(o) |-> c[k]]
    OBVIOUS
  <2>5. DOMAIN w = DOMAIN q.writes /\ w = [k \in DOMAIN q.writes |-> w[k]]
    OBVIOUS
  <2>6. DOMAIN r = DOMAIN q.reads /\ r = [k \in DOMAIN q.reads |-> r[k]]
    OBVIOUS
  <2>7. /\ \A k \in DOMAIN FlattenSeq(o) : ok(i, c[k])
        /\ \A k \in DOMAIN q.writes : ok(i, w[k])
        /\ \A k \in DOMAIN q.reads : ok(i, r[k])
    BY DEF Edge, ProcId, TableId, MakeId
  <2> HIDE DEF ok, es, c, w, r, o
  <2>8. IsSequence(c) /\ Range(c) = {c[k] : k \in DOMAIN FlattenSeq(o)}
    BY <2>3, <2>4, EachSequence
  <2>9. IsSequence(w) /\ Range(w) = {w[k] : k \in DOMAIN q.writes}
    BY <1>2, <2>5, EachSequence
  <2>10. IsSequence(r) /\ Range(r) = {r[k] : k \in DOMAIN q.reads}
    BY <1>2, <2>6, EachSequence
  <2>11. IsSequence(c \o w) /\ Range(c \o w) = Range(c) \cup Range(w)
    BY <2>8, <2>9, ConcatSequence
  <2>12. IsSequence(c \o w \o r) /\ Range(c \o w \o r) = Range(c) \cup Range(w) \cup Range(r)
    BY <2>10, <2>11, ConcatSequence
  <2> QED
    BY <2>1, <2>7, <2>8, <2>9, <2>10, <2>12
<1>5. DOMAIN ns = DOMAIN a.procs /\ \A i \in DOMAIN a.procs : ns[i].id = ProcId(a.procs[i].name)
  BY DEF Node
<1>0. \A i \in DOMAIN a.procs : ns[i].id.type = "StoredProcedure"
  BY DEF Node, ProcId, MakeId
<1> HIDE DEF ns, es, ok
<1>6. IsSequence(es)
  BY <1>2, <1>3, EachSequence
<1>7. /\ IsSequence(FlattenSeq(es))
      /\ \A e : e \in Range(FlattenSeq(es)) <=> \E i \in DOMAIN es : e \in Range(es[i])
  BY <1>3, <1>4, <1>6, FlattenSequence
<1>8. \A e \in Range(ProcEdges(a)) : \E i \in DOMAIN a.procs : ok(i, e)
  BY <1>1, <1>3, <1>4, <1>7
<1>9. \A i \in DOMAIN a.procs : Named(ProcNodes(a), ProcId(a.procs[i].name))
  BY <1>1, <1>5 DEF Named, Range
<1>10. \A n \in Range(ProcNodes(a)) : n.id.type = "StoredProcedure"
  BY <1>0, <1>1, <1>5 DEF Range
<1> QED
  BY <1>1, <1>7, <1>8, <1>9, <1>10 DEF ok

-----------------------------------------------------------------------------
(* JCL.  What has been read of a deck: the step at hand is a node, and so  *)
(* are a step and the program it runs.                                     *)
DeckOK(s) ==
    /\ IsSequence(s.nodes) /\ IsSequence(s.edges)
    /\ s.step # "" => Named(s.nodes, StepId(s.step))
    /\ Mentioned(s.nodes, s.edges)
    /\ \A e \in Range(s.edges) :
          /\ e[2] \in {"EXECUTES", "READS", "WRITES"} /\ Named(s.nodes, e[1])
          /\ e[2] = "EXECUTES" => e[3].type = "Program" /\ Named(s.nodes, e[3])
          /\ e[2] # "EXECUTES" => e[3].type = "Dataset"

IsDeck(s) == DOMAIN s = {"job", "step", "nodes", "edges"}

LEMMA AppendSequence ==
    ASSUME NEW s, IsSequence(s), NEW x
    PROVE  Append(s, x) = s \o <<x>> /\ s \o << >> = s
<1> DEFINE S == Range(s) \cup {x}
<1>1. s \in Seq(S) /\ x \in S
  BY SequenceIn
<1> QED
  BY <1>1, AppendIsConcat, ConcatEmptySeq

(* More nodes, and edges that start at the step at hand, leave a deck in   *)
(* order.                                                                  *)
Extended(s, t, ns, es) ==
    /\ IsSequence(ns) /\ IsSequence(es)
    /\ t.nodes = s.nodes \o ns /\ t.edges = s.edges \o es
    /\ t.step # "" => t.step = s.step \/ \E n \in Range(ns) : n.id = StepId(t.step)
    /\ \A n \in Range(ns) : n.id.type = "Program" =>
          \E e \in Range(es) : e[2] = "EXECUTES" /\ e[3] = n.id
    /\ \A e \in Range(es) :
          /\ e[2] \in {"EXECUTES", "READS", "WRITES"}
          /\ t.step # "" /\ e[1] = StepId(t.step)
          /\ e[2] = "EXECUTES" => e[3].type = "Program" /\ \E n \in Range(ns) : n.id = e[3]
          /\ e[2] # "EXECUTES" => e[3].type = "Dataset"

LEMMA DeckGrows ==
    ASSUME NEW s, DeckOK(s), NEW t, NEW ns, NEW es, Extended(s, t, ns, es)
    PROVE  DeckOK(t)
<1>0. IsSequence(s.nodes) /\ IsSequence(s.edges) /\ Mentioned(s.nodes, s.edges)
  BY DEF DeckOK
<1>1. /\ IsSequence(t.nodes) /\ Range(t.nodes) = Range(s.nodes) \cup Range(ns)
      /\ IsSequence(t.edges) /\ Range(t.edges) = Range(s.edges) \cup Range(es)
  <2>1. /\ IsSequence(ns) /\ IsSequence(es)
        /\ t.nodes = s.nodes \o ns /\ t.edges = s.edges \o es
    BY DEF Extended
  <2> QED
    BY <1>0, <2>1, ConcatSequence
<1>2. \A id : Named(s.nodes, id) \/ (\E n \in Range(ns) : n.id = id) => Named(t.nodes, id)
  BY <1>1 DEF Named
<1>3. t.step # "" => Named(t.nodes, StepId(t.step))
  BY <1>2 DEF DeckOK, Extended
<1>4. \A e \in Range(s.edges) :
         /\ e[2] \in {"EXECUTES", "READS", "WRITES"} /\ Named(t.nodes, e[1])
         /\ e[2] = "EXECUTES" => e[3].type = "Program" /\ Named(t.nodes, e[3])
         /\ e[2] # "EXECUTES" => e[3].type = "Dataset"
  BY <1>2 DEF DeckOK
<1>5. \A e \in Range(es) :
         /\ e[2] \in {"EXECUTES", "READS", "WRITES"} /\ Named(t.nodes, e[1])
         /\ e[2] = "EXECUTES" => e[3].type = "Program" /\ Named(t.nodes, e[3])
         /\ e[2] # "EXECUTES" => e[3].type = "Dataset"
  BY <1>2, <1>3 DEF Extended
<1>6. \A name : StepId(name).type = "JCLStep"
  BY DEF StepId, MakeId
<1>7. Mentioned(t.nodes, t.edges)
  <2> SUFFICES ASSUME NEW n \in Range(t.nodes), n.id.type = "Program", n.by # "cobol"
               PROVE  \E e \in Range(t.edges) : e[2] \in {"CALLS", "EXECUTES"} /\ e[3] = n.id /\ e[1] # n.id
    BY DEF Mentioned
  <2>1. CASE n \in Range(s.nodes)
    BY <1>0, <1>1, <2>1 DEF Mentioned
  <2>2. CASE n \in Range(ns)
    <3>1. PICK e \in Range(es) : e[2] = "EXECUTES" /\ e[3] = n.id
      BY <2>2 DEF Extended
    <3>2. e[1].type = "JCLStep"
      <4>1. e[1] = StepId(t.step)
        BY DEF Extended
      <4> QED
        BY <1>6, <4>1
    <3>3. e[1] # n.id
      BY <3>2
    <3>4. e \in Range(t.edges)
      BY <1>1
    <3> QED
      BY <3>1, <3>3, <3>4
  <2> QED
    BY <1>1, <2>1, <2>2
<1> QED
  BY <1>1, <1>3, <1>4, <1>5, <1>7 DEF DeckOK

LEMMA JobCardKeeps ==
    ASSUME NEW s, IsDeck(s), DeckOK(s), NEW c
    PROVE  IsDeck(JobCard(s, c)) /\ DeckOK(JobCard(s, c))
<1> DEFINE n == Node(MakeId("JCLJob", "", OrElse(c.name, "UNKNOWN")), "jcl", "full")
           t == JobCard(s, c)
<1>1. /\ DOMAIN t = DOMAIN s /\ t.nodes = Append(s.nodes, n)
      /\ t.edges = s.edges /\ t.step = "" /\ n.id.type # "Program"
  BY DEF JobCard, IsDeck, Node, MakeId
<1> HIDE DEF t, n
<1>2. t.nodes = s.nodes \o <<n>> /\ t.edges = s.edges \o << >>
  BY <1>1, AppendSequence DEF DeckOK
<1>3. IsSequence(<<n>>) /\ Range(<<n>>) = {n} /\ IsSequence(<< >>) /\ Range(<< >>) = {}
  BY OneOf, NoneOf
<1>4. DeckOK(t)
  <2>1. Extended(s, t, <<n>>, << >>)
    BY <1>1, <1>2, <1>3 DEF Extended
  <2> QED
    BY <2>1, DeckGrows
<1> QED
  BY <1>1, <1>4 DEF t, IsDeck

LEMMA AnomalyKeeps ==
    ASSUME NEW s, IsDeck(s), DeckOK(s), NEW c
    PROVE  IsDeck(Anomaly(s, c)) /\ DeckOK(Anomaly(s, c))
<1> DEFINE n == Node(StepId(OrElse(c.name, "ANOMALY")), "jcl", "partial")
           t == Anomaly(s, c)
<1>1. /\ DOMAIN t = DOMAIN s /\ t.nodes = Append(s.nodes, n)
      /\ t.edges = s.edges /\ t.step = s.step /\ n.id.type # "Program"
  BY DEF Anomaly, IsDeck, Node, StepId, MakeId
<1> HIDE DEF t, n
<1>2. t.nodes = s.nodes \o <<n>> /\ t.edges = s.edges \o << >>
  BY <1>1, AppendSequence DEF DeckOK
<1>3. IsSequence(<<n>>) /\ Range(<<n>>) = {n} /\ IsSequence(<< >>) /\ Range(<< >>) = {}
  BY OneOf, NoneOf
<1>4. DeckOK(t)
  <2>1. Extended(s, t, <<n>>, << >>)
    BY <1>1, <1>2, <1>3 DEF Extended
  <2> QED
    BY <2>1, DeckGrows
<1> QED
  BY <1>1, <1>4 DEF t, IsDeck

LEMMA ExecCardKeeps ==
    ASSUME NEW s, IsDeck(s), DeckOK(s), NEW c
    PROVE  IsDeck(ExecCard(s, c)) /\ DeckOK(ExecCard(s, c))
<1> DEFINE name == OrElse(c.name, "ANONSTEP")
           this == [Node(StepId(name), "jcl", "full") EXCEPT !.job = s.job]
           program == Node(ProgramId(c.program), "exec", "none")
           e0 == Edge(StepId(name), "EXECUTES", ProgramId(c.program))
           ns == IF c.program # "" THEN <<this, program>> ELSE <<this>>
           es == IF c.program # "" THEN <<e0>> ELSE << >>
           t == ExecCard(s, c)
<1>1. /\ DOMAIN t = DOMAIN s /\ t.nodes = s.nodes \o ns /\ t.edges = s.edges \o es /\ t.step = name
  BY DEF ExecCard, IsDeck
<1>2. name # ""
  BY DEF OrElse
<1>3. this.id = StepId(name) /\ program.id = ProgramId(c.program) /\ this.id.type # "Program"
  BY DEF Node, StepId, MakeId
<1>4. e0[1] = StepId(name) /\ e0[2] = "EXECUTES" /\ e0[3] = ProgramId(c.program) /\ e0[3].type = "Program"
  BY DEF Edge, ProgramId, MakeId
<1> HIDE DEF t, name, this, program, e0
<1>5. /\ IsSequence(ns) /\ this \in Range(ns)
      /\ c.program # "" => program \in Range(ns)
      /\ \A n \in Range(ns) : n = this \/ (n = program /\ c.program # "")
  <2>1. CASE c.program # ""
    <3>1. ns = <<this, program>> /\ IsSequence(<<this, program>>) /\ Range(<<this, program>>) = {this, program}
      BY <2>1, TwoOf
    <3> HIDE DEF ns
    <3> QED
      BY <2>1, <3>1
  <2>2. CASE c.program = ""
    <3>1. ns = <<this>> /\ IsSequence(<<this>>) /\ Range(<<this>>) = {this}
      BY <2>2, OneOf
    <3> HIDE DEF ns
    <3> QED
      BY <2>2, <3>1
  <2> QED
    BY <2>1, <2>2
<1>6. /\ IsSequence(es) /\ \A e \in Range(es) : e = e0 /\ c.program # ""
      /\ c.program # "" => e0 \in Range(es)
  BY OneOf, NoneOf
<1> HIDE DEF ns, es
<1>7. DeckOK(t)
  <2>1. \E n \in Range(ns) : n.id = StepId(t.step)
    BY <1>1, <1>3, <1>5
  <2>2. \A e \in Range(es) :
          /\ e[2] \in {"EXECUTES", "READS", "WRITES"}
          /\ t.step # "" /\ e[1] = StepId(t.step)
          /\ e[2] = "EXECUTES" => e[3].type = "Program" /\ \E n \in Range(ns) : n.id = e[3]
          /\ e[2] # "EXECUTES" => e[3].type = "Dataset"
    BY <1>1, <1>2, <1>3, <1>4, <1>5, <1>6
  <2>3. \A n \in Range(ns) : n.id.type = "Program" => \E e \in Range(es) : e[2] = "EXECUTES" /\ e[3] = n.id
    BY <1>3, <1>4, <1>5, <1>6
  <2> QED
    <3>1. Extended(s, t, ns, es)
      BY <1>1, <1>5, <1>6, <2>1, <2>2, <2>3 DEF Extended
    <3> QED
      BY <3>1, DeckGrows
<1> QED
  BY <1>1, <1>7 DEF t, IsDeck

LEMMA DDCardKeeps ==
    ASSUME NEW s, IsDeck(s), DeckOK(s), NEW c
    PROVE  IsDeck(DDCard(s, c)) /\ DeckOK(DDCard(s, c))
<1> SUFFICES ASSUME s.step # "" /\ c.dsn # "" PROVE IsDeck(DDCard(s, c)) /\ DeckOK(DDCard(s, c))
  BY DEF DDCard
<1> DEFINE reads == c.disp \in {"SHR", "OLD"} \/ (c.disp = "MOD" /\ c.delete)
           writes == c.disp \in {"NEW", "MOD"}
           data == DatasetId(c.dsn)
           seen == \E i \in DOMAIN s.nodes : s.nodes[i].id = data
           r == Edge(StepId(s.step), "READS", data)
           w == Edge(StepId(s.step), "WRITES", data)
           n0 == Node(data, "jcl", "full")
           ns == IF seen THEN << >> ELSE <<n0>>
           rs == IF reads THEN <<r>> ELSE << >>
           ws == IF writes THEN <<w>> ELSE << >>
           t == DDCard(s, c)
<1>1. /\ DOMAIN t = DOMAIN s /\ t.step = s.step /\ t.nodes = s.nodes \o ns
      /\ t.edges = s.edges \o rs \o ws
  <2>1. t = [s EXCEPT !.nodes = @ \o ns, !.edges = @ \o rs \o ws]
    BY DEF DDCard
  <2> HIDE DEF t, ns, rs, ws
  <2> QED
    BY <2>1 DEF IsDeck
<1>2. /\ r[1] = StepId(s.step) /\ r[2] = "READS" /\ r[3].type = "Dataset"
      /\ w[1] = StepId(s.step) /\ w[2] = "WRITES" /\ w[3].type = "Dataset"
      /\ n0.id.type = "Dataset"
  BY DEF Edge, Node, DatasetId, MakeId
<1> HIDE DEF t, r, w, n0, seen, reads, writes
<1>3. IsSequence(ns) /\ Range(ns) \subseteq {n0}
  BY OneOf, NoneOf
<1>4. IsSequence(rs) /\ IsSequence(ws) /\ Range(rs) \subseteq {r} /\ Range(ws) \subseteq {w}
  BY OneOf, NoneOf
<1> HIDE DEF ns, rs, ws
<1> DEFINE m == [step |-> s.step, nodes |-> s.nodes \o ns, edges |-> s.edges \o rs]
<1>5. m.step = s.step /\ m.nodes = s.nodes \o ns /\ m.edges = s.edges \o rs
  OBVIOUS
<1> HIDE DEF m
<1>6. DeckOK(m)
  <2>1. \A e \in Range(rs) :
          /\ e[2] \in {"EXECUTES", "READS", "WRITES"}
          /\ m.step # "" /\ e[1] = StepId(m.step)
          /\ e[2] = "EXECUTES" => e[3].type = "Program" /\ \E n \in Range(ns) : n.id = e[3]
          /\ e[2] # "EXECUTES" => e[3].type = "Dataset"
    BY <1>2, <1>4, <1>5
  <2>2. \A n \in Range(ns) : n.id.type # "Program"
    BY <1>2, <1>3
  <2>3. Extended(s, m, ns, rs)
    BY <1>3, <1>4, <1>5, <2>1, <2>2 DEF Extended
  <2> QED
    BY <2>3, DeckGrows
<1>7. DeckOK(t)
  <2>1. \A e \in Range(ws) :
          /\ e[2] \in {"EXECUTES", "READS", "WRITES"}
          /\ t.step # "" /\ e[1] = StepId(t.step)
          /\ e[2] = "EXECUTES" => e[3].type = "Program" /\ \E n \in Range(<< >>) : n.id = e[3]
          /\ e[2] # "EXECUTES" => e[3].type = "Dataset"
    BY <1>1, <1>2, <1>4
  <2>2. t.nodes = m.nodes \o << >> /\ t.edges = m.edges \o ws /\ t.step = m.step
    <3>1. IsSequence(m.nodes)
      BY <1>6 DEF DeckOK
    <3>2. m.nodes \o << >> = m.nodes
      BY <3>1, AppendSequence
    <3> QED
      BY <1>1, <1>5, <3>2
  <2> QED
    <3>1. Extended(m, t, << >>, ws)
      BY <1>4, <2>1, <2>2, NoneOf DEF Extended
    <3> QED
      BY <1>6, <3>1, DeckGrows
<1> QED
  BY <1>1, <1>7 DEF t, IsDeck

LEMMA CardKeeps ==
    ASSUME NEW s, IsDeck(s), DeckOK(s), NEW c \in Card
    PROVE  IsDeck(ReadCard(s, c)) /\ DeckOK(ReadCard(s, c))
<1>1. c.anomaly \in BOOLEAN /\ c.verb \in {"JOB", "EXEC", "DD", "other"}
  BY DEF Card
<1>2. ReadCard(s, c) \in {Anomaly(s, c), JobCard(s, c), ExecCard(s, c), DDCard(s, c), s}
  BY <1>1 DEF ReadCard
<1> QED
  BY <1>2, JobCardKeeps, AnomalyKeeps, ExecCardKeeps, DDCardKeeps, Zenon

(* The programs among the nodes of a deck are those its cards execute.     *)
LEMMA CardPrograms ==
    ASSUME NEW s, IsDeck(s), DeckOK(s), NEW c \in Card,
           NEW n \in Range(ReadCard(s, c).nodes), n.id.type = "Program"
    PROVE  n \in Range(s.nodes) \/ (n.by = "exec" /\ n.id = ProgramId(c.program))
<1> DEFINE job == Node(MakeId("JCLJob", "", OrElse(c.name, "UNKNOWN")), "jcl", "full")
           odd == Node(StepId(OrElse(c.name, "ANOMALY")), "jcl", "partial")
           this == [Node(StepId(OrElse(c.name, "ANONSTEP")), "jcl", "full") EXCEPT !.job = s.job]
           program == Node(ProgramId(c.program), "exec", "none")
           data == Node(DatasetId(c.dsn), "jcl", "full")
<1>1. /\ job.id.type # "Program" /\ odd.id.type # "Program" /\ this.id.type # "Program"
      /\ data.id.type # "Program"
      /\ program.by = "exec" /\ program.id = ProgramId(c.program)
  BY DEF Node, StepId, DatasetId, MakeId
<1>2. PICK x : /\ ReadCard(s, c).nodes = s.nodes \o x
               /\ x \in {<< >>, <<job>>, <<odd>>, <<this>>, <<this, program>>, <<data>>}
  <2>0. c.anomaly \in BOOLEAN /\ c.verb \in {"JOB", "EXEC", "DD", "other"} /\ IsSequence(s.nodes)
    BY DEF Card, DeckOK
  <2>1. CASE ReadCard(s, c) = Anomaly(s, c)
    <3>1. Anomaly(s, c).nodes = Append(s.nodes, odd)
      BY DEF Anomaly, IsDeck
    <3> HIDE DEF odd
    <3> QED
      BY <2>0, <2>1, <3>1, AppendSequence
  <2>2. CASE ReadCard(s, c) = JobCard(s, c)
    <3>1. JobCard(s, c).nodes = Append(s.nodes, job)
      BY DEF JobCard, IsDeck
    <3> HIDE DEF job
    <3> QED
      BY <2>0, <2>2, <3>1, AppendSequence
  <2>3. CASE ReadCard(s, c) = ExecCard(s, c)
    <3>1. ExecCard(s, c).nodes = s.nodes \o IF c.program # "" THEN <<this, program>> ELSE <<this>>
      BY DEF ExecCard, IsDeck
    <3> HIDE DEF this, program
    <3> QED
      BY <2>3, <3>1
  <2>4. CASE ReadCard(s, c) = DDCard(s, c)
    <3>1. \/ DDCard(s, c).nodes = s.nodes
          \/ DDCard(s, c).nodes = s.nodes \o << >>
          \/ DDCard(s, c).nodes = s.nodes \o <<data>>
      BY DEF DDCard, IsDeck
    <3>2. s.nodes \o << >> = s.nodes
      BY <2>0, AppendSequence
    <3> HIDE DEF data
    <3> QED
      BY <2>4, <3>1, <3>2
  <2>5. CASE ReadCard(s, c) = s
    BY <2>0, <2>5, AppendSequence
  <2>6. ReadCard(s, c) \in {Anomaly(s, c), JobCard(s, c), ExecCard(s, c), DDCard(s, c), s}
    BY <2>0 DEF ReadCard
  <2> QED
    BY <2>1, <2>2, <2>3, <2>4, <2>5, <2>6
<1> HIDE DEF job, odd, this, program, data
<1>3. IsSequence(x) /\ Range(x) \subseteq {job, odd, this, program, data}
  BY <1>2, OneOf, TwoOf, NoneOf
<1>4. IsSequence(s.nodes)
  BY DEF DeckOK
<1>5. n \in Range(s.nodes) \cup Range(x)
  BY <1>2, <1>3, <1>4, ConcatSequence
<1> QED
  BY <1>1, <1>3, <1>5

(* Each program among the nodes comes from one of the cards.               *)
FromCards(s, cards) ==
    \A n \in Range(s.nodes) : n.id.type = "Program" =>
        n.by = "exec" /\ \E i \in DOMAIN cards : n.id = ProgramId(cards[i].program)

NewDeck == [job |-> "", step |-> "", nodes |-> << >>, edges |-> << >>]

IsReading(f, cards, n) ==
    f = [i \in 0 .. n |-> IF i = 0 THEN NewDeck ELSE ReadCard(f[i - 1], cards[i])]

(* A deck of any length can be read card by card.                          *)
LEMMA ReadingExists ==
    ASSUME NEW cards
    PROVE  \A n \in Nat : \E f : IsReading(f, cards, n)
<1> DEFINE T == {n \in Nat : ~ \E f : IsReading(f, cards, n)}
<1> SUFFICES ASSUME T # {} PROVE FALSE
  OBVIOUS
<1>1. PICK n \in T : \A m \in T : ~(m < n)
  BY LeastNumber
<1>2. n \in Nat /\ ~ \E f : IsReading(f, cards, n)
  BY <1>1
<1>3. CASE n = 0
  <2> DEFINE g == [i \in 0 .. 0 |-> NewDeck]
  <2>1. \A i \in 0 .. 0 : i = 0
    OBVIOUS
  <2>2. IsReading(g, cards, 0)
    BY <2>1 DEF IsReading
  <2> QED
    BY <1>2, <1>3, <2>2
<1>4. CASE n # 0
  <2>1. n - 1 \in Nat /\ n - 1 < n
    BY <1>2, <1>4
  <2>2. PICK f : IsReading(f, cards, n - 1)
    BY <1>1, <2>1
  <2> DEFINE g == [i \in 0 .. n |-> IF i = n THEN ReadCard(f[n - 1], cards[n]) ELSE f[i]]
  <2>3. \A i \in 0 .. n - 1 : f[i] = IF i = 0 THEN NewDeck ELSE ReadCard(f[i - 1], cards[i])
    BY <2>2 DEF IsReading
  <2>4. \A i \in 0 .. n : g[i] = IF i = 0 THEN NewDeck ELSE ReadCard(g[i - 1], cards[i])
    <3> SUFFICES ASSUME NEW i \in 0 .. n
                 PROVE  g[i] = IF i = 0 THEN NewDeck ELSE ReadCard(g[i - 1], cards[i])
      OBVIOUS
    <3>1. CASE i = n
      <4>1. n - 1 \in 0 .. n /\ n - 1 # n /\ g[n - 1] = f[n - 1]
        BY <1>2, <2>1
      <4> QED
        BY <1>2, <1>4, <3>1, <4>1
    <3>2. CASE i # n
      <4>1. i \in 0 .. n - 1 /\ g[i] = f[i]
        BY <1>2, <3>2
      <4>2. i # 0 => i - 1 \in 0 .. n /\ i - 1 # n /\ g[i - 1] = f[i - 1]
        BY <1>2, <4>1
      <4> QED
        BY <2>3, <4>1, <4>2
    <3> QED
      BY <3>1, <3>2
  <2>5. DOMAIN g = 0 .. n /\ g = [i \in 0 .. n |-> g[i]]
    OBVIOUS
  <2> HIDE DEF g
  <2>6. IsReading(g, cards, n)
    BY <2>4, <2>5 DEF IsReading
  <2> QED
    BY <1>2, <2>6
<1> QED
  BY <1>3, <1>4

LEMMA DeckIsOK ==
    ASSUME NEW a \in JclSource
    PROVE  DeckOK(Deck(a)) /\ FromCards(Deck(a), a.cards)
<1>1. a.cards \in Seq(Card)
  BY DEF JclSource
<1> DEFINE n == Len(a.cards)
<1>2. n \in Nat /\ \A i \in 1 .. n : a.cards[i] \in Card
  BY <1>1
<1>3. PICK f : IsReading(f, a.cards, n) /\ Deck(a) = f[n]
  <2>1. \E f : IsReading(f, a.cards, n)
    BY <1>2, ReadingExists
  <2> QED
    BY <2>1 DEF Deck, IsReading, NewDeck
<1>0. DOMAIN a.cards = 1 .. n
  BY <1>1
<1> HIDE DEF n
<1>4. \A i \in 0 .. n : f[i] = IF i = 0 THEN NewDeck ELSE ReadCard(f[i - 1], a.cards[i])
  BY <1>3 DEF IsReading
<1> DEFINE good(i) == IsDeck(f[i]) /\ DeckOK(f[i]) /\ FromCards(f[i], a.cards)
           T == {i \in 0 .. n : ~good(i)}
<1>5. T = {}
  <2> SUFFICES ASSUME T # {} PROVE FALSE
    OBVIOUS
  <2>1. T \subseteq Nat
    BY <1>2
  <2>2. PICK i \in T : \A m \in T : ~(m < i)
    BY <2>1, LeastNumber
  <2>3. i \in 0 .. n /\ ~good(i)
    BY <2>2
  <2>4. CASE i = 0
    <3>1. f[0] = NewDeck
      BY <1>2, <1>4
    <3>2. IsDeck(NewDeck) /\ DeckOK(NewDeck) /\ FromCards(NewDeck, a.cards)
      BY NoneOf DEF IsDeck, DeckOK, NewDeck, Mentioned, FromCards
    <3> QED
      BY <2>3, <2>4, <3>1, <3>2
  <2>5. CASE i # 0
    <3>1. i - 1 \in 0 .. n /\ i - 1 < i /\ i \in 1 .. n
      BY <1>2, <2>3, <2>5
    <3>2. good(i - 1)
      BY <2>2, <3>1
    <3>3. f[i] = ReadCard(f[i - 1], a.cards[i]) /\ a.cards[i] \in Card
      BY <1>2, <1>4, <2>3, <2>5, <3>1
    <3>4. i \in DOMAIN a.cards
      BY <1>0, <3>1
    <3>5. FromCards(f[i], a.cards)
      <4> SUFFICES ASSUME NEW m \in Range(f[i].nodes), m.id.type = "Program"
                   PROVE  m.by = "exec" /\ \E k \in DOMAIN a.cards : m.id = ProgramId(a.cards[k].program)
        BY DEF FromCards
      <4>1. m \in Range(f[i - 1].nodes) \/ (m.by = "exec" /\ m.id = ProgramId(a.cards[i].program))
        BY <3>2, <3>3, CardPrograms
      <4> QED
        BY <3>2, <3>4, <4>1 DEF FromCards
    <3> QED
      BY <2>3, <3>2, <3>3, <3>5, CardKeeps
  <2> QED
    BY <2>4, <2>5
<1>6. good(n)
  BY <1>2, <1>5
<1> QED
  BY <1>3, <1>6

-----------------------------------------------------------------------------
(* The results for a source.                                               *)

ScreensResult(a) == Returned(<< >>, ScreenEdges(a))
CobolResult(a) == Returned(CobolNodes(a), CobolEdges(a))
VsamResult(a) == Returned(VsamNodes(a), VsamEdges(a))
DdlResult(a) == Returned(DdlNodes(a), DdlEdges(a))
ProcResult(a) == Returned(ProcNodes(a), ProcEdges(a))
TriggerResult(a) == Returned(TriggerNodes(a), TriggerEdges(a))

LEMMA CobolResults ==
    ASSUME NEW a \in CobolSource
    PROVE  /\ {CobolResult(a), VsamResult(a)} \subseteq Range(Results(a))
           /\ Range(Results(a)) \subseteq {ScreensResult(a), CobolResult(a), VsamResult(a)}
<1> DEFINE s == IF a.maps = << >> THEN << >> ELSE <<ScreensResult(a)>>
           t == <<CobolResult(a), VsamResult(a)>>
<1>1. a.kind = "cobol"
  BY DEF CobolSource
<1>2. Results(a) = s \o t
  BY <1>1 DEF Results, ScreensResult, CobolResult, VsamResult
<1>3. IsSequence(s) /\ Range(s) \subseteq {ScreensResult(a)}
  BY OneOf, NoneOf
<1>4. IsSequence(t) /\ Range(t) = {CobolResult(a), VsamResult(a)}
  BY TwoOf
<1> HIDE DEF s, t
<1> QED
  BY <1>2, <1>3, <1>4, ConcatSequence

LEMMA SqlResults ==
    ASSUME NEW a \in SqlSource
    PROVE  Range(Results(a)) \subseteq {DdlResult(a), ProcResult(a), TriggerResult(a)}
<1> DEFINE s == IF <<a.tables, a.indexes, a.views, a.procs, a.triggers>> = << << >>, << >>, << >>, << >>, << >> >>
                THEN << >> ELSE <<DdlResult(a)>>
           t == IF a.procs = << >> THEN << >> ELSE <<ProcResult(a)>>
           u == IF a.triggers = << >> THEN << >> ELSE <<TriggerResult(a)>>
<1>1. a.kind = "sql"
  BY DEF SqlSource
<1>2. Results(a) = s \o t \o u
  BY <1>1 DEF Results, DdlResult, ProcResult, TriggerResult
<1>3. IsSequence(s) /\ Range(s) \subseteq {DdlResult(a)}
  BY OneOf, NoneOf
<1>4. IsSequence(t) /\ Range(t) \subseteq {ProcResult(a)}
  BY OneOf, NoneOf
<1>5. IsSequence(u) /\ Range(u) \subseteq {TriggerResult(a)}
  BY OneOf, NoneOf
<1> HIDE DEF s, t, u
<1>6. IsSequence(s \o t) /\ Range(s \o t) = Range(s) \cup Range(t)
  BY <1>3, <1>4, ConcatSequence
<1>7. Range(s \o t \o u) = Range(s) \cup Range(t) \cup Range(u)
  BY <1>5, <1>6, ConcatSequence
<1> QED
  BY <1>2, <1>3, <1>4, <1>5, <1>7

LEMMA CobolResultFits ==
    ASSUME NEW a \in CobolSource
    PROVE  Fits(CobolResult(a)) /\ StartIn(CobolEdges(a), CobolNodes(a))
<1> DEFINE ns == CobolNodes(a)
           program == ProgramId(ProgramName(a))
<1>1. /\ Named(ns, program)
      /\ \A i \in DOMAIN ParasOf(a) : Named(ns, ParaId(a, ParasOf(a)[i].name))
      /\ \A i \in DOMAIN a.calls : Named(ns, ProgramId(Upper[a.calls[i]]))
  BY CobolNodesNamed
<1>2. \A name : ProgramId(name).type = "Program"
  BY DEF ProgramId, MakeId
<1> SUFFICES ASSUME NEW e \in Range(CobolEdges(a))
             PROVE  /\ Named(ns, e[1])
                    /\ e[2] \in {"CALLS", "EXECUTES"} => Named(ns, e[1]) /\ Named(ns, e[3])
                    /\ e[2] \in {"CALLS", "EXECUTES"} <=> e[3].type = "Program"
                    /\ e[2] = "CALLS" => e[1].type = "Program"
                    /\ e[2] = "PERFORMS" => e[3].type = "Paragraph"
  BY DEF Fits, StartIn, CobolResult, Returned
<1>3. CASE e \in Range(FlowEdges(a))
  <2>1. /\ e[2] = "PERFORMS" /\ e[3].type = "Paragraph"
        /\ \/ e[1] = program
           \/ \E i \in DOMAIN ParasOf(a) : e[1] = ParaId(a, ParasOf(a)[i].name)
    BY <1>3, Flow
  <2>2. Named(ns, e[1])
    BY <1>1, <2>1
  <2> QED
    BY <2>1, <2>2
<1>4. CASE /\ e[1] = program /\ e[2] = "CALLS"
           /\ \E i \in DOMAIN a.calls : e[3] = ProgramId(Upper[a.calls[i]])
  BY <1>1, <1>2, <1>4
<1>5. CASE /\ e[1] = program /\ e[2] \in {"INCLUDES", "READS", "WRITES"}
           /\ e[3].type \in {"Copybook", "DB2Table"}
  BY <1>1, <1>5
<1> QED
  BY <1>3, <1>4, <1>5, CobolEdgesAre

(* Each result an extractor returns fits together.                         *)
LEMMA ResultsFit ==
    ASSUME NEW a \in Artifact, NEW r \in Range(Results(a))
    PROVE  Fits(r)
<1>1. CASE a \in CobolSource
  <2>1. CASE r = ScreensResult(a)
    <3>1. \A e \in Range(r.edges) : e[2] = "RENDERS_ON" /\ e[3].type = "CICSMap"
      BY <1>1, <2>1, Screens DEF ScreensResult, Returned
    <3> QED
      BY <3>1, FitsOther
  <2>2. CASE r = CobolResult(a)
    BY <1>1, <2>2, CobolResultFits
  <2>3. CASE r = VsamResult(a)
    <3>1. \A e \in Range(r.edges) : e[2] \in {"READS", "WRITES"} /\ e[3].type \in {"VSAMDataset", "Dataset"}
      BY <1>1, <2>3, DataSets DEF VsamResult, Returned
    <3> QED
      BY <3>1, FitsOther
  <2> QED
    BY <1>1, <2>1, <2>2, <2>3, CobolResults
<1>2. CASE a \in Mapsets \cup Copybook
  <2>1. a.kind \in {"bms", "copybook"}
    BY <1>2 DEF Mapsets, Copybook
  <2>2. PICK ns : Results(a) = <<Returned(ns, << >>)>>
    BY <2>1 DEF Results
  <2>3. r.edges = << >>
    BY <2>2, OneOf DEF Returned
  <2> QED
    BY <2>3, NoneOf, FitsOther
<1>3. CASE a \in JclSource
  <2>1. a.kind = "jcl"
    BY <1>3 DEF JclSource
  <2>2. Results(a) = <<Returned(Deck(a).nodes, Deck(a).edges)>>
    BY <2>1 DEF Results
  <2>3. r.nodes = Deck(a).nodes /\ r.edges = Deck(a).edges
    BY <2>2, OneOf DEF Returned
  <2> QED
    <3>1. DeckOK(Deck(a))
      BY <1>3, DeckIsOK
    <3> QED
      BY <2>3, <3>1 DEF DeckOK, Fits
<1>4. CASE a \in SqlSource
  <2>1. CASE r = DdlResult(a)
    <3>1. \A e \in Range(r.edges) : e[2] \in {"CASCADES_TO", "ABSTRACTS"} /\ e[3].type = "DB2Table"
      BY <1>4, <2>1, DdlEdgesAre DEF DdlResult, Returned
    <3> QED
      BY <3>1, FitsOther
  <2>2. CASE r = ProcResult(a)
    <3>1. \A e \in Range(r.edges) : /\ e[2] \in {"INVOKES_PROC", "WRITES", "READS"}
                                    /\ e[3].type \in {"StoredProcedure", "DB2Table"}
      BY <1>4, <2>2, ProceduresAre DEF ProcResult, Returned
    <3> QED
      BY <3>1, FitsOther
  <2>3. CASE r = TriggerResult(a)
    <3>1. \A e \in Range(r.edges) : /\ e[2] \in {"FIRES_ON", "TRIGGERS_TRIGGER"}
                                    /\ e[3].type \in {"DB2Table", "Trigger"}
      BY <1>4, <2>3, TriggersAre DEF TriggerResult, Returned
    <3> QED
      BY <3>1, FitsOther
  <2> QED
    BY <1>4, <2>1, <2>2, <2>3, SqlResults
<1> QED
  BY <1>1, <1>2, <1>3, <1>4 DEF Artifact

(* Each edge starts at a node that some extractor returns for the same     *)
(* source, unless its own extractor read another name in it.               *)
LEMMA ResultsStart ==
    ASSUME NEW a \in Artifact, NEW r \in Range(Results(a)), NEW e \in Range(r.edges)
    PROVE  \/ \E q \in Range(Results(a)) : Named(q.nodes, e[1])
           \/ a.kind = "cobol" /\ e \in MisreadIn(a)
<1>1. CASE a \in CobolSource
  <2> DEFINE q == CobolResult(a)
  <2>1. a.kind = "cobol"
    BY <1>1 DEF CobolSource
  <2>2. q \in Range(Results(a)) /\ Named(q.nodes, ProgramId(ProgramName(a)))
    BY <1>1, CobolResults, CobolNodesNamed DEF CobolResult, Returned
  <2>3. CASE r = ScreensResult(a)
    <3>1. e \in Range(ScreenEdges(a)) /\ e[1] = ProgramId(ScreenProgram(a))
      BY <1>1, <2>3, Screens DEF ScreensResult, Returned
    <3>2. CASE ScreenProgram(a) # ProgramName(a)
      <4>1. e \in ToSet(ScreenEdges(a))
        BY <3>1 DEF ToSet, Range
      <4> QED
        BY <2>1, <3>2, <4>1 DEF MisreadIn
    <3>3. CASE ScreenProgram(a) = ProgramName(a)
      BY <2>2, <3>1, <3>3
    <3> QED
      BY <3>2, <3>3
  <2>4. CASE r = CobolResult(a)
    <3>1. Named(r.nodes, e[1])
      BY <1>1, <2>4, CobolResultFits DEF StartIn, CobolResult, Returned
    <3> QED
      BY <3>1
  <2>5. CASE r = VsamResult(a)
    <3>1. e \in Range(VsamEdges(a)) /\ e[1] = ProgramId(FileProgram(a))
      BY <1>1, <2>5, DataSets DEF VsamResult, Returned
    <3>2. CASE FileProgram(a) # ProgramName(a)
      <4>1. e \in ToSet(VsamEdges(a))
        BY <3>1 DEF ToSet, Range
      <4> QED
        BY <2>1, <3>2, <4>1 DEF MisreadIn
    <3>3. CASE FileProgram(a) = ProgramName(a)
      BY <2>2, <3>1, <3>3
    <3> QED
      BY <3>2, <3>3
  <2> QED
    BY <1>1, <2>3, <2>4, <2>5, CobolResults
<1>2. CASE a \in Mapsets \cup Copybook
  <2>1. a.kind \in {"bms", "copybook"}
    BY <1>2 DEF Mapsets, Copybook
  <2>2. PICK ns : Results(a) = <<Returned(ns, << >>)>>
    BY <2>1 DEF Results
  <2>3. r.edges = << >>
    BY <2>2, OneOf DEF Returned
  <2> QED
    BY <2>3, NoneOf
<1>3. CASE a \in JclSource
  <2>1. a.kind = "jcl"
    BY <1>3 DEF JclSource
  <2>2. Results(a) = <<Returned(Deck(a).nodes, Deck(a).edges)>>
    BY <2>1 DEF Results
  <2>3. r.nodes = Deck(a).nodes /\ r.edges = Deck(a).edges
    BY <2>2, OneOf DEF Returned
  <2> QED
    BY <1>3, <2>3, DeckIsOK DEF DeckOK
<1>4. CASE a \in SqlSource
  <2>1. Named(r.nodes, e[1])
    <3>1. CASE r = DdlResult(a)
      <4>1. \/ \E i \in DOMAIN a.tables : e[1] = TableId(a.tables[i].name)
            \/ \E i \in DOMAIN a.views : e[1] = MakeId("View", "", a.views[i].name)
        BY <1>4, <3>1, DdlEdgesAre DEF DdlResult, Returned
      <4> QED
        BY <1>4, <3>1, <4>1, DdlNodesNamed DEF DdlResult, Returned
    <3>2. CASE r = ProcResult(a)
      BY <1>4, <3>2, ProceduresAre DEF ProcResult, Returned
    <3>3. CASE r = TriggerResult(a)
      BY <1>4, <3>3, TriggersAre DEF TriggerResult, Returned
    <3> QED
      BY <1>4, <3>1, <3>2, <3>3, SqlResults
  <2> QED
    BY <2>1
<1> QED
  BY <1>1, <1>2, <1>3, <1>4 DEF Artifact

(* Nothing but a source and a deck has nodes of programs.                  *)
LEMMA MapNodesAre ==
    ASSUME NEW a \in Mapsets, NEW r \in Range(Results(a)), NEW n \in Range(r.nodes)
    PROVE  n.id.type # "Program"
<1>1. a.kind = "bms"
  BY DEF Mapsets
<1>2. Results(a) = <<Returned(MapNodes(a), << >>)>>
  BY <1>1 DEF Results
<1>3. r.nodes = MapNodes(a)
  BY <1>2, OneOf DEF Returned
<1> DEFINE ms == [i \in DOMAIN a.mapsets |-> Node(MakeId("CICSMap", "", a.mapsets[i].name), "cics_bms",
                                                   Confidence(a.mapsets[i].partial))]
<1>4. MapNodes(a) = ms
  BY DEF MapNodes, Each
<1>5. DOMAIN ms = DOMAIN a.mapsets /\ \A i \in DOMAIN a.mapsets : ms[i].id.type = "CICSMap"
  BY DEF Node, MakeId
<1> HIDE DEF ms
<1> QED
  BY <1>3, <1>4, <1>5 DEF Range

LEMMA CopybookPrograms ==
    ASSUME NEW a \in Copybook, NEW r \in Range(Results(a)), NEW n \in Range(r.nodes)
    PROVE  n.id.type # "Program"
<1>1. a.kind = "copybook"
  BY DEF Copybook
<1>2. Results(a) = <<Returned(CopybookNodes(a), << >>)>>
  BY <1>1 DEF Results
<1>3. r.nodes = CopybookNodes(a)
  BY <1>2, OneOf DEF Returned
<1>4. n.id.type \in {"Copybook", "Field"}
  BY <1>3, CopybookNodesAre
<1> QED
  BY <1>4

LEMMA SqlPrograms ==
    ASSUME NEW a \in SqlSource, NEW r \in Range(Results(a)), NEW n \in Range(r.nodes)
    PROVE  n.id.type # "Program"
<1>1. n.id.type \in {"DB2Column", "Constraint", "DB2Table", "View", "StoredProcedure", "Trigger"}
  <2>1. CASE r = DdlResult(a)
    BY <2>1, DdlNodesNamed DEF DdlResult, Returned
  <2>2. CASE r = ProcResult(a)
    BY <2>2, ProceduresAre DEF ProcResult, Returned
  <2>3. CASE r = TriggerResult(a)
    BY <2>3, TriggersAre DEF TriggerResult, Returned
  <2> QED
    BY <2>1, <2>2, <2>3, SqlResults
<1> QED
  BY <1>1

(* A node for a program that does not come with its source is called or    *)
(* executed.                                                               *)
LEMMA ResultsTold ==
    ASSUME NEW a \in Artifact, NEW r \in Range(Results(a))
    PROVE  Mentioned(r.nodes, r.edges)
<1>1. CASE a \in CobolSource
  <2>1. CASE r = ScreensResult(a)
    BY <2>1, NoneOf DEF ScreensResult, Returned, Mentioned
  <2>2. CASE r = CobolResult(a)
    <3> DEFINE program == ProgramId(ProgramName(a))
    <3>1. r.nodes = CobolNodes(a) /\ r.edges = CobolEdges(a)
      BY <2>2 DEF CobolResult, Returned
    <3> SUFFICES ASSUME NEW n \in Range(CobolNodes(a)), n.id.type = "Program", n.by # "cobol"
                 PROVE  \E e \in Range(CobolEdges(a)) :
                           e[2] \in {"CALLS", "EXECUTES"} /\ e[3] = n.id /\ e[1] # n.id
      BY <3>1 DEF Mentioned
    <3>2. n \in Range(CalleesOf(a))
      BY <1>1, CobolNodesNamed
    <3>3. PICK i \in DOMAIN a.calls :
            n.id = ProgramId(Upper[a.calls[i]]) /\ Upper[a.calls[i]] # ProgramName(a)
      BY <1>1, <3>2, Callees
    <3>4. PICK e \in Range(CobolEdges(a)) : e[1] = program /\ e[2] = "CALLS" /\ e[3] = n.id
      BY <1>1, <3>3, CobolEdgesAre
    <3>5. program # n.id
      <4>1. \A name : ProgramId(name).name = name
        BY DEF ProgramId, MakeId
      <4>2. program.name = ProgramName(a) /\ n.id.name = Upper[a.calls[i]]
        BY <3>3, <4>1
      <4> QED
        BY <3>3, <4>2
    <3> QED
      BY <3>4, <3>5
  <2>3. CASE r = VsamResult(a)
    <3>1. \A n \in Range(r.nodes) : n.id.type \in {"VSAMDataset", "Dataset"}
      BY <1>1, <2>3, DataSets DEF VsamResult, Returned
    <3> QED
      BY <3>1 DEF Mentioned
  <2> QED
    BY <1>1, <2>1, <2>2, <2>3, CobolResults
<1>2. CASE a \in Mapsets
  BY <1>2, MapNodesAre DEF Mentioned
<1>3. CASE a \in Copybook
  BY <1>3, CopybookPrograms DEF Mentioned
<1>4. CASE a \in JclSource
  <2>1. a.kind = "jcl"
    BY <1>4 DEF JclSource
  <2>2. Results(a) = <<Returned(Deck(a).nodes, Deck(a).edges)>>
    BY <2>1 DEF Results
  <2>3. r.nodes = Deck(a).nodes /\ r.edges = Deck(a).edges
    BY <2>2, OneOf DEF Returned
  <2> QED
    BY <1>4, <2>3, DeckIsOK DEF DeckOK
<1>5. CASE a \in SqlSource
  BY <1>5, SqlPrograms DEF Mentioned
<1> QED
  BY <1>1, <1>2, <1>3, <1>4, <1>5 DEF Artifact

(* What the programs among the nodes are called: by the name of a source,  *)
(* which comes with it, or of a CALL, in capitals, or by the name an EXEC  *)
(* PGM has.                                                                *)
LEMMA ResultsName ==
    ASSUME NEW a \in Artifact, NEW r \in Range(Results(a)), NEW n \in Range(r.nodes),
           n.id.type = "Program"
    PROVE  \/ /\ a \in CobolSource /\ a.kind = "cobol"
              /\ \/ n.by = "cobol" /\ n.id = ProgramId(ProgramName(a))
                 \/ n.by = "call" /\ \E i \in DOMAIN a.calls : n.id = ProgramId(Upper[a.calls[i]])
           \/ /\ a.kind = "jcl" /\ n.by = "exec"
              /\ \E i \in DOMAIN a.cards : n.id = ProgramId(a.cards[i].program)
<1>1. CASE a \in CobolSource
  <2>1. a.kind = "cobol"
    BY <1>1 DEF CobolSource
  <2>2. CASE r = ScreensResult(a)
    BY <2>2, NoneOf DEF ScreensResult, Returned
  <2>3. CASE r = CobolResult(a)
    <3>1. n \in Range(CobolNodes(a))
      BY <2>3 DEF CobolResult, Returned
    <3> QED
      BY <1>1, <2>1, <3>1, CobolNodesNamed, Callees
  <2>4. CASE r = VsamResult(a)
    BY <1>1, <2>4, DataSets DEF VsamResult, Returned
  <2> QED
    BY <1>1, <2>2, <2>3, <2>4, CobolResults
<1>2. CASE a \in Mapsets
  BY <1>2, MapNodesAre
<1>3. CASE a \in Copybook
  BY <1>3, CopybookPrograms
<1>4. CASE a \in JclSource
  <2>1. a.kind = "jcl"
    BY <1>4 DEF JclSource
  <2>2. Results(a) = <<Returned(Deck(a).nodes, Deck(a).edges)>>
    BY <2>1 DEF Results
  <2>3. r.nodes = Deck(a).nodes
    BY <2>2, OneOf DEF Returned
  <2>4. FromCards(Deck(a), a.cards)
    BY <1>4, DeckIsOK
  <2> QED
    BY <2>1, <2>3, <2>4 DEF FromCards
<1>5. CASE a \in SqlSource
  BY <1>5, SqlPrograms
<1> QED
  BY <1>1, <1>2, <1>3, <1>4, <1>5 DEF Artifact

-----------------------------------------------------------------------------
(* What the results say of each edge of the graph: if its result has all   *)
(* its nodes there, a CALL or an EXEC PGM joins two nodes, and leads to a  *)
(* program as no other edge does.                                          *)
EdgesFit ==
    \A e \in edges :
        /\ e[2] \in {"CALLS", "EXECUTES"} => IsStored(nodes, e[1]) /\ IsStored(nodes, e[3])
        /\ e[2] \in {"CALLS", "EXECUTES"} <=> e[3].type = "Program"
        /\ e[2] = "CALLS" => e[1].type = "Program"
        /\ e[2] = "PERFORMS" => e[3].type = "Paragraph"

LEMMA NodesFit == EdgesAfterNodes => EdgesFit
<1> SUFFICES ASSUME EdgesAfterNodes, NEW e \in edges
             PROVE  /\ e[2] \in {"CALLS", "EXECUTES"} => IsStored(nodes, e[1]) /\ IsStored(nodes, e[3])
                    /\ e[2] \in {"CALLS", "EXECUTES"} <=> e[3].type = "Program"
                    /\ e[2] = "CALLS" => e[1].type = "Program"
                    /\ e[2] = "PERFORMS" => e[3].type = "Paragraph"
  BY DEF EdgesFit
<1>0. PICK f \in Files : \E k \in DOMAIN Output[f] :
        e \in Range(ResultOf(f, k).edges) /\ HasNodes(ResultOf(f, k))
  BY DEF EdgesAfterNodes
<1>1. PICK k \in DOMAIN Output[f] : e \in Range(ResultOf(f, k).edges) /\ HasNodes(ResultOf(f, k))
  BY <1>0
<1> DEFINE r == Output[f][k]
<1>2. r \in Range(Results(Code[f])) /\ Code[f] \in Artifact
  BY <1>1 DEF Range
<1>3. Fits(r)
  BY <1>2, ResultsFit
<1>4. e \in Range(r.edges) /\ \A i \in DOMAIN r.nodes : IsStored(nodes, r.nodes[i].id)
  BY <1>1 DEF HasNodes
<1> HIDE DEF r
<1>5. \A id : Named(r.nodes, id) => IsStored(nodes, id)
  BY <1>4 DEF Named, Range
<1> QED
  BY <1>3, <1>4, <1>5 DEF Fits

(* CallsAreConnected: call chains lead from node to node, wherever a run   *)
(* is or has died (extractors/cobol/extractor.py:255, jcl/extractor.py:318 *)
(* add a placeholder for every program that is called or executed).        *)
THEOREM CallsStayConnected == Spec => []CallsAreConnected
<1>1. EdgesFit => CallsAreConnected
  BY DEF EdgesFit, CallsAreConnected
<1>2. EdgesAfterNodes => CallsAreConnected
  BY <1>1, NodesFit
<1> QED
  BY <1>2, EdgesFollowNodes, PTL

(* ProgramsAreOne: whichever extractor comes to a program first, and       *)
(* wherever a run is or has died, two nodes for one program differ by an   *)
(* EXEC PGM that is not in capitals (jcl/extractor.py:296), and by nothing *)
(* else.                                                                   *)
THEOREM ProgramsStayOne == Spec => []ProgramsAreOne
<1>1. TypeOK /\ FoundInv => ProgramsAreOne
  <2> SUFFICES ASSUME TypeOK, FoundInv, NEW a \in DOMAIN nodes, NEW b \in DOMAIN nodes,
                      a.type = "Program", b.type = "Program",
                      a # b, Upper[a.name] = Upper[b.name]
               PROVE  \E c \in {a.name, b.name} : c \in ExecNames /\ Upper[c] # c
    BY DEF ProgramsAreOne
  <2>0. \A name : ProgramId(name).name = name
    BY DEF ProgramId, MakeId
  <2>1. ASSUME NEW id \in DOMAIN nodes, id.type = "Program"
        PROVE  id = ProgramId(id.name) /\ (id.name \in ExecNames \/ Upper[id.name] = id.name)
    <3> DEFINE n == nodes[id]
    <3>1. n \in FoundNodes /\ n.id = id
      BY <2>1 DEF FoundInv, TypeOK, StoreOK
    <3>2. PICK f \in Files : \E k \in DOMAIN Output[f] : n \in Range(Output[f][k].nodes)
      BY <3>1 DEF FoundNodes
    <3>3. PICK k \in DOMAIN Output[f] : n \in Range(Output[f][k].nodes)
      BY <3>2
    <3> DEFINE r == Output[f][k]
               x == Code[f]
    <3>4. r \in Range(Results(x)) /\ x \in Artifact
      BY <3>3 DEF Range
    <3>5. n \in Range(r.nodes) /\ n.id.type = "Program"
      BY <2>1, <3>1, <3>3
    <3> HIDE DEF r, n
    <3>6. \/ /\ x \in CobolSource
             /\ \/ n.id = ProgramId(ProgramName(x))
                \/ \E i \in DOMAIN x.calls : n.id = ProgramId(Upper[x.calls[i]])
          \/ x.kind = "jcl" /\ \E i \in DOMAIN x.cards : n.id = ProgramId(x.cards[i].program)
      BY <3>4, <3>5, ResultsName
    <3>7. CASE x \in CobolSource /\ n.id = ProgramId(ProgramName(x))
      BY <2>0, <3>1, <3>7, UpperNames
    <3>8. CASE x \in CobolSource /\ \E i \in DOMAIN x.calls : n.id = ProgramId(Upper[x.calls[i]])
      BY <2>0, <3>1, <3>8, UpperNames
    <3>9. CASE x.kind = "jcl" /\ \E i \in DOMAIN x.cards : n.id = ProgramId(x.cards[i].program)
      BY <2>0, <3>1, <3>9 DEF ExecNames
    <3> QED
      BY <3>6, <3>7, <3>8, <3>9
  <2>2. a.name # b.name
    BY <2>1
  <2>3. CASE Upper[a.name] = a.name /\ Upper[b.name] = b.name
    BY <2>2, <2>3
  <2>4. CASE Upper[a.name] # a.name
    BY <2>1, <2>4
  <2>5. CASE Upper[b.name] # b.name
    BY <2>1, <2>5
  <2> QED
    BY <2>3, <2>4, <2>5
<1> QED
  BY <1>1, TypeCorrect, FoundAlways, PTL

-----------------------------------------------------------------------------
(* What a complete run tells of programs, in whatever order the files came *)
(* and whatever failed before it.  A program's node is there, and is that  *)
(* of its source unless another program calls it or a step executes it;    *)
(* what stands for a program without a source has an edge that mentions it.*)
ProgramsAreTold ==
    complete =>
        /\ \A id \in DOMAIN nodes : id.type = "Program" /\ nodes[id].by # "cobol" =>
              \E e \in edges : e[2] \in {"CALLS", "EXECUTES"} /\ e[3] = id /\ e[1] # id
        /\ \A f \in CobolFiles :
              LET id == ProgramId(ProgramName(Code[f]))
              IN  /\ IsStored(nodes, id)
                  /\ (\A e \in edges : e[2] \in {"CALLS", "EXECUTES"} /\ e[3] = id => e[1] = id)
                        => nodes[id].by = "cobol"

(* ProgramsAreTold: only a CALL or an EXEC PGM puts a placeholder in the   *)
(* place of a program's node (extractors/cobol/extractor.py:255,           *)
(* jcl/extractor.py:318), and a placeholder is never left without the edge *)
(* it was made for.                                                        *)
THEOREM PlaceholdersAreMentioned == Spec => []ProgramsAreTold
<1>1. TypeOK /\ FoundInv /\ RunIsComplete => ProgramsAreTold
  <2> SUFFICES ASSUME TypeOK, FoundInv, RunIsComplete, complete
               PROVE  ProgramsAreTold
    BY DEF ProgramsAreTold
  <2>1. \A f \in Files : \A k \in DOMAIN Output[f] :
          /\ \A i \in DOMAIN Output[f][k].nodes : IsStored(nodes, Output[f][k].nodes[i].id)
          /\ \A i \in DOMAIN Output[f][k].edges : Output[f][k].edges[i] \in edges
    BY DEF RunIsComplete, HasNodes, HasEdges
  <2>2. ASSUME NEW id \in DOMAIN nodes, id.type = "Program", nodes[id].by # "cobol"
        PROVE  \E e \in edges : e[2] \in {"CALLS", "EXECUTES"} /\ e[3] = id /\ e[1] # id
    <3> DEFINE n == nodes[id]
    <3>1. n \in FoundNodes /\ n.id = id
      BY DEF FoundInv, TypeOK, StoreOK
    <3>2. PICK f \in Files : \E k \in DOMAIN Output[f] : n \in Range(Output[f][k].nodes)
      BY <3>1 DEF FoundNodes
    <3>3. PICK k \in DOMAIN Output[f] : n \in Range(Output[f][k].nodes)
      BY <3>2
    <3> DEFINE r == Output[f][k]
    <3>4. r \in Range(Results(Code[f])) /\ Code[f] \in Artifact
      BY <3>3 DEF Range
    <3>5. Mentioned(r.nodes, r.edges)
      BY <3>4, ResultsTold
    <3>6. n \in Range(r.nodes) /\ \A e \in Range(r.edges) : e \in edges
      BY <2>1, <3>3 DEF Range
    <3> HIDE DEF r, n
    <3>7. n.id.type = "Program" /\ n.by # "cobol"
      BY <2>2, <3>1 DEF n
    <3> QED
      BY <3>1, <3>5, <3>6, <3>7 DEF Mentioned
  <2>3. ASSUME NEW f \in CobolFiles
        PROVE  IsStored(nodes, ProgramId(ProgramName(Code[f])))
    <3> DEFINE a == Code[f]
               id == ProgramId(ProgramName(a))
    <3>1. f \in Files /\ a \in Artifact /\ a.kind = "cobol" /\ Output[f] = Results(a)
      BY DEF CobolFiles
    <3>2. a \in CobolSource
      BY <3>1 DEF Artifact, Mapsets, Copybook, SqlSource, JclSource
    <3>3. PICK k \in DOMAIN Output[f] : Output[f][k] = CobolResult(a)
      BY <3>1, <3>2, CobolResults DEF Range
    <3>4. Named(Output[f][k].nodes, id)
      BY <3>2, <3>3, CobolNodesNamed DEF CobolResult, Returned
    <3>5. PICK i \in DOMAIN Output[f][k].nodes : Output[f][k].nodes[i].id = id
      BY <3>4 DEF Named, Range
    <3> QED
      BY <2>1, <3>1, <3>5
  <2>4. \A name : ProgramId(name).type = "Program"
    BY DEF ProgramId, MakeId
  <2> QED
    BY <2>2, <2>3, <2>4 DEF ProgramsAreTold, IsStored
<1> QED
  BY <1>1, TypeCorrect, FoundAlways, CompleteRuns, PTL

(* An edge that its extractor starts at another name starts at a program.  *)
LEMMA MisreadProgram ==
    ASSUME NEW f \in CobolFiles, NEW e \in MisreadIn(Code[f])
    PROVE  e[1].type = "Program"
<1>1. Code[f] \in CobolSource
  BY DEF CobolFiles, Artifact, Mapsets, Copybook, SqlSource, JclSource
<1>2. e \in Range(ScreenEdges(Code[f])) \cup Range(VsamEdges(Code[f]))
  BY DEF MisreadIn, ToSet, Range
<1>3. \A name : ProgramId(name).type = "Program"
  BY DEF ProgramId, MakeId
<1> QED
  BY <1>1, <1>2, <1>3, Screens, DataSets

(* SourcesAreNodes: after a complete run, the edges that start at no node  *)
(* are those of screens and files whose extractor (cics_bms/extractor.py:  *)
(* 160, vsam/extractor.py:54) read a name that no source and no call has.  *)
THEOREM EdgesStartAtNodes == Spec => []SourcesAreNodes
<1>1. EdgesAfterNodes /\ RunIsComplete /\ CallsAreConnected /\ ProgramsAreTold /\ TypeOK /\ FoundInv
        => SourcesAreNodes
  <2> SUFFICES ASSUME EdgesAfterNodes, RunIsComplete, CallsAreConnected, ProgramsAreTold, TypeOK,
                      FoundInv, complete, NEW e \in edges
               PROVE  IsStored(nodes, e[1]) <=> e \notin Misread \/ IsProgram(e[1])
    BY DEF SourcesAreNodes
  <2>1. ASSUME e \notin Misread PROVE IsStored(nodes, e[1])
    <3>0. PICK f \in Files : \E k \in DOMAIN Output[f] : e \in Range(ResultOf(f, k).edges)
      BY DEF EdgesAfterNodes
    <3>1. PICK k \in DOMAIN Output[f] : e \in Range(ResultOf(f, k).edges)
      BY <3>0
    <3> DEFINE a == Code[f]
               r == Output[f][k]
    <3>2. a \in Artifact /\ Output[f] = Results(a) /\ r \in Range(Results(a)) /\ e \in Range(r.edges)
      BY <3>1 DEF Range
    <3>3. ~ (a.kind = "cobol" /\ e \in MisreadIn(a))
      BY <2>1 DEF Misread, CobolFiles
    <3>4. PICK q \in Range(Results(a)) : Named(q.nodes, e[1])
      BY <3>2, <3>3, ResultsStart
    <3>5. PICK l \in DOMAIN Output[f] : q = Output[f][l]
      BY <3>2, <3>4 DEF Range
    <3>6. HasNodes(Output[f][l])
      BY <3>5 DEF RunIsComplete
    <3> QED
      BY <3>4, <3>5, <3>6 DEF HasNodes, Named, Range
  <2>2. ASSUME IsProgram(e[1]) PROVE IsStored(nodes, e[1])
    BY <2>2 DEF IsProgram, CallsAreConnected, ProgramsAreTold
  <2>3. ASSUME IsStored(nodes, e[1]), e \in Misread PROVE IsProgram(e[1])
    <3> DEFINE id == e[1]
               n == nodes[id]
    <3>1. id \in DOMAIN nodes /\ id.type = "Program"
      BY <2>3, MisreadProgram DEF IsStored, Misread
    <3>2. CASE n.by # "cobol"
      BY <3>1, <3>2 DEF ProgramsAreTold, IsProgram
    <3>3. CASE n.by = "cobol"
      <4>1. n \in FoundNodes /\ n.id = id
        BY <3>1 DEF FoundInv, TypeOK, StoreOK
      <4>2. PICK f \in Files : \E k \in DOMAIN Output[f] : n \in Range(Output[f][k].nodes)
        BY <4>1 DEF FoundNodes
      <4>3. PICK k \in DOMAIN Output[f] : n \in Range(Output[f][k].nodes)
        BY <4>2
      <4> DEFINE r == Output[f][k]
                 a == Code[f]
      <4>4. r \in Range(Results(a)) /\ a \in Artifact
        BY <4>3 DEF Range
      <4>5. n \in Range(r.nodes) /\ n.id.type = "Program" /\ n.by = "cobol"
        BY <3>1, <3>3, <4>1, <4>3
      <4> HIDE DEF r, n
      <4>6. a.kind = "cobol" /\ n.id = ProgramId(ProgramName(a))
        BY <4>4, <4>5, ResultsName
      <4> QED
        BY <4>1, <4>6 DEF CobolFiles, IsProgram
    <3> QED
      BY <3>2, <3>3
  <2> QED
    BY <2>1, <2>2, <2>3
<1> QED
  BY <1>1, EdgesFollowNodes, CompleteRuns, CallsStayConnected, PlaceholdersAreMentioned, TypeCorrect,
     FoundAlways, PTL
================================================================================
