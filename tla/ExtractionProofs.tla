--------------------------- MODULE ExtractionProofs ---------------------------
(***************************************************************************)
(* Theorems about Extraction, for every output of the extractors, every    *)
(* set of files and processes, and every bound on runs and failures: its   *)
(* type invariant, its safety invariants, and that it implements           *)
(* AdditiveGraph.                                                          *)
(***************************************************************************)
EXTENDS Extraction, SequenceTheorems, WellFoundedInduction, TLAPS

USE OutputAssumption, BoundAssumption
    DEF OutputAssumption, BoundAssumption, storeVars, observers, counters, ResultOf

-----------------------------------------------------------------------------
(* Sequences.  The least-number principle stands in for induction: a set of *)
(* counterexamples has a first one.                                        *)

(* A set of numbers has a least one. *)
LEMMA LeastNumber ==
    ASSUME NEW T, T \subseteq Nat, T # {}
    PROVE  \E n \in T : \A m \in T : ~(m < n)
<1>1. IsWellFoundedOn(OpToRel(<, Nat), Nat)
  BY NatLessThanWellFounded, Zenon
<1>2. \E n \in T : \A m \in T : <<m, n>> \notin OpToRel(<, Nat)
  BY <1>1, WFMin, Zenon
<1> QED
  BY <1>2 DEF OpToRel

(* A sequence, of whatever. *)
IsSequence(s) == s \in Seq(Range(s))

LEMMA SequenceOf ==
    ASSUME NEW S, NEW s \in Seq(S)
    PROVE  IsSequence(s) /\ Range(s) \subseteq S
<1>1. Len(s) \in Nat /\ s \in [1 .. Len(s) -> S]
  OBVIOUS
<1>2. s \in [1 .. Len(s) -> Range(s)] /\ Range(s) \subseteq S
  BY <1>1 DEF Range
<1> QED
  BY <1>1, <1>2 DEF IsSequence

LEMMA SequenceIn ==
    ASSUME NEW S, NEW s, IsSequence(s), Range(s) \subseteq S
    PROVE  s \in Seq(S)
<1>1. Len(s) \in Nat /\ s \in [1 .. Len(s) -> Range(s)]
  BY DEF IsSequence
<1>2. s \in [1 .. Len(s) -> S]
  BY <1>1
<1> QED
  BY <1>1, <1>2

LEMMA SequenceDomain ==
    ASSUME NEW s, IsSequence(s)
    PROVE  Len(s) \in Nat /\ DOMAIN s = 1 .. Len(s) /\ s = [i \in 1 .. Len(s) |-> s[i]]
  BY DEF IsSequence

LEMMA SequenceEach ==
    ASSUME NEW n \in Nat, NEW s, DOMAIN s = 1 .. n, s = [i \in 1 .. n |-> s[i]]
    PROVE  IsSequence(s) /\ Len(s) = n
<1>1. s \in [1 .. n -> Range(s)]
  BY DEF Range
<1> QED
  BY <1>1 DEF IsSequence

LEMMA ConcatSequence ==
    ASSUME NEW s, NEW t, IsSequence(s), IsSequence(t)
    PROVE  IsSequence(s \o t) /\ Range(s \o t) = Range(s) \cup Range(t)
<1> DEFINE S == Range(s) \cup Range(t)
<1>1. s \in Seq(S) /\ t \in Seq(S)
  BY SequenceIn
<1>2. Len(s) \in Nat /\ Len(t) \in Nat /\ DOMAIN s = 1 .. Len(s) /\ DOMAIN t = 1 .. Len(t)
  BY SequenceDomain
<1>3. /\ s \o t \in Seq(S) /\ Len(s \o t) = Len(s) + Len(t)
      /\ \A i \in 1 .. Len(s) + Len(t) : (s \o t)[i] = IF i <= Len(s) THEN s[i] ELSE t[i - Len(s)]
  BY <1>1, ConcatProperties
<1>4. DOMAIN (s \o t) = 1 .. Len(s) + Len(t)
  BY <1>2, <1>3
<1>5. IsSequence(s \o t) /\ Range(s \o t) \subseteq S
  BY <1>3, SequenceOf
<1>6. ASSUME NEW x \in Range(s) PROVE x \in Range(s \o t)
  <2>1. PICK i \in 1 .. Len(s) : x = s[i]
    BY <1>2 DEF Range
  <2>2. i \in 1 .. Len(s) + Len(t) /\ (s \o t)[i] = x
    BY <1>2, <1>3, <2>1
  <2> QED
    BY <1>4, <2>2 DEF Range
<1>7. ASSUME NEW x \in Range(t) PROVE x \in Range(s \o t)
  <2>1. PICK i \in 1 .. Len(t) : x = t[i]
    BY <1>2 DEF Range
  <2>2. /\ i + Len(s) \in 1 .. Len(s) + Len(t) /\ ~(i + Len(s) <= Len(s))
        /\ (i + Len(s)) - Len(s) = i
    BY <1>2
  <2>3. (s \o t)[i + Len(s)] = x
    BY <1>3, <2>1, <2>2
  <2> QED
    BY <1>4, <2>2, <2>3 DEF Range
<1> QED
  BY <1>5, <1>6, <1>7

(* FlattenSeq: its recursive function exists, so its equation holds. *)
IsFlat(f, ss, n) == f = [j \in 1 .. n |-> IF j = 1 THEN ss[j] ELSE f[j - 1] \o ss[j]]

LEMMA FlatExists ==
    ASSUME NEW ss
    PROVE  \A n \in Nat : \E f : IsFlat(f, ss, n)
<1> DEFINE T == {n \in Nat : ~ \E f : IsFlat(f, ss, n)}
<1> SUFFICES ASSUME T # {} PROVE FALSE
  OBVIOUS
<1>1. PICK n \in T : \A m \in T : ~(m < n)
  BY LeastNumber
<1>2. n \in Nat /\ ~ \E f : IsFlat(f, ss, n)
  BY <1>1
<1>3. CASE n = 0
  <2> DEFINE g == [j \in 1 .. 0 |-> ss[j]]
  <2>1. IsFlat(g, ss, 0)
    BY DEF IsFlat
  <2> QED
    BY <1>2, <1>3, <2>1
<1>4. CASE n # 0
  <2>1. n - 1 \in Nat /\ n - 1 < n
    BY <1>2, <1>4
  <2>2. PICK f : IsFlat(f, ss, n - 1)
    BY <1>1, <2>1
  <2> DEFINE g == [j \in 1 .. n |-> IF j = n THEN IF n = 1 THEN ss[1] ELSE f[n - 1] \o ss[n] ELSE f[j]]
  <2>3. \A j \in 1 .. n - 1 : f[j] = IF j = 1 THEN ss[j] ELSE f[j - 1] \o ss[j]
    BY <2>2 DEF IsFlat
  <2>4. \A j \in 1 .. n : g[j] = IF j = 1 THEN ss[j] ELSE g[j - 1] \o ss[j]
    <3> SUFFICES ASSUME NEW j \in 1 .. n PROVE g[j] = IF j = 1 THEN ss[j] ELSE g[j - 1] \o ss[j]
      OBVIOUS
    <3>1. CASE j = n
      BY <1>2, <1>4, <3>1
    <3>2. CASE j # n
      <4>1. j \in 1 .. n - 1 /\ g[j] = f[j]
        BY <1>2, <3>2
      <4>2. j # 1 => j - 1 \in 1 .. n /\ j - 1 # n /\ g[j - 1] = f[j - 1]
        BY <1>2, <4>1
      <4> QED
        BY <2>3, <4>1, <4>2
    <3> QED
      BY <3>1, <3>2
  <2>5. DOMAIN g = 1 .. n /\ g = [j \in 1 .. n |-> g[j]]
    OBVIOUS
  <2> HIDE DEF g
  <2>6. IsFlat(g, ss, n)
    BY <2>4, <2>5 DEF IsFlat
  <2> QED
    BY <1>2, <2>6
<1> QED
  BY <1>3, <1>4

LEMMA FlattenSequence ==
    ASSUME NEW ss, IsSequence(ss), \A i \in DOMAIN ss : IsSequence(ss[i])
    PROVE  /\ IsSequence(FlattenSeq(ss))
           /\ \A x : x \in Range(FlattenSeq(ss)) <=> \E i \in DOMAIN ss : x \in Range(ss[i])
<1>1. Len(ss) \in Nat /\ DOMAIN ss = 1 .. Len(ss)
  BY SequenceDomain
<1>2. CASE Len(ss) = 0
  <2>1. FlattenSeq(ss) = ss
    BY <1>2 DEF FlattenSeq
  <2> QED
    BY <1>1, <1>2, <2>1 DEF Range
<1>3. CASE Len(ss) # 0
  <2>1. PICK f : IsFlat(f, ss, Len(ss)) /\ FlattenSeq(ss) = f[Len(ss)]
    <3>1. \E f : IsFlat(f, ss, Len(ss))
      BY <1>1, FlatExists
    <3> QED
      BY <1>3, <3>1 DEF FlattenSeq, IsFlat
  <2>2. \A j \in 1 .. Len(ss) : f[j] = IF j = 1 THEN ss[j] ELSE f[j - 1] \o ss[j]
    BY <2>1 DEF IsFlat
  <2> DEFINE good(n) == /\ IsSequence(f[n])
                        /\ \A x : x \in Range(f[n]) <=> \E i \in 1 .. n : x \in Range(ss[i])
             T == {n \in 1 .. Len(ss) : ~good(n)}
  <2>3. T = {}
    <3> SUFFICES ASSUME T # {} PROVE FALSE
      OBVIOUS
    <3>1. T \subseteq Nat
      BY <1>1
    <3>2. PICK n \in T : \A m \in T : ~(m < n)
      BY <3>1, LeastNumber
    <3>3. n \in 1 .. Len(ss) /\ ~good(n)
      BY <3>2
    <3>4. CASE n = 1
      <4>1. f[1] = ss[1] /\ IsSequence(ss[1])
        BY <1>1, <2>2, <3>3, <3>4
      <4>2. \A x : (\E i \in 1 .. 1 : x \in Range(ss[i])) <=> x \in Range(ss[1])
        OBVIOUS
      <4> QED
        BY <3>3, <3>4, <4>1, <4>2
    <3>5. CASE n # 1
      <4>1. n - 1 \in 1 .. Len(ss) /\ n - 1 < n
        BY <1>1, <3>3, <3>5
      <4>2. good(n - 1)
        BY <3>2, <4>1
      <4> HIDE DEF T
      <4>3. f[n] = f[n - 1] \o ss[n] /\ IsSequence(ss[n])
        BY <1>1, <2>2, <3>3, <3>5
      <4>4. IsSequence(f[n]) /\ Range(f[n]) = Range(f[n - 1]) \cup Range(ss[n])
        BY <4>2, <4>3, ConcatSequence
      <4>5. 1 .. n = (1 .. n - 1) \cup {n}
        BY <1>1, <3>3, <3>5
      <4>6. \A x : (\E i \in 1 .. n : x \in Range(ss[i]))
                     <=> x \in Range(ss[n]) \/ \E i \in 1 .. n - 1 : x \in Range(ss[i])
        BY <4>5
      <4> QED
        BY <3>3, <4>2, <4>4, <4>6
    <3> QED
      BY <3>4, <3>5
  <2>4. good(Len(ss))
    <3>1. Len(ss) \in 1 .. Len(ss)
      BY <1>1, <1>3
    <3> HIDE DEF good
    <3> QED
      BY <2>3, <3>1
  <2> QED
    BY <1>1, <2>1, <2>4
<1> QED
  BY <1>2, <1>3

(* A sequence made from another one item by item.                          *)
LEMMA EachSequence ==
    ASSUME NEW s, IsSequence(s), NEW t, DOMAIN t = DOMAIN s, t = [i \in DOMAIN s |-> t[i]]
    PROVE  IsSequence(t) /\ Range(t) = {t[i] : i \in DOMAIN s}
<1>1. Len(s) \in Nat /\ DOMAIN s = 1 .. Len(s)
  BY SequenceDomain
<1>2. IsSequence(t)
  BY <1>1, SequenceEach
<1> QED
  BY <1>2 DEF Range

(* The items of a sequence that pass a test.                               *)
LEMMA OnlySequence ==
    ASSUME NEW s, IsSequence(s), NEW t, DOMAIN t = DOMAIN s, t = [i \in DOMAIN s |-> t[i]],
           \A i \in DOMAIN s : t[i] = <<s[i]>> \/ t[i] = << >>
    PROVE  /\ IsSequence(FlattenSeq(t))
           /\ \A x : x \in Range(FlattenSeq(t)) <=> \E i \in DOMAIN s : x = s[i] /\ t[i] = <<s[i]>>
<1>1. IsSequence(t)
  BY EachSequence
<1>2. \A i \in DOMAIN t : IsSequence(t[i]) /\ \A x : x \in Range(t[i]) <=> x = s[i] /\ t[i] = <<s[i]>>
  <2> SUFFICES ASSUME NEW i \in DOMAIN s
               PROVE  IsSequence(t[i]) /\ \A x : x \in Range(t[i]) <=> x = s[i] /\ t[i] = <<s[i]>>
    OBVIOUS
  <2>1. CASE t[i] = << >>
    BY <2>1 DEF IsSequence, Range
  <2>2. CASE t[i] = <<s[i]>>
    <3>1. IsSequence(<<s[i]>>) /\ Range(<<s[i]>>) = {s[i]}
      BY DEF IsSequence, Range
    <3> QED
      BY <2>2, <3>1
  <2> QED
    BY <2>1, <2>2
<1> QED
  BY <1>1, <1>2, FlattenSequence

(* One more sequence is put at the end of what the others are flattened to. *)
LEMMA FlattenAppend ==
    ASSUME NEW ss, IsSequence(ss), \A i \in DOMAIN ss : IsSequence(ss[i]), NEW s, IsSequence(s)
    PROVE  FlattenSeq(Append(ss, s)) = FlattenSeq(ss) \o s
<1> DEFINE n == Len(ss)
           tt == Append(ss, s)
<1>1. n \in Nat /\ DOMAIN ss = 1 .. n
  BY SequenceDomain
<1>2. /\ Len(tt) = n + 1 /\ tt[n + 1] = s /\ \A i \in 1 .. n : tt[i] = ss[i]
  <2> DEFINE S == Range(ss) \cup {s}
  <2>1. ss \in Seq(S) /\ s \in S
    BY SequenceIn
  <2> QED
    BY <2>1
<1> HIDE DEF n, tt
<1>3. PICK g : IsFlat(g, tt, n + 1) /\ FlattenSeq(tt) = g[n + 1]
  <2>1. n + 1 \in Nat /\ n + 1 # 0
    BY <1>1
  <2>2. \E g : IsFlat(g, tt, n + 1)
    BY <2>1, FlatExists
  <2> QED
    BY <1>2, <2>1, <2>2 DEF FlattenSeq, IsFlat
<1>4. \A i \in 1 .. n + 1 : g[i] = IF i = 1 THEN tt[i] ELSE g[i - 1] \o tt[i]
  BY <1>3 DEF IsFlat
<1>5. CASE n = 0
  <2>1. FlattenSeq(ss) = ss /\ ss = << >>
    BY <1>1, <1>5 DEF FlattenSeq, n, IsSequence
  <2>2. FlattenSeq(tt) = s
    BY <1>2, <1>3, <1>4, <1>5
  <2>3. << >> \o s = s
    BY ConcatEmptySeq DEF IsSequence
  <2> QED
    BY <2>1, <2>2, <2>3 DEF tt
<1>6. CASE n # 0
  <2>1. PICK f : IsFlat(f, ss, n) /\ FlattenSeq(ss) = f[n]
    <3>1. \E f : IsFlat(f, ss, n)
      BY <1>1, FlatExists
    <3> QED
      BY <1>6, <3>1 DEF FlattenSeq, IsFlat, n
  <2>2. \A i \in 1 .. n : f[i] = IF i = 1 THEN ss[i] ELSE f[i - 1] \o ss[i]
    BY <2>1 DEF IsFlat
  <2> DEFINE T == {i \in 1 .. n : f[i] # g[i]}
  <2>3. T = {}
    <3> SUFFICES ASSUME T # {} PROVE FALSE
      OBVIOUS
    <3>1. T \subseteq Nat
      BY <1>1
    <3>2. PICK i \in T : \A k \in T : ~(k < i)
      BY <3>1, LeastNumber
    <3>3. i \in 1 .. n /\ f[i] # g[i] /\ i \in 1 .. n + 1 /\ tt[i] = ss[i]
      BY <1>1, <1>2, <3>2
    <3>4. CASE i = 1
      BY <1>4, <2>2, <3>3, <3>4
    <3>5. CASE i # 1
      <4>1. i - 1 \in 1 .. n /\ i - 1 < i
        BY <1>1, <3>3, <3>5
      <4>2. f[i - 1] = g[i - 1]
        BY <3>2, <4>1
      <4> QED
        BY <1>4, <2>2, <3>3, <3>5, <4>2
    <3> QED
      BY <3>4, <3>5
  <2>4. n \in 1 .. n /\ n + 1 \in 1 .. n + 1 /\ n + 1 # 1 /\ (n + 1) - 1 = n
    BY <1>1, <1>6
  <2>5. f[n] = g[n]
    BY <2>3, <2>4
  <2>6. g[n + 1] = g[n] \o tt[n + 1]
    BY <1>4, <2>4
  <2> QED
    BY <1>2, <1>3, <2>1, <2>5, <2>6 DEF tt
<1> QED
  BY <1>5, <1>6

-----------------------------------------------------------------------------
(* A process that is storing is at a result of its file.                   *)
LEMMA CurrentType ==
    ASSUME TypeOK, NEW p \in Processes, pc[p] \in {"store", "write"}
    PROVE  /\ at[p] \in Position
           /\ Current(p) \in Result
           /\ at[p].item \in Nat \ {0} /\ at[p].result \in Nat \ {0}
           /\ AtNode(p) => NodeAt(p) \in Nodes
           /\ ~AtNode(p) /\ EdgeNo(p) <= Len(Current(p).edges)
                => Current(p).edges[EdgeNo(p)] \in Edges
<1>1. /\ at[p] \in Position /\ at[p].result >= 1 /\ at[p].item >= 1
      /\ at[p].result <= Len(Output[at[p].file])
  BY DEF TypeOK, PositionOK
<1>2. at[p].file \in Files /\ at[p].item \in Nat \ {0} /\ at[p].result \in Nat \ {0}
  BY <1>1 DEF Position
<1>3. Output[at[p].file] \in Seq(Result)
  BY <1>2
<1>4. Current(p) \in Result
  BY <1>1, <1>2, <1>3 DEF Current
<1>5. Current(p).nodes \in Seq(Nodes) /\ Current(p).edges \in Seq(Edges)
  BY <1>4 DEF Result
<1>6. AtNode(p) => NodeAt(p) \in Nodes
  BY <1>2, <1>5 DEF AtNode, NodeAt
<1>7. ~AtNode(p) /\ EdgeNo(p) <= Len(Current(p).edges) => Current(p).edges[EdgeNo(p)] \in Edges
  <2> DEFINE n == Len(Current(p).nodes)
  <2>1. n \in Nat
    BY <1>5
  <2>2. ~AtNode(p) => EdgeNo(p) \in Nat \ {0}
    BY <2>1, <1>2 DEF AtNode, EdgeNo
  <2> QED
    BY <2>2, <1>5
<1> QED
  BY <1>1, <1>2, <1>4, <1>6, <1>7

LEMMA InitTypeOK == Init => TypeOK
<1> SUFFICES ASSUME Init PROVE TypeOK
  OBVIOUS
<1>1. StoreOK
  BY DEF Init, StoreOK, NoNodes
<1>2. ProcessOK
  BY DEF Init, ProcessOK, PC
<1>3. BoundsOK
  <2>1. runs \in 0 .. MaxRuns /\ failures \in 0 .. MaxFailures /\ crashes \in 0 .. MaxCrashes
    BY DEF Init
  <2>2. complete \in BOOLEAN /\ overlapped \in BOOLEAN
    BY DEF Init
  <2> QED
    BY <2>1, <2>2 DEF BoundsOK
<1>4. \A p \in Processes : PositionOK(p)
  BY DEF Init, PositionOK
<1> QED
  BY <1>1, <1>2, <1>3, <1>4 DEF TypeOK

(* What add_node does to the shape of the store.                           *)
LEMMA UpsertedType ==
    ASSUME StoreOK, NEW n \in Nodes
    PROVE  /\ Upserted(nodes, n) \in [DOMAIN Upserted(nodes, n) -> Nodes]
           /\ DOMAIN Upserted(nodes, n) = DOMAIN nodes \cup {n.id}
           /\ \A id \in DOMAIN Upserted(nodes, n) : Upserted(nodes, n)[id].id = id
  BY DEF StoreOK, Upserted

LEMMA RecordedType ==
    ASSUME StoreOK, NEW n \in Nodes, NEW o \in {"add", "update"}
    PROVE  Recorded(history, n, o) \in Seq([node : Nodes, op : {"add", "update"}])
<1>1. [node |-> n, op |-> o] \in [node : Nodes, op : {"add", "update"}]
  OBVIOUS
<1> QED
  BY <1>1 DEF StoreOK, Recorded

(* A process goes on to the next item, or to the next result.              *)
LEMMA AdvancedType ==
    ASSUME NEW pos \in Position
    PROVE  /\ Advanced(pos) \in Position
           /\ Advanced(pos).file = pos.file /\ Advanced(pos).result = pos.result
           /\ Advanced(pos).item = pos.item + 1
  BY DEF Advanced, Position

LEMMA PassedType ==
    ASSUME NEW pos \in Position
    PROVE  /\ Passed(pos) \in Position
           /\ Passed(pos).file = pos.file /\ Passed(pos).result = pos.result + 1
           /\ Passed(pos).item = 1
  BY DEF Passed, Position

LEMMA PositionSet ==
    ASSUME TypeOK, NEW p \in Processes, NEW pos \in Position, at' = [at EXCEPT ![p] = pos]
    PROVE  /\ at' \in [Processes -> Position \cup {<< >>}]
           /\ at'[p] = pos
           /\ \A q \in Processes \ {p} : at'[q] = at[q]
  BY DEF TypeOK, ProcessOK

(* A step of one process leaves the others where they are.                 *)
LEMMA OthersStay ==
    ASSUME TypeOK, NEW p \in Processes,
           \A q \in Processes \ {p} : pc'[q] = pc[q] /\ at'[q] = at[q],
           PositionOK(p)'
    PROVE  \A q \in Processes : PositionOK(q)'
<1> SUFFICES ASSUME NEW q \in Processes, q # p PROVE PositionOK(q)'
  OBVIOUS
<1> QED
  BY DEF TypeOK, PositionOK, AtNode, Current

(* The steps of a process between two results.                             *)
LEMMA WalkType ==
    ASSUME TypeOK, NEW p \in Processes,
           Start(p) \/ Pick(p) \/ Finish(p) \/ Ask(p) \/ NextFile(p) \/ Crash(p)
    PROVE  TypeOK'
<1> USE DEF Goto
<1>1. StoreOK'
  BY DEF TypeOK, StoreOK, Start, Pick, Finish, Ask, NextFile, Crash
<1>2. CASE Start(p)
  <2>1. ProcessOK'
    BY <1>2 DEF TypeOK, ProcessOK, Start, PC
  <2>2. BoundsOK'
    BY <1>2 DEF TypeOK, BoundsOK, Start
  <2>3. \A q \in Processes : PositionOK(q)'
    BY <1>2, OthersStay DEF TypeOK, ProcessOK, PositionOK, Start
  <2> QED
    BY <1>1, <2>1, <2>2, <2>3 DEF TypeOK
<1>3. CASE Pick(p)
  <2> PICK f \in left[p] :
        /\ left' = [left EXCEPT ![p] = @ \ {f}]
        /\ at' = [at EXCEPT ![p] = [file |-> f, result |-> 1, item |-> 1]]
        /\ order' = [order EXCEPT ![p] = Append(@, f)]
    BY <1>3 DEF Pick
  <2>1. f \in Files
    BY DEF TypeOK, ProcessOK
  <2>2. [file |-> f, result |-> 1, item |-> 1] \in Position
    BY <2>1 DEF Position
  <2>3. order' \in [Processes -> Seq(Files)]
    BY <2>1 DEF TypeOK, ProcessOK
  <2>4. ProcessOK'
    BY <1>3, <2>2, <2>3 DEF TypeOK, ProcessOK, Pick, PC
  <2>5. BoundsOK'
    BY <1>3 DEF TypeOK, BoundsOK, Pick
  <2>6. PositionOK(p)'
    BY <1>3, <2>2 DEF TypeOK, ProcessOK, PositionOK, Pick
  <2>7. \A q \in Processes : PositionOK(q)'
    BY <1>3, <2>6, OthersStay DEF TypeOK, ProcessOK, Pick
  <2> QED
    BY <1>1, <2>4, <2>5, <2>7 DEF TypeOK
<1>4. CASE Finish(p) \/ NextFile(p) \/ Crash(p)
  <2>1. ProcessOK'
    BY <1>4 DEF TypeOK, ProcessOK, Finish, NextFile, Crash, PC
  <2>2. BoundsOK'
    BY <1>4 DEF TypeOK, ProcessOK, BoundsOK, Finish, NextFile, Crash
  <2>3. \A q \in Processes : PositionOK(q)'
    BY <1>4, OthersStay DEF TypeOK, ProcessOK, PositionOK, Finish, NextFile, Crash
  <2> QED
    BY <1>1, <2>1, <2>2, <2>3 DEF TypeOK
<1>5. CASE Ask(p)
  <2>1. ProcessOK'
    BY <1>5 DEF TypeOK, ProcessOK, Ask, PC
  <2>2. BoundsOK'
    BY <1>5 DEF TypeOK, BoundsOK, Ask
  <2>3. PositionOK(p)'
    BY <1>5 DEF TypeOK, ProcessOK, PositionOK, Ask
  <2>4. \A q \in Processes : PositionOK(q)'
    BY <1>5, <2>3, OthersStay DEF TypeOK, ProcessOK, Ask
  <2> QED
    BY <1>1, <2>1, <2>2, <2>4 DEF TypeOK
<1> QED
  BY <1>2, <1>3, <1>4, <1>5

(* The steps of a process within a result.                                 *)
LEMMA StoreType ==
    ASSUME TypeOK, NEW p \in Processes,
           LookUp(p) \/ AddNode(p) \/ AddEdge(p) \/ EndResult(p)
    PROVE  TypeOK'
<1> USE DEF Goto
<1>1. pc[p] \in {"store", "write"}
  BY DEF LookUp, AddNode, AddEdge, EndResult
<1>2. /\ at[p] \in Position
      /\ at[p].item \in Nat \ {0} /\ at[p].result \in Nat \ {0}
      /\ AtNode(p) => NodeAt(p) \in Nodes
      /\ ~AtNode(p) /\ EdgeNo(p) <= Len(Current(p).edges) => Current(p).edges[EdgeNo(p)] \in Edges
  BY <1>1, CurrentType
<1>3. BoundsOK'
  BY DEF TypeOK, BoundsOK, LookUp, AddNode, AddEdge, EndResult
<1>4. CASE LookUp(p)
  <2>1. StoreOK'
    BY <1>4 DEF TypeOK, StoreOK, LookUp
  <2>2. ProcessOK'
    BY <1>4 DEF TypeOK, ProcessOK, LookUp, PC, OpFor
  <2>3. PositionOK(p)'
    BY <1>4 DEF TypeOK, ProcessOK, PositionOK, LookUp, AtNode, Current
  <2>4. \A q \in Processes : PositionOK(q)'
    BY <1>4, <2>3, OthersStay DEF TypeOK, ProcessOK, LookUp
  <2> QED
    BY <1>3, <2>1, <2>2, <2>4 DEF TypeOK
<1>5. CASE AddNode(p)
  <2>1. AtNode(p) /\ NodeAt(p) \in Nodes
    BY <1>2, <1>5 DEF TypeOK, PositionOK, AddNode
  <2>2. op[p] \in {"add", "update"}
    BY DEF TypeOK, ProcessOK
  <2>3. /\ nodes' \in [DOMAIN nodes' -> Nodes]
        /\ \A id \in DOMAIN nodes' : nodes'[id].id = id
    BY <1>5, <2>1, UpsertedType DEF TypeOK, AddNode
  <2>4. history' \in Seq([node : Nodes, op : {"add", "update"}])
    BY <1>5, <2>1, <2>2, RecordedType DEF TypeOK, AddNode
  <2>5. StoreOK'
    BY <1>5, <2>3, <2>4 DEF TypeOK, StoreOK, AddNode
  <2>6. /\ at' \in [Processes -> Position \cup {<< >>}]
        /\ at'[p] \in Position
        /\ at'[p].result = at[p].result /\ at'[p].file = at[p].file
        /\ at'[p].item = at[p].item + 1
    BY <1>2, <1>5, AdvancedType, PositionSet DEF AddNode
  <2>7. ProcessOK'
    BY <1>5, <2>6 DEF TypeOK, ProcessOK, AddNode, PC
  <2>8. PositionOK(p)'
    BY <1>2, <1>5, <2>6 DEF TypeOK, ProcessOK, PositionOK, AddNode
  <2>9. \A q \in Processes : PositionOK(q)'
    BY <1>5, <2>8, OthersStay DEF TypeOK, ProcessOK, AddNode
  <2> QED
    BY <1>3, <2>5, <2>7, <2>9 DEF TypeOK
<1>6. CASE AddEdge(p)
  <2>1. StoreOK'
    BY <1>2, <1>6 DEF TypeOK, StoreOK, AddEdge, Linked
  <2>2. /\ at' \in [Processes -> Position \cup {<< >>}]
        /\ at'[p] \in Position
        /\ at'[p].result = at[p].result /\ at'[p].file = at[p].file
        /\ at'[p].item = at[p].item + 1
    BY <1>2, <1>6, AdvancedType, PositionSet DEF AddEdge
  <2>3. ProcessOK'
    BY <1>6, <2>2 DEF TypeOK, ProcessOK, AddEdge
  <2>4. PositionOK(p)'
    BY <1>2, <1>6, <2>2 DEF TypeOK, ProcessOK, PositionOK, AddEdge
  <2>5. \A q \in Processes : PositionOK(q)'
    BY <1>6, <2>4, OthersStay DEF TypeOK, ProcessOK, AddEdge
  <2> QED
    BY <1>3, <2>1, <2>3, <2>5 DEF TypeOK
<1>7. CASE EndResult(p)
  <2>1. StoreOK'
    BY <1>7 DEF TypeOK, StoreOK, EndResult
  <2>2. /\ at' \in [Processes -> Position \cup {<< >>}]
        /\ at'[p] \in Position
        /\ at'[p].result = at[p].result + 1 /\ at'[p].item = 1
    BY <1>2, <1>7, PassedType, PositionSet DEF EndResult
  <2>3. ProcessOK'
    BY <1>7, <2>2 DEF TypeOK, ProcessOK, EndResult, PC
  <2>4. PositionOK(p)'
    BY <1>2, <1>7, <2>2 DEF TypeOK, ProcessOK, PositionOK, EndResult
  <2>5. \A q \in Processes : PositionOK(q)'
    BY <1>7, <2>4, OthersStay DEF TypeOK, ProcessOK, EndResult
  <2> QED
    BY <1>3, <2>1, <2>3, <2>5 DEF TypeOK
<1> QED
  BY <1>4, <1>5, <1>6, <1>7

(* An exception: the next result, wherever the process was in this one.    *)
LEMMA FailType ==
    ASSUME TypeOK, NEW p \in Processes, Fail(p)
    PROVE  TypeOK'
<1> USE DEF Goto
<1>1. pc[p] \in {"ask", "store", "write"}
  BY DEF Fail
<1>2. at[p] \in Position /\ at[p].result \in Nat \ {0}
  BY <1>1 DEF TypeOK, PositionOK, Position
<1>3. StoreOK'
  BY DEF TypeOK, StoreOK, Fail
<1>4. /\ at' \in [Processes -> Position \cup {<< >>}]
      /\ at'[p] \in Position
      /\ at'[p].result = at[p].result + 1 /\ at'[p].item = 1
  BY <1>2, PassedType, PositionSet DEF Fail
<1>5. ProcessOK'
  BY <1>4 DEF TypeOK, ProcessOK, Fail, PC
<1>6. BoundsOK'
  BY DEF TypeOK, BoundsOK, Fail
<1>7. PositionOK(p)'
  BY <1>2, <1>4 DEF TypeOK, ProcessOK, PositionOK, Fail
<1>8. \A q \in Processes : PositionOK(q)'
  BY <1>7, OthersStay DEF TypeOK, ProcessOK, Fail
<1> QED
  BY <1>3, <1>5, <1>6, <1>8 DEF TypeOK

(* The store's tables and every process's variables keep their shape: a    *)
(* process that stores is at a result of its file, and at a node of the    *)
(* result while it writes one.                                             *)
THEOREM TypeCorrect == Spec => []TypeOK
<1>1. TypeOK /\ [Next]_vars => TypeOK'
  <2> SUFFICES ASSUME TypeOK, [Next]_vars PROVE TypeOK'
    OBVIOUS
  <2>1. CASE Next
    BY <2>1, WalkType, StoreType, FailType DEF Next, Work
  <2>2. CASE UNCHANGED vars
    BY <2>2 DEF vars, TypeOK, StoreOK, ProcessOK, BoundsOK, PositionOK, AtNode, Current
  <2> QED
    BY <2>1, <2>2
<1> QED
  BY <1>1, InitTypeOK, PTL DEF Spec

-----------------------------------------------------------------------------
Step(p) == Start(p) \/ Work(p) \/ Fail(p) \/ Crash(p)

(* A step is one process's; the others keep their place.                   *)
LEMMA Frame ==
    ASSUME TypeOK, NEW p \in Processes, Step(p), NEW q \in Processes, q # p
    PROVE  /\ pc'[q] = pc[q] /\ at'[q] = at[q] /\ op'[q] = op[q]
           /\ left'[q] = left[q] /\ clean'[q] = clean[q]
  BY DEF TypeOK, ProcessOK, Step, Work, Goto, Start, Pick, Finish, Ask, NextFile, LookUp, AddNode,
     AddEdge, EndResult, Fail, Crash

(* Nothing is ever taken from the store.                                   *)
LEMMA Grows ==
    ASSUME TypeOK, [Next]_vars
    PROVE  /\ DOMAIN nodes \subseteq DOMAIN nodes' /\ edges \subseteq edges'
           /\ \A r : (HasNodes(r) => HasNodes(r)') /\ (HasEdges(r) => HasEdges(r)')
<1>1. DOMAIN nodes \subseteq DOMAIN nodes' /\ edges \subseteq edges'
  <2>1. ASSUME NEW p \in Processes, Start(p) \/ Pick(p) \/ Finish(p) \/ Ask(p) \/ NextFile(p)
               \/ LookUp(p) \/ EndResult(p) \/ Fail(p) \/ Crash(p)
        PROVE  DOMAIN nodes \subseteq DOMAIN nodes' /\ edges \subseteq edges'
    BY <2>1 DEF Start, Pick, Finish, Ask, NextFile, LookUp, EndResult, Fail, Crash
  <2>2. ASSUME NEW p \in Processes, AddNode(p)
        PROVE  DOMAIN nodes \subseteq DOMAIN nodes' /\ edges \subseteq edges'
    BY <2>2 DEF AddNode, Upserted
  <2>3. ASSUME NEW p \in Processes, AddEdge(p)
        PROVE  DOMAIN nodes \subseteq DOMAIN nodes' /\ edges \subseteq edges'
    BY <2>3 DEF AddEdge, Linked
  <2> QED
    BY <2>1, <2>2, <2>3 DEF Next, Work, vars
<1> QED
  BY <1>1 DEF HasNodes, HasEdges, IsStored

-----------------------------------------------------------------------------
(* No edge without the nodes of its result.  What a process has passed in  *)
(* the result at hand is in the graph.                                     *)
Progress(p) ==
    /\ pc[p] = "ask" => at[p].item = 1
    /\ pc[p] \in {"store", "write"} =>
          \A i \in DOMAIN Current(p).nodes :
              i < at[p].item => IsStored(nodes, Current(p).nodes[i].id)

ProgressInv == TypeOK /\ \A p \in Processes : Progress(p)

LEMMA ProgressStep ==
    ASSUME ProgressInv, TypeOK', NEW p \in Processes, Step(p)
    PROVE  \A q \in Processes : Progress(q)'
<1>1. TypeOK /\ DOMAIN nodes \subseteq DOMAIN nodes'
  BY Grows DEF ProgressInv, Next, Step
<1>2. ASSUME NEW q \in Processes, q # p PROVE Progress(q)'
  BY <1>1, <1>2, Frame DEF ProgressInv, Progress, Current, IsStored
<1>3. Progress(p)'
  <2>1. CASE Start(p) \/ Finish(p) \/ NextFile(p) \/ Crash(p)
    BY <1>1, <2>1 DEF Progress, Goto, Start, Finish, NextFile, Crash, TypeOK, ProcessOK
  <2>2. CASE Pick(p)
    BY <1>1, <2>2 DEF Progress, Goto, Pick, TypeOK, ProcessOK
  <2>3. CASE Ask(p)
    <3>1. at[p].item = 1 /\ at'[p] = at[p] /\ pc'[p] = "store"
      BY <1>1, <2>3 DEF ProgressInv, Progress, Goto, Ask, TypeOK, ProcessOK
    <3>2. Current(p)' \in Result
      BY <3>1, CurrentType, TypeOK' DEF Current, TypeOK, PositionOK, Position
    <3>3. DOMAIN Current(p)'.nodes \subseteq Nat \ {0}
      BY <3>2 DEF Result
    <3> QED
      BY <3>1, <3>3 DEF Progress, Current
  <2>4. CASE LookUp(p)
    BY <1>1, <2>4 DEF ProgressInv, Progress, Goto, LookUp, TypeOK, ProcessOK, Current, IsStored
  <2>5. CASE AddNode(p)
    <3>1. pc[p] = "write" /\ pc'[p] = "store" /\ nodes' = Upserted(nodes, NodeAt(p))
      BY <1>1, <2>5 DEF AddNode, Goto, TypeOK, ProcessOK
    <3>2. at[p] \in Position /\ Current(p) \in Result
      BY <1>1, <3>1, CurrentType
    <3>3. /\ at'[p].file = at[p].file /\ at'[p].result = at[p].result
          /\ at'[p].item = at[p].item + 1
      BY <1>1, <2>5, <3>2, AdvancedType, PositionSet DEF AddNode
    <3>4. Current(p)' = Current(p)
      BY <3>3 DEF Current
    <3>5. IsStored(nodes', NodeAt(p).id)
      BY <3>1 DEF Upserted, IsStored
    <3>6. ASSUME NEW i \in DOMAIN Current(p).nodes, i < at[p].item + 1
          PROVE  IsStored(nodes', Current(p).nodes[i].id)
      <4>1. i \in Nat /\ at[p].item \in Nat
        BY <3>2 DEF Result, Position
      <4>2. CASE i < at[p].item
        BY <1>1, <3>1, <4>2 DEF ProgressInv, Progress, IsStored
      <4>3. CASE i = at[p].item
        BY <3>5, <4>3 DEF NodeAt
      <4> QED
        BY <3>6, <4>1, <4>2, <4>3
    <3> QED
      BY <3>1, <3>3, <3>4, <3>6 DEF Progress
  <2>6. CASE AddEdge(p)
    <3>1. pc[p] = "store" /\ pc'[p] = "store" /\ nodes' = nodes /\ ~AtNode(p)
      BY <1>1, <2>6 DEF AddEdge
    <3>2. at[p] \in Position /\ Current(p) \in Result
      BY <1>1, <3>1, CurrentType
    <3>3. /\ at'[p].file = at[p].file /\ at'[p].result = at[p].result
          /\ at'[p].item = at[p].item + 1
      BY <1>1, <2>6, <3>2, AdvancedType, PositionSet DEF AddEdge
    <3>4. Current(p)' = Current(p)
      BY <3>3 DEF Current
    <3>5. \A i \in DOMAIN Current(p).nodes : i < at[p].item
      BY <3>1, <3>2 DEF AtNode, Result, Position
    <3> QED
      BY <3>1, <3>3, <3>4, <3>5 DEF ProgressInv, Progress
  <2>7. CASE EndResult(p) \/ Fail(p)
    <3>1. at[p] \in Position
      BY <1>1, <2>7 DEF TypeOK, PositionOK, EndResult, Fail
    <3>2. at'[p].item = 1
      BY <1>1, <2>7, <3>1, PassedType, PositionSet DEF EndResult, Fail
    <3>3. pc'[p] = "ask"
      BY <1>1, <2>7 DEF TypeOK, ProcessOK, Goto, EndResult, Fail
    <3> QED
      BY <3>2, <3>3 DEF Progress
  <2> QED
    BY <2>1, <2>2, <2>3, <2>4, <2>5, <2>6, <2>7 DEF Step, Work
<1> QED
  BY <1>2, <1>3

LEMMA ProgressAlways == Spec => []ProgressInv
<1>1. Init => ProgressInv
  BY InitTypeOK DEF Init, ProgressInv, Progress
<1>2. ProgressInv /\ TypeOK' /\ [Next]_vars => ProgressInv'
  <2> SUFFICES ASSUME ProgressInv, TypeOK', [Next]_vars PROVE ProgressInv'
    OBVIOUS
  <2>1. CASE UNCHANGED vars
    BY <2>1 DEF vars, ProgressInv, Progress, Current
  <2>2. ASSUME NEW p \in Processes, Step(p) PROVE ProgressInv'
    BY <2>2, ProgressStep DEF ProgressInv
  <2> QED
    BY <2>1, <2>2 DEF Next, Step
<1> QED
  BY <1>1, <1>2, TypeCorrect, PTL DEF Spec

(* An edge is in the graph only with all nodes of a result it belongs to,  *)
(* whatever failed and wherever a process died: add_nodes comes before     *)
(* add_edges, and an exception ends both.                                  *)
THEOREM EdgesFollowNodes == Spec => []EdgesAfterNodes
<1>1. Init => EdgesAfterNodes
  BY DEF Init, EdgesAfterNodes
<1>2. ProgressInv /\ EdgesAfterNodes /\ [Next]_vars => EdgesAfterNodes'
  <2> SUFFICES ASSUME ProgressInv, EdgesAfterNodes, [Next]_vars PROVE EdgesAfterNodes'
    OBVIOUS
  <2>1. TypeOK
    BY DEF ProgressInv
  <2>2. \A r : HasNodes(r) => HasNodes(r)'
    BY <2>1, Grows
  <2>3. CASE edges' = edges
    BY <2>2, <2>3 DEF EdgesAfterNodes
  <2>4. ASSUME NEW p \in Processes, AddEdge(p) PROVE EdgesAfterNodes'
    <3>1. pc[p] = "store" /\ ~AtNode(p) /\ EdgeNo(p) <= Len(Current(p).edges)
      BY <2>4 DEF AddEdge
    <3>2. at[p] \in Position /\ Current(p) \in Result
      BY <2>1, <3>1, CurrentType
    <3>3. edges' = edges \cup {Current(p).edges[EdgeNo(p)]}
      BY <2>4 DEF AddEdge, Linked
    <3>4. HasNodes(Current(p))
      <4>1. \A i \in DOMAIN Current(p).nodes : i < at[p].item
        BY <3>1, <3>2 DEF AtNode, Result, Position
      <4> QED
        BY <3>1, <4>1 DEF ProgressInv, Progress, HasNodes
    <3>5. EdgeNo(p) \in DOMAIN Current(p).edges
      <4>1. Len(Current(p).nodes) \in Nat /\ at[p].item \in Nat
        BY <3>2 DEF Result, Position
      <4> QED
        BY <3>1, <3>2, <4>1 DEF AtNode, EdgeNo, Result
    <3>6. at[p].file \in Files /\ at[p].result \in DOMAIN Output[at[p].file]
      BY <2>1, <3>1, <3>2 DEF TypeOK, PositionOK, Position
    <3>7. Current(p).edges[EdgeNo(p)] \in Range(Current(p).edges)
      BY <3>5 DEF Range
    <3> QED
      BY <2>2, <3>3, <3>4, <3>6, <3>7 DEF EdgesAfterNodes, Current
  <2> QED
    BY <2>3, <2>4 DEF Next, Work, vars, Start, Pick, Finish, Ask, NextFile, LookUp, AddNode,
       EndResult, Fail, Crash
<1> QED
  BY <1>1, <1>2, ProgressAlways, PTL DEF Spec

-----------------------------------------------------------------------------
(* What a run without exceptions has stored: all of every file it has      *)
(* left behind, and of the file at hand every result it has passed and the *)
(* edges of the present one that it has passed.                            *)
ResultDone(r) == HasNodes(r) /\ HasEdges(r)

FileDone(f) == \A k \in DOMAIN Output[f] : ResultDone(ResultOf(f, k))

FilesDone(p) ==
    \A f \in Files \ left[p] : pc[p] = "pick" \/ f # at[p].file => FileDone(f)

ResultsDone(p) ==
    pc[p] \in {"ask", "store", "write"} =>
        \A k \in DOMAIN Output[at[p].file] : k < at[p].result => ResultDone(ResultOf(at[p].file, k))

EdgesDone(p) ==
    pc[p] = "store" => \A i \in DOMAIN Current(p).edges : i < EdgeNo(p) => Current(p).edges[i] \in edges

RunDone(p) == pc[p] # "idle" /\ clean[p] => FilesDone(p) /\ ResultsDone(p) /\ EdgesDone(p)

RunInv == ProgressInv /\ RunIsComplete /\ \A p \in Processes : RunDone(p)

LEMMA DoneStays ==
    ASSUME TypeOK, [Next]_vars
    PROVE  /\ edges \subseteq edges'
           /\ \A r : ResultDone(r) => ResultDone(r)'
           /\ \A f : FileDone(f) => FileDone(f)'
<1>1. edges \subseteq edges' /\ \A r : ResultDone(r) => ResultDone(r)'
  BY Grows DEF ResultDone
<1> QED
  BY <1>1 DEF FileDone

(* A process passes to the next item only when the present one is stored,  *)
(* to the next result only when all items are.                             *)
LEMMA EdgePassed ==
    ASSUME RunInv, NEW p \in Processes, AddEdge(p) \/ EndResult(p), clean[p]
    PROVE  /\ HasNodes(Current(p))
           /\ at[p] \in Position /\ Current(p) \in Result
           /\ \A i \in DOMAIN Current(p).edges : i < EdgeNo(p) => Current(p).edges[i] \in edges
           /\ EdgeNo(p) \in Nat \ {0} /\ DOMAIN Current(p).edges = 1 .. Len(Current(p).edges)
           /\ Len(Current(p).edges) \in Nat
<1>1. pc[p] = "store" /\ ~AtNode(p)
  BY DEF AddEdge, EndResult
<1>2. at[p] \in Position /\ Current(p) \in Result
  BY <1>1, CurrentType DEF RunInv, ProgressInv
<1>3. \A i \in DOMAIN Current(p).nodes : i < at[p].item
  BY <1>1, <1>2 DEF AtNode, Result, Position
<1>4. HasNodes(Current(p))
  BY <1>1, <1>3 DEF RunInv, ProgressInv, Progress, HasNodes
<1>5. Len(Current(p).nodes) \in Nat /\ at[p].item \in Nat
  BY <1>2 DEF Result, Position
<1>6. EdgeNo(p) \in Nat \ {0}
  BY <1>1, <1>5 DEF AtNode, EdgeNo
<1>7. DOMAIN Current(p).edges = 1 .. Len(Current(p).edges) /\ Len(Current(p).edges) \in Nat
  BY <1>2 DEF Result
<1>8. EdgesDone(p)
  BY <1>1 DEF RunInv, RunDone
<1> QED
  BY <1>1, <1>2, <1>4, <1>6, <1>7, <1>8 DEF EdgesDone

LEMMA RunStep ==
    ASSUME RunInv, NEW p \in Processes, Step(p), pc'[p] # "idle", clean'[p]
    PROVE  FilesDone(p)' /\ ResultsDone(p)' /\ EdgesDone(p)'
<1>1. TypeOK /\ [Next]_vars
  BY DEF RunInv, ProgressInv, Next, Step
<1>2. /\ edges \subseteq edges'
      /\ \A r : ResultDone(r) => ResultDone(r)'
      /\ \A f : FileDone(f) => FileDone(f)'
  BY <1>1, DoneStays
<1>3. pc \in [Processes -> PC] /\ clean \in [Processes -> BOOLEAN]
      /\ left \in [Processes -> SUBSET Files] /\ at \in [Processes -> Position \cup {<< >>}]
  BY <1>1 DEF TypeOK, ProcessOK
<1>4. ASSUME pc[p] # "idle", clean[p] PROVE FilesDone(p) /\ ResultsDone(p) /\ EdgesDone(p)
  BY <1>4 DEF RunInv, RunDone
<1>5. CASE Start(p)
  BY <1>3, <1>5 DEF Start, Goto, FilesDone, ResultsDone, EdgesDone
<1>6. CASE Pick(p)
  <2>1. pc[p] = "pick" /\ pc'[p] = "ask" /\ clean[p]
    BY <1>3, <1>6 DEF Pick, Goto
  <2>2. PICK f \in left[p] :
          /\ left' = [left EXCEPT ![p] = @ \ {f}]
          /\ at' = [at EXCEPT ![p] = [file |-> f, result |-> 1, item |-> 1]]
    BY <1>6 DEF Pick
  <2>3. at'[p] = [file |-> f, result |-> 1, item |-> 1] /\ left'[p] = left[p] \ {f}
    BY <1>3, <2>2
  <2>4. FilesDone(p)'
    BY <1>2, <1>4, <2>1, <2>3 DEF FilesDone
  <2>5. ResultsDone(p)'
    <3>1. f \in Files
      BY <1>3
    <3>2. Output[f] \in Seq(Result)
      BY <3>1
    <3> QED
      BY <2>3, <3>2 DEF ResultsDone
  <2> QED
    BY <2>1, <2>4, <2>5 DEF EdgesDone
<1>7. CASE Finish(p) \/ Crash(p)
  BY <1>3, <1>7 DEF Finish, Crash, Goto
<1>8. CASE Ask(p)
  <2>1. pc[p] = "ask" /\ pc'[p] = "store" /\ clean[p] /\ at' = at /\ left' = left /\ edges' = edges
    BY <1>3, <1>8 DEF Ask, Goto
  <2>2. FilesDone(p)' /\ ResultsDone(p)'
    BY <1>2, <1>4, <2>1 DEF FilesDone, ResultsDone
  <2>3. at[p].item = 1
    BY <2>1 DEF RunInv, ProgressInv, Progress
  <2>4. Current(p)' \in Result /\ Current(p)' = Current(p)
    <3>1. at[p] \in Position /\ at[p].result >= 1 /\ at[p].result <= Len(Output[at[p].file])
      BY <1>1, <1>8, <2>1 DEF Ask, TypeOK, PositionOK
    <3>2. Output[at[p].file] \in Seq(Result) /\ at[p].result \in Nat
      BY <3>1 DEF Position
    <3> QED
      BY <2>1, <3>1, <3>2 DEF Current
  <2>5. EdgesDone(p)'
    <3>1. Len(Current(p).nodes) \in Nat /\ DOMAIN Current(p).edges \subseteq Nat \ {0}
      BY <2>4 DEF Result
    <3> QED
      BY <2>1, <2>3, <2>4, <3>1 DEF EdgesDone, EdgeNo
  <2> QED
    BY <2>2, <2>5
<1>9. CASE NextFile(p)
  <2>1. /\ pc[p] = "ask" /\ pc'[p] = "pick" /\ clean[p] /\ at' = at /\ left' = left
        /\ at[p].result > Len(Output[at[p].file])
    BY <1>3, <1>9 DEF NextFile, Goto
  <2>2. at[p] \in Position
    BY <1>1, <2>1 DEF TypeOK, PositionOK
  <2>3. FileDone(at[p].file)
    <3>1. Output[at[p].file] \in Seq(Result) /\ at[p].result \in Nat
      BY <2>2 DEF Position
    <3>2. \A k \in DOMAIN Output[at[p].file] : k < at[p].result
      BY <2>1, <3>1
    <3> QED
      BY <1>4, <2>1, <3>2 DEF FileDone, ResultsDone
  <2>4. FilesDone(p)'
    BY <1>2, <1>4, <2>1, <2>3 DEF FilesDone
  <2> QED
    BY <2>1, <2>4 DEF ResultsDone, EdgesDone
<1>10. CASE LookUp(p)
  <2>1. pc[p] = "store" /\ pc'[p] = "write" /\ clean[p] /\ at' = at /\ left' = left
    BY <1>3, <1>10 DEF LookUp, Goto
  <2> QED
    BY <1>2, <1>4, <2>1 DEF FilesDone, ResultsDone, EdgesDone
<1>11. CASE AddNode(p)
  <2>1. pc[p] = "write" /\ pc'[p] = "store" /\ clean[p] /\ left' = left
    BY <1>3, <1>11 DEF AddNode, Goto
  <2>2. at[p] \in Position /\ Current(p) \in Result /\ AtNode(p)
    BY <1>1, <2>1, CurrentType DEF TypeOK, PositionOK
  <2>3. /\ at'[p].file = at[p].file /\ at'[p].result = at[p].result
        /\ at'[p].item = at[p].item + 1
    BY <1>1, <1>11, <2>2, AdvancedType, PositionSet DEF AddNode
  <2>4. FilesDone(p)' /\ ResultsDone(p)'
    BY <1>2, <1>4, <2>1, <2>3 DEF FilesDone, ResultsDone
  <2>5. Current(p)' = Current(p)
    BY <2>3 DEF Current
  <2>6. EdgesDone(p)'
    <3>0. DOMAIN Current(p).edges \subseteq Nat \ {0}
      BY <2>2 DEF Result
    <3>1. Len(Current(p).nodes) \in Nat /\ at[p].item \in Nat
      BY <2>2 DEF Result, Position
    <3>2. EdgeNo(p)' = (at[p].item + 1) - Len(Current(p).nodes)
      BY <2>3, <2>5, <3>1 DEF EdgeNo
    <3>3. EdgeNo(p)' \in Int /\ EdgeNo(p)' <= 1
      BY <2>2, <3>1, <3>2 DEF AtNode
    <3>4. \A i \in DOMAIN Current(p).edges : ~(i < EdgeNo(p)')
      BY <3>0, <3>3
    <3> QED
      BY <2>5, <3>4 DEF EdgesDone
  <2> QED
    BY <2>4, <2>6
<1>12. CASE AddEdge(p)
  <2>1. pc[p] = "store" /\ pc'[p] = "store" /\ clean[p] /\ left' = left
        /\ edges' = edges \cup {Current(p).edges[EdgeNo(p)]}
    BY <1>3, <1>12 DEF AddEdge, Linked
  <2>2. /\ at[p] \in Position /\ EdgeNo(p) \in Nat \ {0} /\ Current(p) \in Result
        /\ DOMAIN Current(p).edges \subseteq Nat
        /\ \A i \in DOMAIN Current(p).edges : i < EdgeNo(p) => Current(p).edges[i] \in edges
    BY <1>12, <2>1, EdgePassed
  <2>3. /\ at'[p].file = at[p].file /\ at'[p].result = at[p].result
        /\ at'[p].item = at[p].item + 1
    BY <1>1, <1>12, <2>2, AdvancedType, PositionSet DEF AddEdge
  <2>4. FilesDone(p)' /\ ResultsDone(p)'
    BY <1>2, <1>4, <2>1, <2>3 DEF FilesDone, ResultsDone
  <2>5. Current(p)' = Current(p)
    BY <2>3 DEF Current
  <2>6. EdgeNo(p)' = EdgeNo(p) + 1
    <3>1. Len(Current(p).nodes) \in Nat /\ at[p].item \in Nat
      BY <2>2 DEF Result, Position
    <3> QED
      BY <2>3, <2>5, <3>1 DEF EdgeNo
  <2>7. EdgesDone(p)'
    <3> SUFFICES ASSUME NEW i \in DOMAIN Current(p).edges, i < EdgeNo(p) + 1
                 PROVE  Current(p).edges[i] \in edges'
      BY <2>5, <2>6 DEF EdgesDone
    <3>1. i < EdgeNo(p) \/ i = EdgeNo(p)
      BY <2>2
    <3> QED
      BY <2>1, <2>2, <3>1
  <2> QED
    BY <2>4, <2>7
<1>13. CASE EndResult(p)
  <2>1. pc[p] = "store" /\ pc'[p] = "ask" /\ clean[p] /\ left' = left
        /\ EdgeNo(p) > Len(Current(p).edges)
    BY <1>3, <1>13 DEF EndResult, Goto
  <2>2. /\ at[p] \in Position /\ EdgeNo(p) \in Nat \ {0} /\ HasNodes(Current(p))
        /\ DOMAIN Current(p).edges = 1 .. Len(Current(p).edges) /\ Len(Current(p).edges) \in Nat
        /\ \A i \in DOMAIN Current(p).edges : i < EdgeNo(p) => Current(p).edges[i] \in edges
    BY <1>13, <2>1, EdgePassed
  <2>3. ResultDone(Current(p))
    <3>1. \A i \in DOMAIN Current(p).edges : i < EdgeNo(p)
      BY <2>1, <2>2
    <3> QED
      BY <2>2, <3>1 DEF ResultDone, HasEdges
  <2>4. at'[p].file = at[p].file /\ at'[p].result = at[p].result + 1
    BY <1>1, <1>13, <2>2, PassedType, PositionSet DEF EndResult
  <2>5. FilesDone(p)'
    BY <1>2, <1>4, <2>1, <2>4 DEF FilesDone
  <2>6. ResultsDone(p)'
    <3>1. Output[at[p].file] \in Seq(Result) /\ at[p].result \in Nat
      BY <2>2 DEF Position
    <3>2. \A k \in DOMAIN Output[at[p].file] :
            k < at[p].result + 1 => k < at[p].result \/ k = at[p].result
      BY <3>1
    <3>3. \A k \in DOMAIN Output[at[p].file] :
            k < at[p].result + 1 => ResultDone(Output[at[p].file][k])
      BY <1>4, <2>1, <2>3, <3>2 DEF ResultsDone, Current
    <3> QED
      BY <1>2, <2>4, <3>3 DEF ResultsDone
  <2> QED
    BY <2>1, <2>5, <2>6 DEF EdgesDone
<1>14. CASE Fail(p)
  BY <1>3, <1>14 DEF Fail
<1> QED
  BY <1>5, <1>6, <1>7, <1>8, <1>9, <1>10, <1>11, <1>12, <1>13, <1>14 DEF Step, Work

(* Once one run has ended without an exception, everything any extractor   *)
(* found in any file is in the graph.                                      *)
THEOREM CompleteRuns == Spec => []RunIsComplete
<1>1. Init => RunInv
  <2> SUFFICES ASSUME Init PROVE RunInv
    OBVIOUS
  <2>1. ProgressInv
    BY InitTypeOK DEF Init, ProgressInv, Progress
  <2> QED
    BY <2>1 DEF Init, RunInv, RunDone, RunIsComplete
<1>2. RunInv /\ ProgressInv' /\ [Next]_vars => RunInv'
  <2> SUFFICES ASSUME RunInv, ProgressInv', [Next]_vars PROVE RunInv'
    OBVIOUS
  <2>1. CASE UNCHANGED vars
    BY <2>1 DEF vars, RunInv, RunIsComplete, RunDone, FilesDone, ResultsDone, EdgesDone, FileDone,
       ResultDone, HasNodes, HasEdges, IsStored, Current, EdgeNo
  <2>2. ASSUME NEW p \in Processes, Step(p) PROVE RunInv'
    <3>1. TypeOK
      BY DEF RunInv, ProgressInv
    <3>2. /\ edges \subseteq edges'
          /\ \A r : ResultDone(r) => ResultDone(r)'
          /\ \A f : FileDone(f) => FileDone(f)'
      BY <3>1, DoneStays
    <3>3. ASSUME NEW q \in Processes PROVE RunDone(q)'
      <4>1. CASE q = p
        BY <2>2, <4>1, RunStep DEF RunDone
      <4>2. CASE q # p
        <5>1. pc'[q] = pc[q] /\ at'[q] = at[q] /\ left'[q] = left[q] /\ clean'[q] = clean[q]
          BY <2>2, <3>1, <4>2, Frame
        <5>2. Current(q)' = Current(q) /\ EdgeNo(q)' = EdgeNo(q)
          BY <5>1 DEF Current, EdgeNo
        <5>3. FilesDone(q) => FilesDone(q)'
          BY <3>2, <5>1 DEF FilesDone
        <5>4. ResultsDone(q) => ResultsDone(q)'
          BY <3>2, <5>1 DEF ResultsDone
        <5>5. EdgesDone(q) => EdgesDone(q)'
          BY <3>2, <5>1, <5>2 DEF EdgesDone
        <5> QED
          BY <5>1, <5>3, <5>4, <5>5 DEF RunInv, RunDone
      <4> QED
        BY <4>1, <4>2
    <3>4. RunIsComplete'
      <4>1. complete' => complete \/ (Finish(p) /\ clean[p])
        BY <2>2 DEF Step, Work, Start, Pick, Finish, Ask, NextFile, LookUp, AddNode, AddEdge,
           EndResult, Fail, Crash
      <4>2. ASSUME Finish(p), clean[p] PROVE \A f \in Files : FileDone(f)
        <5>1. pc[p] = "pick" /\ left[p] = {}
          BY <4>2 DEF Finish
        <5> QED
          BY <4>2, <5>1 DEF RunInv, RunDone, FilesDone
      <4>3. complete => \A f \in Files : FileDone(f)
        BY DEF RunInv, RunIsComplete, FileDone, ResultDone
      <4>4. complete' => \A f \in Files : FileDone(f)'
        BY <3>2, <4>1, <4>2, <4>3
      <4> QED
        BY <4>4 DEF RunIsComplete, FileDone, ResultDone
    <3> QED
      BY <3>3, <3>4 DEF RunInv
  <2> QED
    BY <2>1, <2>2 DEF Next, Step
<1>3. RunInv => RunIsComplete
  BY DEF RunInv
<1> QED
  BY <1>1, <1>2, <1>3, ProgressAlways, PTL DEF Spec

-----------------------------------------------------------------------------
(* What is in the graph is what an extractor has found in some file.       *)
FoundNodes == {n \in Nodes : \E f \in Files : \E k \in DOMAIN Output[f] : n \in Range(ResultOf(f, k).nodes)}
FoundEdges == {e \in Edges : \E f \in Files : \E k \in DOMAIN Output[f] : e \in Range(ResultOf(f, k).edges)}

FoundInv == \A id \in DOMAIN nodes : nodes[id] \in FoundNodes

(* Once one run has ended without an exception, the ids and the edges in   *)
(* the graph are exactly those of the code.  Only where two results        *)
(* describe a node differently can the order of the files, and what other  *)
(* runs did, decide what it is.                                            *)
GraphIsTheCode ==
    complete =>
        /\ DOMAIN nodes = {n.id : n \in FoundNodes}
        /\ edges = FoundEdges
        /\ \A n \in FoundNodes : (\A m \in FoundNodes : m.id = n.id => m = n) => nodes[n.id] = n

LEMMA FoundAlways == Spec => []FoundInv
<1>1. Init => FoundInv
  BY DEF Init, FoundInv, NoNodes
<1>2. TypeOK /\ FoundInv /\ [Next]_vars => FoundInv'
  <2> SUFFICES ASSUME TypeOK, FoundInv, [Next]_vars PROVE FoundInv'
    OBVIOUS
  <2>1. CASE nodes' = nodes
    BY <2>1 DEF FoundInv
  <2>2. ASSUME NEW p \in Processes, AddNode(p) PROVE FoundInv'
    <3>1. pc[p] = "write" /\ AtNode(p) /\ nodes' = Upserted(nodes, NodeAt(p))
      BY <2>2 DEF AddNode, TypeOK, PositionOK
    <3>2. at[p] \in Position /\ Current(p) \in Result /\ NodeAt(p) \in Nodes /\ at[p].item \in Nat \ {0}
      BY <3>1, CurrentType
    <3>3. at[p].file \in Files /\ at[p].result \in DOMAIN Output[at[p].file]
      BY <3>1, <3>2 DEF TypeOK, PositionOK, Position
    <3>4. NodeAt(p) \in Range(Current(p).nodes)
      BY <3>1, <3>2 DEF AtNode, NodeAt, Result, Range
    <3>5. NodeAt(p) \in FoundNodes
      BY <3>2, <3>3, <3>4 DEF FoundNodes, Current
    <3>6. \A id \in DOMAIN nodes' : nodes'[id] = NodeAt(p) \/ (id \in DOMAIN nodes /\ nodes'[id] = nodes[id])
      BY <3>1 DEF Upserted
    <3> QED
      BY <3>5, <3>6 DEF FoundInv
  <2> QED
    BY <2>1, <2>2 DEF Next, Work, vars, storeVars, Start, Pick, Finish, Ask, NextFile, LookUp, AddEdge,
       EndResult, Fail, Crash
<1> QED
  BY <1>1, <1>2, TypeCorrect, PTL DEF Spec

(* GraphIsTheCode: the order in which the files come, failures and deaths  *)
(* of earlier runs and other processes leave no trace in the ids and edges *)
(* (graph/sqlite_store.py:108 and 162 write each under its own key).       *)
THEOREM CodeDecides == Spec => []GraphIsTheCode
<1>1. TypeOK /\ FoundInv /\ EdgesAfterNodes /\ RunIsComplete => GraphIsTheCode
  <2> SUFFICES ASSUME TypeOK, FoundInv, EdgesAfterNodes, RunIsComplete, complete
               PROVE  /\ DOMAIN nodes = {n.id : n \in FoundNodes}
                      /\ edges = FoundEdges
                      /\ \A n \in FoundNodes :
                            (\A m \in FoundNodes : m.id = n.id => m = n) => nodes[n.id] = n
    BY DEF GraphIsTheCode
  <2>1. \A id \in DOMAIN nodes : nodes[id] \in FoundNodes /\ nodes[id].id = id
    BY DEF TypeOK, StoreOK, FoundInv
  <2>2. \A f \in Files : \A k \in DOMAIN Output[f] : HasNodes(ResultOf(f, k)) /\ HasEdges(ResultOf(f, k))
    BY DEF RunIsComplete
  <2>3. \A n \in FoundNodes : n.id \in DOMAIN nodes
    BY <2>2 DEF FoundNodes, Range, HasNodes, IsStored
  <2>4. DOMAIN nodes = {n.id : n \in FoundNodes}
    BY <2>1, <2>3
  <2>5. edges \subseteq FoundEdges
    BY DEF EdgesAfterNodes, FoundEdges, TypeOK, StoreOK
  <2>6. FoundEdges \subseteq edges
    BY <2>2 DEF FoundEdges, Range, HasEdges
  <2> QED
    BY <2>1, <2>3, <2>4, <2>5, <2>6
<1> QED
  BY <1>1, TypeCorrect, FoundAlways, EdgesFollowNodes, CompleteRuns, PTL

-----------------------------------------------------------------------------
(* What the history says of a new node.  Between add_node's look-up and    *)
(* its write, no other process has made the node unless runs overlap.      *)
Known == {history[i].node.id : i \in DOMAIN history}

LookUpHolds(p) ==
    pc[p] = "write" =>
        /\ op[p] = "update" => IsStored(nodes, NodeAt(p).id)
        /\ ~overlapped /\ op[p] = "add" => ~IsStored(nodes, NodeAt(p).id)

HistoryInv ==
    /\ TypeOK
    /\ HistoryTellsNew
    /\ DOMAIN nodes = Known
    /\ ~overlapped => \A p, q \in Processes : pc[p] # "idle" /\ pc[q] # "idle" => p = q
    /\ \A p \in Processes : LookUpHolds(p)

(* A row is first of its id exactly if the id is not known before it.      *)
LEMMA NewRow ==
    ASSUME HistoryInv, NEW row \in [node : Nodes, op : {"add", "update"}],
           history' = Append(history, row), overlapped' = overlapped,
           row.op = "update" => row.node.id \in Known,
           ~overlapped /\ row.op = "add" => row.node.id \notin Known
    PROVE  HistoryTellsNew' /\ Known' = Known \cup {row.node.id}
<1>1. history \in Seq([node : Nodes, op : {"add", "update"}])
  BY DEF HistoryInv, TypeOK, StoreOK
<1>2. /\ DOMAIN history' = DOMAIN history \cup {Len(history) + 1}
      /\ \A i \in DOMAIN history : history'[i] = history[i]
      /\ history'[Len(history) + 1] = row
      /\ Len(history) \in Nat
      /\ \A i \in DOMAIN history : i \in 1 .. Len(history)
      /\ \A i \in 1 .. Len(history) : i \in DOMAIN history
  BY <1>1
<1>3. Known' = Known \cup {row.node.id}
  BY <1>2 DEF Known
<1>4. ASSUME NEW i \in DOMAIN history'
      PROVE  LET first == \A j \in 1 .. i - 1 : history'[j].node.id # history'[i].node.id
             IN  /\ first => history'[i].op = "add"
                 /\ ~overlapped' /\ history'[i].op = "add" => first
  <2>1. CASE i \in DOMAIN history
    <3>1. \A j \in 1 .. i - 1 : j \in DOMAIN history
      BY <1>2, <2>1
    <3> QED
      BY <1>2, <2>1, <3>1 DEF HistoryInv, HistoryTellsNew
  <2>2. CASE i = Len(history) + 1
    <3>1. 1 .. i - 1 = DOMAIN history
      BY <1>1, <2>2
    <3>2. (\A j \in 1 .. i - 1 : history'[j].node.id # history'[i].node.id)
             <=> row.node.id \notin Known
      BY <1>2, <2>2, <3>1 DEF Known
    <3>3. row.op \in {"add", "update"}
      OBVIOUS
    <3> QED
      BY <1>2, <2>2, <3>2, <3>3
  <2> QED
    BY <1>2, <1>4, <2>1, <2>2
<1> QED
  BY <1>3, <1>4 DEF HistoryTellsNew

LEMMA HistoryStep ==
    ASSUME HistoryInv, TypeOK', NEW p \in Processes, Step(p)
    PROVE  HistoryInv'
<1>1. TypeOK /\ DOMAIN nodes \subseteq DOMAIN nodes'
  BY Grows DEF HistoryInv, Next, Step
<1>2. CASE Start(p)
  <2>1. /\ pc' = [pc EXCEPT ![p] = "pick"] /\ UNCHANGED <<nodes, history, at, op>>
        /\ overlapped' = (overlapped \/ \E q \in Processes \ {p} : pc[q] # "idle")
    BY <1>2 DEF Start, Goto
  <2>2. HistoryTellsNew' /\ (DOMAIN nodes = Known)'
    BY <2>1 DEF HistoryInv, HistoryTellsNew, Known
  <2>3. (~overlapped => \A q, r \in Processes : pc[q] # "idle" /\ pc[r] # "idle" => q = r)'
    BY <1>1, <2>1 DEF TypeOK, ProcessOK
  <2>4. ASSUME NEW q \in Processes PROVE LookUpHolds(q)'
    BY <1>1, <2>1 DEF HistoryInv, LookUpHolds, TypeOK, ProcessOK, NodeAt, Current
  <2> QED
    BY <2>2, <2>3, <2>4, TypeOK' DEF HistoryInv
<1>3. CASE AddNode(p)
  <2>1. /\ pc[p] = "write" /\ pc' = [pc EXCEPT ![p] = "store"]
        /\ nodes' = Upserted(nodes, NodeAt(p))
        /\ history' = Append(history, [node |-> NodeAt(p), op |-> op[p]])
        /\ overlapped' = overlapped
    BY <1>3 DEF AddNode, Goto, Recorded
  <2>2. NodeAt(p) \in Nodes /\ op[p] \in {"add", "update"}
    BY <1>1, <2>1, CurrentType DEF TypeOK, ProcessOK, PositionOK
  <2> DEFINE row == [node |-> NodeAt(p), op |-> op[p]]
  <2>3. /\ row \in [node : Nodes, op : {"add", "update"}]
        /\ row.node = NodeAt(p) /\ row.op = op[p]
    BY <2>2
  <2>4. /\ op[p] = "update" => NodeAt(p).id \in Known
        /\ ~overlapped /\ op[p] = "add" => NodeAt(p).id \notin Known
    BY <2>1 DEF HistoryInv, LookUpHolds, IsStored
  <2>5. HistoryTellsNew' /\ Known' = Known \cup {NodeAt(p).id}
    <3> HIDE DEF row
    <3>1. /\ row.op = "update" => row.node.id \in Known
          /\ ~overlapped /\ row.op = "add" => row.node.id \notin Known
      BY <2>3, <2>4
    <3>2. history' = Append(history, row)
      BY <2>1 DEF row
    <3> QED
      BY <2>1, <2>3, <3>1, <3>2, NewRow
  <2>6. DOMAIN nodes' = Known'
    BY <2>1, <2>5 DEF HistoryInv, Upserted
  <2>7. (~overlapped => \A q, r \in Processes : pc[q] # "idle" /\ pc[r] # "idle" => q = r)'
    BY <1>1, <2>1 DEF HistoryInv, TypeOK, ProcessOK
  <2>8. LookUpHolds(p)'
    BY <1>1, <2>1 DEF LookUpHolds, TypeOK, ProcessOK
  <2>9. ASSUME NEW q \in Processes, q # p PROVE LookUpHolds(q)'
    <3>1. pc'[q] = pc[q] /\ at'[q] = at[q] /\ op'[q] = op[q]
      BY <1>1, <2>9, Frame DEF Step, Work
    <3>2. pc[q] = "write" => overlapped
      BY <2>1, <2>9 DEF HistoryInv
    <3> QED
      BY <1>1, <2>1, <3>1, <3>2 DEF HistoryInv, LookUpHolds, NodeAt, Current, IsStored
  <2> QED
    BY <2>5, <2>6, <2>7, <2>8, <2>9, TypeOK' DEF HistoryInv
<1>4. CASE LookUp(p)
  <2>1. /\ pc[p] = "store" /\ pc' = [pc EXCEPT ![p] = "write"]
        /\ op' = [op EXCEPT ![p] = OpFor(nodes, NodeAt(p))]
        /\ UNCHANGED <<nodes, history, at, overlapped>>
    BY <1>4 DEF LookUp, Goto
  <2>2. HistoryTellsNew' /\ (DOMAIN nodes = Known)'
    BY <2>1 DEF HistoryInv, HistoryTellsNew, Known
  <2>3. (~overlapped => \A q, r \in Processes : pc[q] # "idle" /\ pc[r] # "idle" => q = r)'
    BY <1>1, <2>1 DEF HistoryInv, TypeOK, ProcessOK
  <2>4. LookUpHolds(p)'
    BY <1>1, <2>1 DEF LookUpHolds, TypeOK, ProcessOK, NodeAt, Current, OpFor
  <2>5. ASSUME NEW q \in Processes, q # p PROVE LookUpHolds(q)'
    BY <1>1, <2>1, <2>5 DEF HistoryInv, LookUpHolds, TypeOK, ProcessOK, NodeAt, Current
  <2> QED
    BY <2>2, <2>3, <2>4, <2>5, TypeOK' DEF HistoryInv
<1>5. CASE Pick(p) \/ Finish(p) \/ Ask(p) \/ NextFile(p) \/ AddEdge(p) \/ EndResult(p)
           \/ Fail(p) \/ Crash(p)
  <2>1. /\ pc[p] # "idle" /\ pc'[p] # "write"
        /\ UNCHANGED <<nodes, history, overlapped>>
    BY <1>1, <1>5 DEF Goto, TypeOK, ProcessOK, Pick, Finish, Ask, NextFile, AddEdge, EndResult,
       Fail, Crash
  <2>2. HistoryTellsNew' /\ (DOMAIN nodes = Known)'
    BY <2>1 DEF HistoryInv, HistoryTellsNew, Known
  <2>3. \A q \in Processes \ {p} : pc'[q] = pc[q] /\ at'[q] = at[q] /\ op'[q] = op[q]
    BY <1>1, Frame
  <2>4. (~overlapped => \A q, r \in Processes : pc[q] # "idle" /\ pc[r] # "idle" => q = r)'
    BY <2>1, <2>3 DEF HistoryInv
  <2>5. \A q \in Processes : LookUpHolds(q)'
    BY <2>1, <2>3 DEF HistoryInv, LookUpHolds, NodeAt, Current
  <2> QED
    BY <2>2, <2>4, <2>5, TypeOK' DEF HistoryInv
<1> QED
  BY <1>2, <1>3, <1>4, <1>5 DEF Step, Work

LEMMA HistoryAlways == Spec => []HistoryInv
<1>1. Init => HistoryInv
  BY InitTypeOK DEF Init, HistoryInv, HistoryTellsNew, Known, LookUpHolds, NoNodes
<1>2. HistoryInv /\ TypeOK' /\ [Next]_vars => HistoryInv'
  <2> SUFFICES ASSUME HistoryInv, TypeOK', [Next]_vars PROVE HistoryInv'
    OBVIOUS
  <2>1. CASE UNCHANGED vars
    BY <2>1 DEF vars, HistoryInv, HistoryTellsNew, Known, LookUpHolds, NodeAt, Current
  <2>2. ASSUME NEW p \in Processes, Step(p) PROVE HistoryInv'
    BY <2>2, HistoryStep
  <2> QED
    BY <2>1, <2>2 DEF Next, Step
<1> QED
  BY <1>1, <1>2, TypeCorrect, PTL DEF Spec

(* The history says when a node was new: the first row of an id is an      *)
(* "add", whatever overlaps, and no other row is as long as no two runs    *)
(* overlap, although add_node looks up before it locks.                    *)
THEOREM HistoryIsTrue == Spec => []HistoryTellsNew
<1>1. HistoryInv => HistoryTellsNew
  BY DEF HistoryInv
<1> QED
  BY <1>1, HistoryAlways, PTL

-----------------------------------------------------------------------------
(* The store implements AdditiveGraph.                                     *)
past == [i \in DOMAIN history |-> history[i].node]

(* A node is in the history, and no later row has its id.                  *)
HasLast(id) ==
    \E i \in DOMAIN history :
        /\ history[i].node = nodes[id]
        /\ \A j \in DOMAIN history : history[j].node.id = id => j <= i

LastInv == TypeOK /\ DOMAIN nodes = Known /\ \A id \in DOMAIN nodes : HasLast(id)

LEMMA FunctionIsSeq ==
    ASSUME NEW S, NEW n \in Nat, NEW f \in [1 .. n -> S]
    PROVE  f \in Seq(S) /\ Len(f) = n
  OBVIOUS

LEMMA LatestIsNode == LastInv => Additive!Latest(past) = nodes
<1> SUFFICES ASSUME LastInv PROVE Additive!Latest(past) = nodes
  OBVIOUS
<1>1. /\ nodes \in [DOMAIN nodes -> Nodes] /\ \A id \in DOMAIN nodes : nodes[id].id = id
      /\ history \in Seq([node : Nodes, op : {"add", "update"}])
  BY DEF LastInv, TypeOK, StoreOK
<1>2. /\ DOMAIN past = DOMAIN history /\ DOMAIN history \subseteq Nat
      /\ \A i \in DOMAIN history : past[i] = history[i].node
  BY <1>1 DEF past
<1>3. {past[i].id : i \in DOMAIN past} = DOMAIN nodes
  BY <1>2 DEF LastInv, Known
<1>4. ASSUME NEW id \in DOMAIN nodes
      PROVE  past[CHOOSE i \in DOMAIN past : past[i].id = id /\ \A j \in DOMAIN past : past[j].id = id => j <= i]
                = nodes[id]
  <2> DEFINE IsLast(i) == past[i].id = id /\ \A j \in DOMAIN past : past[j].id = id => j <= i
  <2>1. PICK i \in DOMAIN history :
            /\ history[i].node = nodes[id]
            /\ \A j \in DOMAIN history : history[j].node.id = id => j <= i
    BY DEF LastInv, HasLast
  <2>2. i \in DOMAIN past /\ IsLast(i) /\ past[i] = nodes[id]
    BY <1>1, <1>2, <2>1
  <2>3. \A k \in DOMAIN past : IsLast(k) => k = i
    BY <1>2, <2>2
  <2> HIDE DEF IsLast
  <2>4. (CHOOSE k \in DOMAIN past : IsLast(k)) = i
    BY <2>2, <2>3
  <2> QED
    BY <2>2, <2>4 DEF IsLast
<1> QED
  BY <1>1, <1>3, <1>4 DEF Additive!Latest

LEMMA LastStep ==
    ASSUME LastInv, NEW p \in Processes, AddNode(p)
    PROVE  /\ DOMAIN nodes' = Known' /\ \A id \in DOMAIN nodes' : HasLast(id)'
           /\ past' = Append(past, NodeAt(p)) /\ NodeAt(p) \in Nodes
<1>1. /\ pc[p] = "write"
      /\ nodes' = Upserted(nodes, NodeAt(p))
      /\ history' = Append(history, [node |-> NodeAt(p), op |-> op[p]])
  BY DEF AddNode, Recorded
<1>2. NodeAt(p) \in Nodes /\ op[p] \in {"add", "update"}
  BY <1>1, CurrentType DEF LastInv, TypeOK, ProcessOK, PositionOK
<1>3. history \in Seq([node : Nodes, op : {"add", "update"}])
  BY DEF LastInv, TypeOK, StoreOK
<1> DEFINE n == NodeAt(p)
           row == [node |-> n, op |-> op[p]]
<1>4. row \in [node : Nodes, op : {"add", "update"}] /\ row.node = n
  BY <1>2
<1> HIDE DEF n, row
<1>5. /\ DOMAIN history' = 1 .. Len(history) + 1 /\ DOMAIN history = 1 .. Len(history)
      /\ Len(history) \in Nat
      /\ \A i \in DOMAIN history : history'[i] = history[i]
      /\ history'[Len(history) + 1] = row
  BY <1>1, <1>3, <1>4 DEF n, row
<1>6. Known' = Known \cup {n.id}
  BY <1>4, <1>5 DEF Known
<1>7. DOMAIN nodes' = DOMAIN nodes \cup {n.id} /\ nodes'[n.id] = n
      /\ \A id \in DOMAIN nodes : id # n.id => nodes'[id] = nodes[id]
  BY <1>1 DEF Upserted, n
<1>8. ASSUME NEW id \in DOMAIN nodes' PROVE HasLast(id)'
  <2>1. CASE id = n.id
    BY <1>4, <1>5, <1>7, <2>1 DEF HasLast
  <2>2. CASE id # n.id
    <3>1. PICK i \in DOMAIN history :
            /\ history[i].node = nodes[id]
            /\ \A j \in DOMAIN history : history[j].node.id = id => j <= i
      BY <1>7, <2>2 DEF LastInv, HasLast
    <3>2. history'[i].node = nodes'[id] /\ i \in DOMAIN history'
      BY <1>5, <1>7, <2>2, <3>1
    <3>3. \A j \in DOMAIN history' : history'[j].node.id = id => j <= i
      BY <1>4, <1>5, <2>2, <3>1
    <3> QED
      BY <3>2, <3>3 DEF HasLast
  <2> QED
    BY <2>1, <2>2
<1>9. past' = Append(past, n)
  <2>0. \A i \in 1 .. Len(history) : history[i].node \in Nodes
    <3> SUFFICES ASSUME NEW i \in 1 .. Len(history) PROVE history[i].node \in Nodes
      OBVIOUS
    <3>1. history[i] \in [node : Nodes, op : {"add", "update"}]
      BY <1>3, ElementOfSeq
    <3> QED
      BY <3>1
  <2>1. past \in Seq(Nodes) /\ Len(past) = Len(history)
    <3>1. past \in [1 .. Len(history) -> Nodes]
      BY <1>5, <2>0 DEF past
    <3> QED
      BY <1>5, <3>1, FunctionIsSeq
  <2>2. Append(past, n) \in Seq(Nodes) /\ Len(Append(past, n)) = Len(past) + 1
    BY <1>2, <2>1 DEF n
  <2>3. \A i \in 1 .. Len(past) + 1 : history'[i].node \in Nodes
    <3> SUFFICES ASSUME NEW i \in 1 .. Len(past) + 1 PROVE history'[i].node \in Nodes
      OBVIOUS
    <3>1. CASE i = Len(history) + 1
      <4>1. n \in Nodes
        BY <1>2 DEF n
      <4> QED
        BY <1>4, <1>5, <3>1, <4>1
    <3>2. CASE i # Len(history) + 1
      <4>1. i \in 1 .. Len(history)
        BY <1>5, <2>1, <3>2
      <4> QED
        BY <1>5, <2>0, <4>1
    <3> QED
      BY <3>1, <3>2
  <2>4. past' \in Seq(Nodes) /\ Len(past') = Len(past) + 1
    <3>1. past' \in [1 .. Len(past) + 1 -> Nodes]
      BY <1>5, <2>1, <2>3 DEF past
    <3>2. Len(past) + 1 \in Nat
      BY <1>5, <2>1
    <3> QED
      BY <3>1, <3>2, FunctionIsSeq
  <2>5. \A i \in 1 .. Len(past) + 1 : past'[i] = Append(past, n)[i]
    BY <1>2, <1>4, <1>5, <2>1 DEF past, n
  <2> QED
    BY <2>2, <2>4, <2>5, SeqEqual
<1> QED
  BY <1>2, <1>6, <1>7, <1>8, <1>9 DEF LastInv, n

(* The store implements AdditiveGraph: every write of a node is in the     *)
(* history, in the order of the commits, the node is what the last row of  *)
(* its id says, and no edge is taken away, whatever processes do.          *)
THEOREM StoreKeepsHistory == Spec => KeepsHistory
<1>1. Init => LastInv
  BY InitTypeOK DEF Init, LastInv, Known, NoNodes
<1>2. LastInv /\ TypeOK' /\ [Next]_vars => LastInv'
  <2> SUFFICES ASSUME LastInv, TypeOK', [Next]_vars PROVE LastInv'
    OBVIOUS
  <2>1. CASE UNCHANGED <<nodes, history>>
    BY <2>1, TypeOK' DEF LastInv, Known, HasLast
  <2>2. ASSUME NEW p \in Processes, AddNode(p) PROVE LastInv'
    BY <2>2, LastStep, TypeOK' DEF LastInv
  <2> QED
    BY <2>1, <2>2 DEF Next, Work, vars, Start, Pick, Finish, Ask, NextFile, LookUp, AddEdge,
       EndResult, Fail, Crash
<1>3. Init => Additive!Init
  <2> SUFFICES ASSUME Init PROVE past = << >> /\ nodes = Additive!Latest(past) /\ edges = {}
    BY DEF Additive!Init, past
  <2>1. past = << >>
    BY DEF Init, past
  <2>2. LastInv
    BY <1>1
  <2> QED
    BY <2>1, <2>2, LatestIsNode DEF Init
<1>4. LastInv' => (Additive!Latest(past) = nodes)'
  BY LatestIsNode, PTL
<1>5. LastInv /\ LastInv' /\ [Next]_vars => [Additive!Next]_<<past, nodes, edges>>
  <2> SUFFICES ASSUME LastInv, LastInv', [Next]_vars
               PROVE  Additive!Next \/ UNCHANGED <<past, nodes, edges>>
    OBVIOUS
  <2>1. CASE UNCHANGED <<nodes, edges, history>>
    BY <2>1 DEF past
  <2>2. ASSUME NEW p \in Processes, AddNode(p) PROVE Additive!Next
    <3>1. past' = Append(past, NodeAt(p)) /\ NodeAt(p) \in Nodes /\ edges' = edges
      BY <2>2, LastStep DEF AddNode
    <3>2. nodes' = Additive!Latest(past')
      BY <1>4, LastInv'
    <3> QED
      BY <3>1, <3>2 DEF Additive!Next, Additive!Write, past
  <2>3. ASSUME NEW p \in Processes, AddEdge(p) PROVE Additive!Next
    <3>1. Current(p).edges[EdgeNo(p)] \in Edges
      BY <2>3, CurrentType DEF AddEdge, LastInv
    <3> QED
      BY <2>3, <3>1 DEF AddEdge, Linked, Additive!Next, Additive!Link
  <2> QED
    BY <2>1, <2>2, <2>3 DEF Next, Work, vars, Start, Pick, Finish, Ask, NextFile, LookUp,
       EndResult, Fail, Crash
<1> QED
  BY <1>1, <1>2, <1>3, <1>5, TypeCorrect, PTL DEF Spec, KeepsHistory, Additive!Spec, past

-----------------------------------------------------------------------------
(* What a run that has had no exception has written so far.                *)

(* The nodes of the first n results of a file.                             *)
FirstResults(f, n) == FlattenSeq([k \in 1 .. n |-> Output[f][k].nodes])

LEMMA FileResults ==
    ASSUME NEW f \in Files
    PROVE  /\ Len(Output[f]) \in Nat /\ DOMAIN Output[f] = 1 .. Len(Output[f])
           /\ \A k \in 1 .. Len(Output[f]) : Output[f][k].nodes \in Seq(Nodes)
<1>1. Output[f] \in Seq(Result)
  OBVIOUS
<1>2. Len(Output[f]) \in Nat /\ DOMAIN Output[f] = 1 .. Len(Output[f])
  BY <1>1
<1>3. \A k \in 1 .. Len(Output[f]) : Output[f][k] \in Result
  BY <1>1
<1> QED
  BY <1>2, <1>3 DEF Result

LEMMA FirstResultsType ==
    ASSUME NEW f \in Files, NEW n \in 0 .. Len(Output[f])
    PROVE  FirstResults(f, n) \in Seq(Nodes)
<1> DEFINE t == [k \in 1 .. n |-> Output[f][k].nodes]
<1>1. n \in Nat /\ \A k \in 1 .. n : t[k] \in Seq(Nodes)
  BY FileResults
<1>2. DOMAIN t = 1 .. n /\ t = [k \in 1 .. n |-> t[k]]
  OBVIOUS
<1> HIDE DEF t
<1>3. IsSequence(t)
  BY <1>1, <1>2, SequenceEach
<1>4. \A k \in DOMAIN t : IsSequence(t[k]) /\ Range(t[k]) \subseteq Nodes
  BY <1>1, <1>2, SequenceOf
<1>5. /\ IsSequence(FlattenSeq(t))
      /\ \A x : x \in Range(FlattenSeq(t)) <=> \E k \in DOMAIN t : x \in Range(t[k])
  BY <1>3, <1>4, FlattenSequence
<1>6. Range(FlattenSeq(t)) \subseteq Nodes
  BY <1>4, <1>5
<1>7. FlattenSeq(t) \in Seq(Nodes)
  BY <1>5, <1>6, SequenceIn
<1> QED
  BY <1>7 DEF FirstResults, t

LEMMA OneMoreResult ==
    ASSUME NEW f \in Files, NEW n \in 1 .. Len(Output[f])
    PROVE  FirstResults(f, n) = FirstResults(f, n - 1) \o Output[f][n].nodes
<1> DEFINE t == [k \in 1 .. n - 1 |-> Output[f][k].nodes]
           u == [k \in 1 .. n |-> Output[f][k].nodes]
           s == Output[f][n].nodes
<1>1. /\ n \in Nat \ {0} /\ n - 1 \in Nat /\ s \in Seq(Nodes)
      /\ \A k \in 1 .. n - 1 : t[k] \in Seq(Nodes)
  BY FileResults
<1>2. u = Append(t, s)
  <2>1. \A k \in 1 .. n - 1 : t[k] = u[k]
    BY <1>1
  <2>2. t \in Seq(Seq(Nodes)) /\ Len(t) = n - 1
    BY <1>1
  <2>3. u \in Seq(Seq(Nodes)) /\ Len(u) = n
    BY <1>1, FileResults
  <2>4. u[n] = s
    BY <1>1
  <2> HIDE DEF t, u, s
  <2>5. Append(t, s) \in Seq(Seq(Nodes)) /\ Len(Append(t, s)) = n
    BY <1>1, <2>2
  <2>6. \A k \in 1 .. n : Append(t, s)[k] = u[k]
    BY <1>1, <2>1, <2>2, <2>4
  <2> QED
    BY <2>3, <2>5, <2>6, SeqEqual
<1>3. DOMAIN t = 1 .. n - 1 /\ t = [k \in 1 .. n - 1 |-> t[k]]
  OBVIOUS
<1> HIDE DEF t, u, s
<1>4. IsSequence(t)
  BY <1>1, <1>3, SequenceEach
<1>5. IsSequence(s) /\ \A k \in DOMAIN t : IsSequence(t[k])
  BY <1>1, <1>3, SequenceOf
<1>6. FlattenSeq(u) = FlattenSeq(t) \o s
  BY <1>2, <1>4, <1>5, FlattenAppend
<1> QED
  BY <1>6 DEF FirstResults, t, u, s

LEMMA NoResult ==
    ASSUME NEW f
    PROVE  FirstResults(f, 0) = << >>
<1> DEFINE t == [k \in 1 .. 0 |-> Output[f][k].nodes]
<1>1. t = << >>
  OBVIOUS
<1>2. FlattenSeq(<< >>) = << >>
  BY DEF FlattenSeq
<1> QED
  BY <1>1, <1>2 DEF FirstResults

(* Written, file by file.                                                  *)
LEMMA WrittenFiles ==
    ASSUME NEW files \in Seq(Files)
    PROVE  /\ Written(files) = FlattenSeq([i \in DOMAIN files |->
                                              FirstResults(files[i], Len(Output[files[i]]))])
           /\ Written(files) \in Seq(Nodes)
<1> DEFINE t == [i \in DOMAIN files |-> FirstResults(files[i], Len(Output[files[i]]))]
<1>1. Len(files) \in Nat /\ DOMAIN files = 1 .. Len(files) /\ \A i \in DOMAIN files : files[i] \in Files
  OBVIOUS
<1>2. \A i \in DOMAIN files :
         t[i] = FlattenSeq([k \in DOMAIN Output[files[i]] |-> Output[files[i]][k].nodes])
  BY <1>1, FileResults DEF FirstResults
<1>3. Written(files) = FlattenSeq(t)
  BY <1>2 DEF Written
<1>4. \A i \in DOMAIN files : t[i] \in Seq(Nodes)
  <2> SUFFICES ASSUME NEW i \in DOMAIN files PROVE t[i] \in Seq(Nodes)
    OBVIOUS
  <2>1. files[i] \in Files /\ Len(Output[files[i]]) \in 0 .. Len(Output[files[i]])
    BY <1>1, FileResults
  <2> QED
    BY <2>1, FirstResultsType
<1>5. DOMAIN t = 1 .. Len(files) /\ t = [i \in 1 .. Len(files) |-> t[i]]
  BY <1>1
<1> HIDE DEF t
<1>6. IsSequence(t)
  BY <1>1, <1>5, SequenceEach
<1>7. \A i \in DOMAIN t : IsSequence(t[i]) /\ Range(t[i]) \subseteq Nodes
  BY <1>1, <1>4, <1>5, SequenceOf
<1>8. /\ IsSequence(FlattenSeq(t))
      /\ \A x : x \in Range(FlattenSeq(t)) <=> \E i \in DOMAIN t : x \in Range(t[i])
  BY <1>6, <1>7, FlattenSequence
<1>9. Range(FlattenSeq(t)) \subseteq Nodes
  BY <1>7, <1>8
<1>10. FlattenSeq(t) \in Seq(Nodes)
  BY <1>8, <1>9, SequenceIn
<1> QED
  BY <1>3, <1>10 DEF t

LEMMA OneMoreFile ==
    ASSUME NEW files \in Seq(Files), NEW f \in Files
    PROVE  Written(Append(files, f)) = Written(files) \o FirstResults(f, Len(Output[f]))
<1> DEFINE all(g) == FirstResults(g, Len(Output[g]))
           more == Append(files, f)
           t == [i \in DOMAIN files |-> all(files[i])]
           u == [i \in DOMAIN more |-> all(more[i])]
<1>1. /\ Len(files) \in Nat /\ DOMAIN files = 1 .. Len(files) /\ more \in Seq(Files)
      /\ DOMAIN more = 1 .. Len(files) + 1 /\ more[Len(files) + 1] = f
      /\ \A i \in 1 .. Len(files) : more[i] = files[i] /\ files[i] \in Files
  OBVIOUS
<1>2. \A g \in Files : all(g) \in Seq(Nodes)
  <2> SUFFICES ASSUME NEW g \in Files PROVE all(g) \in Seq(Nodes)
    OBVIOUS
  <2>1. Len(Output[g]) \in 0 .. Len(Output[g])
    BY FileResults
  <2> QED
    BY <2>1, FirstResultsType
<1> HIDE DEF more, all
<1>3. u = Append(t, all(f))
  <2>1. t \in Seq(Seq(Nodes)) /\ Len(t) = Len(files)
    BY <1>1, <1>2
  <2>2. u \in Seq(Seq(Nodes)) /\ Len(u) = Len(files) + 1
    BY <1>1, <1>2
  <2>3. u[Len(files) + 1] = all(f) /\ \A i \in 1 .. Len(files) : u[i] = t[i]
    BY <1>1
  <2> HIDE DEF t, u
  <2>4. Append(t, all(f)) \in Seq(Seq(Nodes)) /\ Len(Append(t, all(f))) = Len(files) + 1
    <3>1. all(f) \in Seq(Nodes)
      BY <1>2
    <3> QED
      BY <2>1, <3>1, AppendProperties
  <2>5. \A i \in 1 .. Len(files) + 1 : Append(t, all(f))[i] = u[i]
    BY <1>1, <1>2, <2>1, <2>3
  <2> QED
    BY <2>2, <2>4, <2>5, SeqEqual
<1>4. DOMAIN t = 1 .. Len(files) /\ t = [i \in 1 .. Len(files) |-> t[i]]
  BY <1>1
<1>5. \A i \in DOMAIN t : t[i] \in Seq(Nodes)
  BY <1>1, <1>2
<1>6. Written(files) = FlattenSeq(t) /\ Written(more) = FlattenSeq(u)
  BY <1>1, WrittenFiles DEF all
<1> HIDE DEF t, u
<1>7. IsSequence(t)
  BY <1>1, <1>4, SequenceEach
<1>8. IsSequence(all(f)) /\ \A i \in DOMAIN t : IsSequence(t[i])
  BY <1>2, <1>5, SequenceOf
<1>9. FlattenSeq(u) = FlattenSeq(t) \o all(f)
  BY <1>3, <1>7, <1>8, FlattenAppend
<1> QED
  BY <1>6, <1>9 DEF all, more

LEMMA NoFile == Written(<< >>) = << >>
<1>1. [i \in DOMAIN << >> |->
          FlattenSeq([k \in DOMAIN Output[<< >>[i]] |-> Output[<< >>[i]][k].nodes])] = << >>
  OBVIOUS
<1> QED
  BY <1>1 DEF Written, FlattenSeq

(* The store has each node of the sequence as it was last in it.           *)
HasLatest(ns, s) ==
    \A i \in DOMAIN s :
        (\A j \in DOMAIN s : s[j].id = s[i].id => j <= i)
            => s[i].id \in DOMAIN ns /\ ns[s[i].id] = s[i]

LEMMA HasLatestAppend ==
    ASSUME NEW ns, NEW s \in Seq(Nodes), NEW n \in Nodes, HasLatest(ns, s)
    PROVE  HasLatest(Upserted(ns, n), s \o <<n>>)
<1> DEFINE m == Len(s)
           t == s \o <<n>>
           us == Upserted(ns, n)
<1>1. /\ m \in Nat /\ DOMAIN s = 1 .. m /\ DOMAIN t = 1 .. m + 1 /\ t[m + 1] = n
      /\ \A i \in 1 .. m : t[i] = s[i]
  BY AppendIsConcat
<1>2. /\ DOMAIN us = DOMAIN ns \cup {n.id} /\ us[n.id] = n
      /\ \A id \in DOMAIN ns : id # n.id => us[id] = ns[id]
  BY DEF Upserted
<1> HIDE DEF m, t, us
<1> SUFFICES ASSUME NEW i \in DOMAIN t, \A j \in DOMAIN t : t[j].id = t[i].id => j <= i
             PROVE  t[i].id \in DOMAIN us /\ us[t[i].id] = t[i]
  BY DEF HasLatest, t, us
<1>3. CASE i = m + 1
  BY <1>1, <1>2, <1>3
<1>4. CASE i # m + 1
  <2>1. i \in 1 .. m /\ t[i] = s[i]
    BY <1>1, <1>4
  <2>2. s[i].id # n.id
    <3>1. m + 1 \in DOMAIN t /\ ~(m + 1 <= i)
      BY <1>1, <2>1
    <3> QED
      BY <1>1, <2>1, <3>1
  <2>3. \A j \in DOMAIN s : s[j].id = s[i].id => j <= i
    BY <1>1, <2>1
  <2>4. s[i].id \in DOMAIN ns /\ ns[s[i].id] = s[i]
    BY <1>1, <2>1, <2>3 DEF HasLatest
  <2> QED
    BY <1>2, <2>1, <2>2, <2>4
<1> QED
  BY <1>3, <1>4

(* Then it agrees with the last write of each id.                          *)
LEMMA HasLatestAgrees ==
    ASSUME NEW ns, NEW s \in Seq(Nodes), HasLatest(ns, s),
           NEW id \in DOMAIN Additive!Latest(s)
    PROVE  ns[id] = Additive!Latest(s)[id]
<1> DEFINE IsLast(i) == s[i].id = id /\ \A j \in DOMAIN s : s[j].id = id => j <= i
           T == {k \in Nat : \E i \in DOMAIN s : s[i].id = id /\ k = Len(s) - i}
<1>1. Len(s) \in Nat /\ DOMAIN s = 1 .. Len(s)
  OBVIOUS
<1>2. /\ id \in {s[i].id : i \in DOMAIN s}
      /\ Additive!Latest(s)[id] = s[CHOOSE i \in DOMAIN s : IsLast(i)]
  BY DEF Additive!Latest
<1>3. PICK a \in DOMAIN s : s[a].id = id
  BY <1>2
<1>4. Len(s) - a \in T
  BY <1>1, <1>3
<1>5. PICK k \in T : \A m \in T : ~(m < k)
  BY <1>4, LeastNumber
<1>6. PICK b \in DOMAIN s : s[b].id = id /\ k = Len(s) - b
  BY <1>5
<1>7. ASSUME NEW j \in DOMAIN s, s[j].id = id PROVE j <= b
  <2>1. Len(s) - j \in T
    BY <1>1, <1>7
  <2>2. ~(Len(s) - j < Len(s) - b)
    BY <1>5, <1>6, <2>1
  <2> QED
    BY <1>1, <2>2
<1>8. IsLast(b)
  BY <1>6, <1>7
<1> DEFINE c == CHOOSE i \in DOMAIN s : IsLast(i)
<1>9. c \in DOMAIN s /\ IsLast(c)
  <2> HIDE DEF IsLast
  <2> QED
    BY <1>8
<1>10. ns[s[c].id] = s[c] /\ s[c].id = id
  <2> HIDE DEF c
  <2> QED
    BY <1>9 DEF HasLatest
<1> QED
  BY <1>2, <1>10

(* The nodes of the result at hand that a process has written.             *)
WrittenOf(p) == SubSeq(Current(p).nodes, 1, IF AtNode(p) THEN at[p].item - 1 ELSE Len(Current(p).nodes))

(* What it has written before the result at hand, and so far.              *)
Before(files, p) == Written(files) \o FirstResults(at[p].file, at[p].result - 1)

SoFar(files, p) ==
    IF pc[p] = "ask" THEN Before(files, p) ELSE Before(files, p) \o WrittenOf(p)

AsWalked(p) ==
    /\ pc[p] = "pick" => HasLatest(nodes, Written(order[p]))
    /\ pc[p] = "ask" => at[p].item = 1
    /\ pc[p] \in {"ask", "store", "write"} =>
          /\ at[p].result - 1 <= Len(Output[at[p].file])
          /\ \E files \in Seq(Files) :
                order[p] = Append(files, at[p].file) /\ HasLatest(nodes, SoFar(files, p))

Undisturbed(p) == pc[p] # "idle" /\ clean[p] /\ ~overlapped

WalkInv == HistoryInv /\ \A p \in Processes : Undisturbed(p) => AsWalked(p)

LEMMA BeforeType ==
    ASSUME TypeOK, NEW p \in Processes, pc[p] \in {"ask", "store", "write"},
           at[p].result - 1 <= Len(Output[at[p].file]), NEW files \in Seq(Files)
    PROVE  /\ at[p].file \in Files /\ at[p].result \in Nat \ {0} /\ at[p].item \in Nat \ {0}
           /\ Before(files, p) \in Seq(Nodes)
           /\ Written(files) \in Seq(Nodes)
           /\ FirstResults(at[p].file, at[p].result - 1) \in Seq(Nodes)
<1>1. at[p].file \in Files /\ at[p].result \in Nat \ {0} /\ at[p].item \in Nat \ {0}
  BY DEF TypeOK, PositionOK, Position
<1>2. at[p].result - 1 \in 0 .. Len(Output[at[p].file])
  BY <1>1, FileResults
<1>3. Written(files) \in Seq(Nodes) /\ FirstResults(at[p].file, at[p].result - 1) \in Seq(Nodes)
  BY <1>1, <1>2, FirstResultsType, WrittenFiles
<1> QED
  BY <1>1, <1>3, ConcatProperties DEF Before

LEMMA WrittenOfType ==
    ASSUME NEW p, at[p].file \in Files, at[p].result \in 1 .. Len(Output[at[p].file]),
           at[p].item \in Nat \ {0}
    PROVE  /\ Current(p).nodes \in Seq(Nodes) /\ WrittenOf(p) \in Seq(Nodes)
           /\ ~AtNode(p) => WrittenOf(p) = Current(p).nodes
           /\ at[p].item = 1 => WrittenOf(p) = << >>
<1>1. /\ Current(p).nodes \in Seq(Nodes) /\ at[p].item \in Nat \ {0}
  BY FileResults DEF Current
<1> DEFINE s == Current(p).nodes
           n == IF AtNode(p) THEN at[p].item - 1 ELSE Len(s)
<1>2. Len(s) \in Nat /\ n \in 0 .. Len(s)
  BY <1>1 DEF AtNode
<1>3. at[p].item = 1 => n = 0
  BY <1>1, <1>2 DEF AtNode
<1>4. ~AtNode(p) => n = Len(s)
  OBVIOUS
<1>5. WrittenOf(p) = SubSeq(s, 1, n)
  BY DEF WrittenOf
<1> HIDE DEF s, n
<1>6. SubSeq(s, 1, n) \in Seq(Nodes)
  BY <1>1, <1>2 DEF s
<1>7. n = 0 => SubSeq(s, 1, n) = << >>
  BY SubSeqEmpty
<1>8. n = Len(s) => SubSeq(s, 1, n) = s
  BY <1>1, SubSeqFull DEF s
<1> QED
  BY <1>1, <1>3, <1>4, <1>5, <1>6, <1>7, <1>8 DEF s

(* A step to the next file, result or look-up.                             *)
LEMMA WalkOn ==
    ASSUME WalkInv, TypeOK', NEW p \in Processes, AsWalked(p),
           Pick(p) \/ Ask(p) \/ NextFile(p) \/ LookUp(p)
    PROVE  AsWalked(p)'
<1>1. TypeOK
  BY DEF WalkInv, HistoryInv
<1>2. CASE Pick(p)
  <2>1. PICK f \in left[p] :
          /\ at' = [at EXCEPT ![p] = [file |-> f, result |-> 1, item |-> 1]]
          /\ order' = [order EXCEPT ![p] = Append(@, f)]
    BY <1>2 DEF Pick
  <2>2. /\ f \in Files /\ order[p] \in Seq(Files) /\ order'[p] = Append(order[p], f)
        /\ at'[p].file = f /\ at'[p].result = 1 /\ at'[p].item = 1 /\ pc[p] = "pick" /\ pc'[p] = "ask"
        /\ nodes' = nodes
    BY <1>1, <1>2, <2>1 DEF TypeOK, ProcessOK, Pick, Goto, storeVars
  <2> DEFINE files == order[p]
  <2>4. Written(files) \o FirstResults(f, 0) = Written(files)
    BY <2>2, NoResult, WrittenFiles, ConcatEmptySeq
  <2>5. HasLatest(nodes', Written(files) \o FirstResults(f, 0))
    BY <2>2, <2>4 DEF AsWalked
  <2>6. at'[p].result - 1 = 0 /\ 0 <= Len(Output[at'[p].file])
    BY <2>2, FileResults
  <2> HIDE DEF files
  <2>7. \A fs : pc'[p] = "ask" => SoFar(fs, p)' = Written(fs) \o FirstResults(at'[p].file, at'[p].result - 1)
    BY DEF SoFar, Before
  <2> QED
    BY <2>2, <2>5, <2>6, <2>7 DEF AsWalked, files
<1>3. CASE Ask(p) \/ NextFile(p) \/ LookUp(p)
  <2>1. /\ pc[p] \in {"ask", "store", "write"} /\ UNCHANGED <<nodes, at, order>>
        /\ pc[p] # "ask" => AtNode(p) /\ pc[p] = "store" /\ pc'[p] = "write"
        /\ pc[p] = "ask" => pc'[p] \in {"store", "pick"}
        /\ pc'[p] = "pick" => pc[p] = "ask" /\ at[p].result > Len(Output[at[p].file])
        /\ pc[p] = "ask" /\ pc'[p] = "store" => at[p].result <= Len(Output[at[p].file])
    BY <1>1, <1>3 DEF Ask, NextFile, LookUp, Goto, storeVars, observers, TypeOK, ProcessOK
  <2>2. PICK files \in Seq(Files) :
          /\ at[p].result - 1 <= Len(Output[at[p].file])
          /\ order[p] = Append(files, at[p].file) /\ HasLatest(nodes, SoFar(files, p))
    BY <2>1 DEF AsWalked
  <2>3. /\ at[p].file \in Files /\ at[p].result \in Nat \ {0} /\ Before(files, p) \in Seq(Nodes)
    BY <1>1, <2>1, <2>2, BeforeType
  <2>4. CASE pc'[p] = "pick"
    <3>1. at[p].result - 1 = Len(Output[at[p].file])
      <4> DEFINE n == at[p].result
                 m == Len(Output[at[p].file])
      <4>1. n \in Nat /\ m \in Nat /\ n - 1 <= m /\ n > m
        BY <2>1, <2>2, <2>3, <2>4, FileResults
      <4> HIDE DEF n, m
      <4>2. n - 1 = m
        BY <4>1
      <4> QED
        BY <4>2 DEF n, m
    <3>2. Written(order[p]) = SoFar(files, p)
      BY <2>1, <2>2, <2>3, <2>4, <3>1, OneMoreFile DEF SoFar, Before
    <3> QED
      BY <2>1, <2>2, <2>4, <3>2 DEF AsWalked
  <2>5. CASE pc[p] = "ask" /\ pc'[p] = "store"
    <3>1. at[p].item = 1
      BY <2>5 DEF AsWalked
    <3>2. WrittenOf(p)' = << >>
      <4>1. at[p].item \in Nat \ {0} /\ at[p].result \in 1 .. Len(Output[at[p].file])
        BY <2>1, <2>3, <2>5, <3>1, FileResults
      <4>2. WrittenOf(p) = << >>
        BY <2>3, <3>1, <4>1, WrittenOfType
      <4> QED
        BY <2>1, <4>2 DEF WrittenOf, Current, AtNode
    <3>3. SoFar(files, p)' = SoFar(files, p)
      <4>1. Before(files, p) \o << >> = Before(files, p)
        BY <2>3, ConcatEmptySeq
      <4>2. Before(files, p)' = Before(files, p)
        BY <2>1 DEF Before
      <4> QED
        BY <2>5, <3>2, <4>1, <4>2 DEF SoFar
    <3> QED
      BY <2>1, <2>2, <2>5, <3>3 DEF AsWalked
  <2>6. CASE pc[p] = "store"
    <3>1. SoFar(files, p)' = SoFar(files, p)
      BY <2>1, <2>6 DEF SoFar, Before, WrittenOf, Current, AtNode
    <3> QED
      BY <2>1, <2>2, <2>6, <3>1 DEF AsWalked
  <2> QED
    BY <2>1, <2>4, <2>5, <2>6
<1> QED
  BY <1>2, <1>3

(* A step that writes a node.                                              *)
LEMMA WalkWrites ==
    ASSUME WalkInv, NEW p \in Processes, AsWalked(p), AddNode(p)
    PROVE  AsWalked(p)'
<1>1. TypeOK
  BY DEF WalkInv, HistoryInv
<1>2. /\ pc[p] = "write" /\ pc'[p] = "store" /\ nodes' = Upserted(nodes, NodeAt(p))
      /\ at' = [at EXCEPT ![p] = Advanced(@)] /\ UNCHANGED order
  BY <1>1 DEF AddNode, Goto, observers, TypeOK, ProcessOK
<1>3. PICK files \in Seq(Files) :
        /\ at[p].result - 1 <= Len(Output[at[p].file])
        /\ order[p] = Append(files, at[p].file) /\ HasLatest(nodes, SoFar(files, p))
  BY <1>2 DEF AsWalked
<1>4. /\ at[p].file \in Files /\ at[p].result \in Nat \ {0} /\ at[p].item \in Nat \ {0}
      /\ Before(files, p) \in Seq(Nodes)
  BY <1>1, <1>2, <1>3, BeforeType
<1>5. at[p] \in Position /\ at[p].result \in 1 .. Len(Output[at[p].file]) /\ AtNode(p)
  BY <1>1, <1>2, <1>4, FileResults DEF TypeOK, PositionOK
<1>6. Current(p).nodes \in Seq(Nodes) /\ WrittenOf(p) \in Seq(Nodes)
  BY <1>4, <1>5, WrittenOfType
<1>7. /\ at'[p].file = at[p].file /\ at'[p].result = at[p].result /\ at'[p].item = at[p].item + 1
  <2>1. at'[p] = Advanced(at[p])
    BY <1>1, <1>2 DEF TypeOK, ProcessOK
  <2> QED
    BY <1>5, <2>1, AdvancedType
<1> DEFINE s == Current(p).nodes
           i == at[p].item
<1>8. i \in 1 .. Len(s) /\ NodeAt(p) = s[i] /\ NodeAt(p) \in Nodes
  BY <1>4, <1>5, <1>6 DEF AtNode, NodeAt
<1>9. Current(p)' = Current(p)
  BY <1>7 DEF Current
<1>10. WrittenOf(p)' = SubSeq(s, 1, i)
  <2>1. AtNode(p)' => at'[p].item - 1 = i
    BY <1>4, <1>7
  <2>2. ~AtNode(p)' => Len(s) = i
    BY <1>4, <1>6, <1>7, <1>8, <1>9 DEF AtNode
  <2> HIDE DEF i, s
  <2> QED
    BY <1>9, <2>1, <2>2 DEF WrittenOf, s
<1>11. WrittenOf(p) = SubSeq(s, 1, i - 1)
  BY <1>5 DEF WrittenOf
<1>12. WrittenOf(p)' = WrittenOf(p) \o <<NodeAt(p)>>
  <2>1. Len(s) \in Nat /\ 1 \in 1 .. Len(s) /\ i \in 1 .. Len(s)
    BY <1>6, <1>8
  <2> HIDE DEF i, s
  <2>2. s \in Seq(Nodes)
    BY <1>6 DEF s
  <2>3. SubSeq(s, 1, i) = SubSeq(s, 1, i - 1) \o <<s[i]>>
    BY <2>1, <2>2, SubSeqRecursiveSecond
  <2> QED
    BY <1>8, <1>10, <1>11, <2>3
<1> HIDE DEF s, i
<1>13. Before(files, p)' = Before(files, p)
  BY <1>7 DEF Before
<1>14. SoFar(files, p)' = SoFar(files, p) \o <<NodeAt(p)>>
  <2> DEFINE b == Before(files, p)
             w == WrittenOf(p)
             n == <<NodeAt(p)>>
  <2>1. b \in Seq(Nodes) /\ w \in Seq(Nodes) /\ n \in Seq(Nodes)
    BY <1>4, <1>6, <1>8
  <2>2. SoFar(files, p)' = b \o (w \o n) /\ SoFar(files, p) = b \o w
    BY <1>2, <1>12, <1>13 DEF SoFar
  <2> HIDE DEF b, w, n
  <2>3. (b \o w) \o n = b \o (w \o n)
    BY <2>1, ConcatAssociative
  <2> QED
    BY <2>2, <2>3 DEF n
<1>15. SoFar(files, p) \in Seq(Nodes)
  BY <1>2, <1>4, <1>6, ConcatProperties DEF SoFar
<1>16. HasLatest(nodes', SoFar(files, p)')
  BY <1>2, <1>3, <1>8, <1>14, <1>15, HasLatestAppend
<1> QED
  BY <1>2, <1>3, <1>7, <1>16 DEF AsWalked

(* A step over the edges of a result, and out of it.                       *)
LEMMA WalkEdges ==
    ASSUME WalkInv, NEW p \in Processes, AsWalked(p), AddEdge(p) \/ EndResult(p)
    PROVE  AsWalked(p)'
<1>1. TypeOK
  BY DEF WalkInv, HistoryInv
<1>2. /\ pc[p] = "store" /\ ~AtNode(p) /\ UNCHANGED <<nodes, order>>
  BY DEF AddEdge, EndResult, storeVars, observers
<1>3. PICK files \in Seq(Files) :
        /\ at[p].result - 1 <= Len(Output[at[p].file])
        /\ order[p] = Append(files, at[p].file) /\ HasLatest(nodes, SoFar(files, p))
  BY <1>2 DEF AsWalked
<1>4. /\ at[p].file \in Files /\ at[p].result \in Nat \ {0} /\ at[p].item \in Nat \ {0}
      /\ Written(files) \in Seq(Nodes)
      /\ FirstResults(at[p].file, at[p].result - 1) \in Seq(Nodes)
  BY <1>1, <1>2, <1>3, BeforeType
<1>5. at[p] \in Position /\ at[p].result \in 1 .. Len(Output[at[p].file])
  BY <1>1, <1>2, <1>4, FileResults DEF TypeOK, PositionOK
<1>6. Current(p).nodes \in Seq(Nodes) /\ WrittenOf(p) = Current(p).nodes
  BY <1>2, <1>4, <1>5, WrittenOfType
<1>7. CASE AddEdge(p)
  <2>1. at'[p] = Advanced(at[p]) /\ pc'[p] = "store"
    BY <1>1, <1>2, <1>7 DEF AddEdge, TypeOK, ProcessOK
  <2>2. at'[p].file = at[p].file /\ at'[p].result = at[p].result /\ at'[p].item = at[p].item + 1
    BY <1>5, <2>1, AdvancedType
  <2>3. Current(p)' = Current(p) /\ ~AtNode(p)'
    <3>1. Current(p)' = Current(p)
      BY <2>2 DEF Current
    <3>2. Len(Current(p).nodes) \in Nat /\ ~(at[p].item <= Len(Current(p).nodes))
      BY <1>2, <1>6, LenProperties DEF AtNode
    <3>3. ~(at[p].item + 1 <= Len(Current(p).nodes))
      BY <1>4, <3>2
    <3> QED
      BY <2>2, <3>1, <3>3 DEF AtNode
  <2>4. WrittenOf(p)' = WrittenOf(p)
    BY <1>2, <2>3 DEF WrittenOf
  <2>5. SoFar(files, p)' = SoFar(files, p)
    BY <1>2, <2>1, <2>2, <2>4 DEF SoFar, Before
  <2> QED
    BY <1>2, <1>3, <2>1, <2>2, <2>5 DEF AsWalked
<1>8. CASE EndResult(p)
  <2>1. at'[p] = Passed(at[p]) /\ pc'[p] = "ask"
    BY <1>1, <1>2, <1>8 DEF EndResult, Goto, TypeOK, ProcessOK
  <2>2. at'[p].file = at[p].file /\ at'[p].result = at[p].result + 1 /\ at'[p].item = 1
    BY <1>5, <2>1, PassedType
  <2> DEFINE f == at[p].file
             k == at[p].result
             w == Written(files)
             b == FirstResults(f, k - 1)
             ns == Output[f][k].nodes
  <2>3. Current(p).nodes = ns
    BY DEF Current
  <2>4. SoFar(files, p) = (w \o b) \o ns
    BY <1>2, <1>6, <2>3 DEF SoFar, Before
  <2>5. SoFar(files, p)' = w \o FirstResults(f, k)
    <3>1. at'[p].result - 1 = k
      BY <1>4, <2>2
    <3> QED
      BY <2>1, <2>2, <3>1 DEF SoFar, Before
  <2>6. FirstResults(f, k) = b \o ns
    BY <1>4, <1>5, OneMoreResult
  <2>7. w \in Seq(Nodes) /\ b \in Seq(Nodes) /\ ns \in Seq(Nodes)
    BY <1>4, <1>6, <2>3
  <2>8. k - 0 <= Len(Output[f]) /\ (k + 1) - 1 = k
    BY <1>5
  <2> HIDE DEF w, b, ns
  <2>9. (w \o b) \o ns = w \o (b \o ns)
    BY <2>7, ConcatAssociative
  <2>10. SoFar(files, p)' = SoFar(files, p)
    BY <2>4, <2>5, <2>6, <2>9
  <2>11. at'[p].result - 1 <= Len(Output[at'[p].file])
    BY <1>5, <2>2
  <2> QED
    BY <1>2, <1>3, <2>1, <2>2, <2>10, <2>11 DEF AsWalked
<1> QED
  BY <1>7, <1>8

LEMMA WalkStep ==
    ASSUME WalkInv, TypeOK', NEW p \in Processes, Step(p), NEW q \in Processes, Undisturbed(q)'
    PROVE  AsWalked(q)'
<1>1. /\ TypeOK
      /\ ~overlapped => \A x, y \in Processes : pc[x] # "idle" /\ pc[y] # "idle" => x = y
  BY DEF WalkInv, HistoryInv
<1>2. q = p
  <2> SUFFICES ASSUME q # p PROVE FALSE
    OBVIOUS
  <2>1. pc'[q] = pc[q]
    BY <1>1, Frame
  <2>2. CASE Start(p)
    BY <2>1, <2>2 DEF Start, Undisturbed
  <2>3. CASE ~Start(p)
    <3>1. pc[p] # "idle" /\ overlapped' = overlapped
      BY <2>3 DEF Step, Work, Pick, Finish, Ask, NextFile, LookUp, AddNode, AddEdge, EndResult, Fail,
         Crash, observers
    <3> QED
      BY <1>1, <2>1, <3>1 DEF Undisturbed
  <2> QED
    BY <2>2, <2>3
<1>3. CASE Start(p)
  <2>1. pc'[p] = "pick" /\ order'[p] = << >>
    BY <1>1, <1>3 DEF Start, Goto, TypeOK, ProcessOK
  <2>2. HasLatest(nodes', Written(order'[p]))
    BY <2>1, NoFile DEF HasLatest
  <2> QED
    BY <1>2, <2>1, <2>2 DEF AsWalked
<1>4. CASE Finish(p) \/ Fail(p) \/ Crash(p)
  <2>1. pc'[p] = "idle" \/ ~clean'[p]
    BY <1>1, <1>4 DEF Finish, Fail, Crash, Goto, TypeOK, ProcessOK
  <2> QED
    BY <1>2, <2>1 DEF Undisturbed
<1>5. CASE Pick(p) \/ Ask(p) \/ NextFile(p) \/ LookUp(p) \/ AddNode(p) \/ AddEdge(p) \/ EndResult(p)
  <2>1. Undisturbed(p)
    <3>1. pc[p] # "idle" /\ clean' = clean /\ overlapped' = overlapped
      BY <1>5 DEF Pick, Ask, NextFile, LookUp, AddNode, AddEdge, EndResult, observers
    <3> QED
      BY <1>2, <3>1 DEF Undisturbed
  <2>2. AsWalked(p)
    BY <2>1 DEF WalkInv
  <2> QED
    BY <1>2, <1>5, <2>2, WalkOn, WalkWrites, WalkEdges
<1> QED
  BY <1>3, <1>4, <1>5 DEF Step, Work

(* EndsAsWalked: a run without exceptions leaves every node it wrote as    *)
(* the last of its own writes has it, whatever an earlier run, or one that *)
(* died half way, has left under the same id.                              *)
THEOREM WalkDecides == Spec => []EndsAsWalked
<1>1. Init /\ HistoryInv => WalkInv
  BY DEF Init, WalkInv, Undisturbed
<1>2. WalkInv /\ HistoryInv' /\ [Next]_vars => WalkInv'
  <2> SUFFICES ASSUME WalkInv, HistoryInv', [Next]_vars, NEW q \in Processes, Undisturbed(q)'
               PROVE  AsWalked(q)'
    BY DEF WalkInv
  <2>1. CASE UNCHANGED vars
    <3>1. Undisturbed(q) /\ AsWalked(q)
      BY <2>1 DEF vars, WalkInv, Undisturbed
    <3> QED
      BY <2>1, <3>1 DEF vars, AsWalked, SoFar, Before, WrittenOf, Current, AtNode
  <2>2. ASSUME NEW p \in Processes, Step(p) PROVE AsWalked(q)'
    <3>1. TypeOK'
      BY DEF HistoryInv
    <3> QED
      BY <2>2, <3>1, WalkStep
  <2> QED
    BY <2>1, <2>2 DEF Next, Step
<1>3. WalkInv => EndsAsWalked
  <2> SUFFICES ASSUME WalkInv, NEW p \in Processes, pc[p] = "pick", clean[p], ~overlapped,
                      NEW id \in DOMAIN Additive!Latest(Written(order[p]))
               PROVE  nodes[id] = Additive!Latest(Written(order[p]))[id]
    BY DEF EndsAsWalked
  <2>1. order[p] \in Seq(Files) /\ HasLatest(nodes, Written(order[p]))
    BY DEF WalkInv, HistoryInv, TypeOK, ProcessOK, Undisturbed, AsWalked
  <2>2. Written(order[p]) \in Seq(Nodes)
    BY <2>1, WrittenFiles
  <2> QED
    BY <2>1, <2>2, HasLatestAgrees
<1> QED
  BY <1>1, <1>2, <1>3, HistoryAlways, PTL DEF Spec
===============================================================================
