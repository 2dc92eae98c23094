----------------------------- MODULE SearchProofs -----------------------------
(***************************************************************************)
(* Theorems about ImpactSearch, for every finite set of ids, every graph,  *)
(* every depth, and any number of writes while a search runs.              *)
(***************************************************************************)
EXTENDS ImpactSearch, FiniteSetTheorems, SequenceTheorems, WellFoundedInduction, TLAPS

USE GraphAssumption, SearchAssumption DEF graph, search, breadth

-----------------------------------------------------------------------------
(* The queue of a search.                                                  *)
LEMMA SeqOfMore == ASSUME NEW S, NEW T, S \subseteq T, NEW s \in Seq(S) PROVE s \in Seq(T)
<1>1. Len(s) \in Nat /\ s \in [1 .. Len(s) -> T]
  OBVIOUS
<1> QED
  BY <1>1

LEMMA ListIsSeq == ASSUME NEW S, NEW n \in Nat, NEW f \in [1 .. n -> S] PROVE f \in Seq(S)
OBVIOUS

LEMMA QueuedType ==
    ASSUME NEW ids \in SUBSET Ids, NEW hop, NEW T, \A n \in ids : Item(n, hop) \in T,
           NEW more \in Queued(ids, hop)
    PROVE  more \in Seq(T)
<1>1. Cardinality(ids) \in Nat
  BY FS_Subset, FS_CardinalityType DEF GraphAssumption
<1>2. PICK s \in SetToSeqs(ids) : more = [i \in DOMAIN s |-> Item(s[i], hop)]
  BY DEF Queued
<1>3. s \in [1 .. Cardinality(ids) -> ids]
  BY <1>2 DEF SetToSeqs
<1>4. more \in [1 .. Cardinality(ids) -> T]
  BY <1>2, <1>3
<1> QED
  BY <1>1, <1>4, ListIsSeq

LEMMA FrontType ==
    ASSUME NEW S, NEW s \in Seq(S), s # << >>
    PROVE  Front(s) \in Seq(S) /\ Last(s) \in S
<1>1. Len(s) \in Nat \ {0}
  OBVIOUS
<1> QED
  BY <1>1 DEF Front, Last

LEMMA TakeFirst ==
    ASSUME NEW ids \in SUBSET Ids, NEW hop, NEW T, \A n \in ids : Item(n, hop) \in T,
           todo \in Seq(T), todo # << >>,
           \E more \in Queued(ids, hop) : todo' = Tail(todo) \o more
    PROVE  todo' \in Seq(T)
<1>1. PICK more \in Queued(ids, hop) : todo' = Tail(todo) \o more
  OBVIOUS
<1>2. more \in Seq(T)
  BY QueuedType
<1>3. Tail(todo) \in Seq(T)
  BY HeadTailProperties
<1> QED
  BY <1>1, <1>2, <1>3, ConcatProperties

LEMMA TakeLast ==
    ASSUME NEW ids \in SUBSET Ids, NEW hop, NEW T, \A n \in ids : Item(n, hop) \in T,
           todo \in Seq(T), todo # << >>,
           \E more \in Queued(ids, hop) : todo' = Front(todo) \o more
    PROVE  todo' \in Seq(T)
<1>1. PICK more \in Queued(ids, hop) : todo' = Front(todo) \o more
  OBVIOUS
<1>2. more \in Seq(T)
  BY QueuedType
<1>3. Front(todo) \in Seq(T)
  BY FrontType
<1> QED
  BY <1>1, <1>2, <1>3, ConcatProperties

LEMMA NotedType ==
    ASSUME NEW ids \in SUBSET Ids, NEW hop \in Nat,
           found \in [DOMAIN found -> Nat], DOMAIN found \subseteq Ids,
           found' = Noted(ids, hop)
    PROVE  /\ found' \in [DOMAIN found' -> Nat] /\ DOMAIN found' = DOMAIN found \cup ids
           /\ \A n \in DOMAIN found : found'[n] = found[n]
           /\ \A n \in ids \ DOMAIN found : found'[n] = hop
  BY DEF Noted

-----------------------------------------------------------------------------
LEMMA StartType ==
    ASSUME TypeOK, StartQuery \/ StartImpact \/ StartDepth
    PROVE  TypeOK'
<1>1. /\ kind = "none" /\ target' \in Targets /\ target' \in Ids
      /\ nodes' = nodes /\ links' = links /\ writes' = writes
      /\ began' \in [nodes : SUBSET Ids, links : SUBSET (Ids \X Ids)]
  BY DEF TypeOK, GraphAssumption, StartQuery, StartImpact, StartDepth, Begin
<1>2. Item(target', 0) \in Items
  BY <1>1 DEF Item, Items
<1>3. CASE StartQuery
  <2>1. todo' \in Seq(Items)
    BY <1>2, <1>3 DEF StartQuery
  <2>2. found' \in [{target'} -> Nat] /\ \A n \in DOMAIN found' : found'[n] = 0
    BY <1>3 DEF StartQuery
  <2> QED
    BY <1>1, <1>3, <2>1, <2>2 DEF TypeOK, StartQuery, Begin, MaxHops
<1>4. CASE StartImpact
  <2>1. todo' \in Seq(Items)
    BY <1>2, <1>4 DEF StartImpact
  <2> QED
    BY <1>1, <1>4, <2>1 DEF TypeOK, StartImpact, Begin
<1>5. CASE StartDepth
  BY <1>1, <1>5 DEF TypeOK, StartDepth, Begin
<1> QED
  BY <1>3, <1>4, <1>5

LEMMA QueryType ==
    ASSUME TypeOK, QueryVisit \/ QueryPass
    PROVE  TypeOK'
<1>1. todo \in Seq(Items) /\ todo # << >> /\ Head(todo) \in Items /\ kind = "query"
  BY HeadTailProperties DEF TypeOK, QueryVisit, QueryPass
<1>2. CASE QueryVisit
  <2> DEFINE hop == Head(todo).hop + 1
             fresh == Beside(Head(todo).id) \ DOMAIN found
  <2>1. hop \in Nat /\ hop <= MaxHops
    BY <1>1, <1>2 DEF Items, QueryVisit, MaxHops
  <2>2. fresh \in SUBSET Ids /\ fresh \cap DOMAIN found = {}
    BY DEF Beside
  <2>3. found' = Noted(fresh, hop) /\ \E more \in Queued(fresh, hop) : todo' = Tail(todo) \o more
    BY <1>2 DEF QueryVisit
  <2> HIDE DEF hop, fresh
  <2>4. \A n \in fresh : Item(n, hop) \in Items
    BY <2>1, <2>2 DEF Item, Items
  <2>5. todo' \in Seq(Items)
    BY <1>1, <2>2, <2>3, <2>4, TakeFirst
  <2>6. /\ found' \in [DOMAIN found' -> Nat] /\ DOMAIN found' = DOMAIN found \cup fresh
        /\ \A n \in DOMAIN found : found'[n] = found[n]
        /\ \A n \in fresh \ DOMAIN found : found'[n] = hop
    <3>1. found \in [DOMAIN found -> Nat] /\ DOMAIN found \subseteq Ids
      BY DEF TypeOK
    <3> QED
      BY <2>1, <2>2, <2>3, <3>1, NotedType
  <2>7. DOMAIN found' \subseteq Ids /\ \A n \in DOMAIN found' : found'[n] <= MaxHops
    <3>1. DOMAIN found \subseteq Ids /\ \A n \in DOMAIN found : found[n] <= MaxHops
      BY <1>1 DEF TypeOK
    <3> QED
      BY <2>1, <2>2, <2>6, <3>1
  <2> QED
    BY <1>1, <1>2, <2>5, <2>6, <2>7 DEF TypeOK, QueryVisit
<1>3. CASE QueryPass
  <2>1. todo' \in Seq(Items)
    BY <1>1, <1>3, HeadTailProperties DEF QueryPass
  <2> QED
    BY <1>1, <1>3, <2>1 DEF TypeOK, QueryPass
<1> QED
  BY <1>2, <1>3

LEMMA ImpactType ==
    ASSUME TypeOK, ImpactVisit \/ ImpactPass \/ ImpactMiss
    PROVE  TypeOK'
<1>1. /\ todo \in Seq(Items) /\ todo # << >> /\ kind = "impact"
      /\ Last(todo) \in Items /\ Front(todo) \in Seq(Items)
  BY FrontType DEF TypeOK, ImpactVisit, ImpactPass, ImpactMiss
<1>2. CASE ImpactVisit
  <2> DEFINE cur == Last(todo)
             fresh == Beside(cur.id) \ (seen \cup {cur.id, target})
             hits == {cur.id} \ {target}
             hop == cur.hop
  <2>1. cur.id \in Ids /\ hop \in Nat /\ hop + 1 \in Nat
    BY <1>1 DEF Items
  <2>2. fresh \in SUBSET Ids /\ hits \in SUBSET Ids
    BY <2>1 DEF Beside
  <2>3. /\ hop <= MaxDepth /\ seen' = seen \cup {cur.id} /\ found' = Noted(hits, hop)
        /\ \E more \in Queued(fresh, hop + 1) : todo' = Front(todo) \o more
    BY <1>2 DEF ImpactVisit
  <2> HIDE DEF cur, fresh, hits, hop
  <2>4. \A n \in fresh : Item(n, hop + 1) \in Items
    BY <2>1, <2>2 DEF Item, Items
  <2>5. todo' \in Seq(Items)
    BY <1>1, <2>2, <2>3, <2>4, TakeLast
  <2>6. /\ found' \in [DOMAIN found' -> Nat] /\ DOMAIN found' = DOMAIN found \cup hits
        /\ \A n \in DOMAIN found : found'[n] = found[n]
        /\ \A n \in hits \ DOMAIN found : found'[n] = hop
    <3>1. found \in [DOMAIN found -> Nat] /\ DOMAIN found \subseteq Ids
      BY DEF TypeOK
    <3>2. hits \in SUBSET Ids /\ hop \in Nat
      BY <2>1, <2>2
    <3>3. found' = Noted(hits, hop)
      BY <2>3
    <3> QED
      BY <3>1, <3>2, <3>3, NotedType
  <2>7. DOMAIN found' \subseteq Ids /\ \A n \in DOMAIN found' : found'[n] <= MaxDepth
    <3>1. DOMAIN found \subseteq Ids /\ \A n \in DOMAIN found : found[n] <= MaxDepth
      BY <1>1 DEF TypeOK
    <3> QED
      BY <2>2, <2>3, <2>6, <3>1
  <2> QED
    BY <1>1, <1>2, <2>1, <2>3, <2>5, <2>6, <2>7 DEF TypeOK, ImpactVisit
<1>3. CASE ImpactPass
  BY <1>1, <1>3 DEF TypeOK, ImpactPass
<1>4. CASE ImpactMiss
  <2>1. Last(todo).id \in Ids
    BY <1>1 DEF Items
  <2> QED
    BY <1>1, <1>4, <2>1 DEF TypeOK, ImpactMiss
<1> QED
  BY <1>2, <1>3, <1>4

(* The variables keep their shape, a query's hits are within its two hops  *)
(* and an impact's within its depth.                                       *)
THEOREM TypeCorrect == Spec => []TypeOK
<1>1. Init => TypeOK
  <2> SUFFICES ASSUME Init PROVE TypeOK
    OBVIOUS
  <2>1. nodes \subseteq Ids /\ links \subseteq Ids \X Ids
    BY DEF Init, GraphAssumption
  <2> QED
    BY <2>1 DEF Init, TypeOK, Nothing, SearchAssumption
<1>2. TypeOK /\ [Next]_vars => TypeOK'
  <2> SUFFICES ASSUME TypeOK, [Next]_vars PROVE TypeOK'
    OBVIOUS
  <2>1. CASE Write
    BY <2>1 DEF TypeOK, Write, SearchAssumption
  <2>2. CASE DepthVisit
    BY <2>2 DEF TypeOK, DepthVisit
  <2>3. CASE DepthNext
    BY <2>3 DEF TypeOK, DepthNext
  <2>4. CASE UNCHANGED vars
    BY <2>4 DEF vars, TypeOK
  <2> QED
    BY <2>1, <2>2, <2>3, <2>4, StartType, QueryType, ImpactType DEF Next, Visit
<1> QED
  BY <1>1, <1>2, PTL DEF Spec

-----------------------------------------------------------------------------
(* A walk gets longer by a step.                                           *)
LEMMA WalkOn ==
    ASSUME NEW steps, NEW d \in Nat, NEW m \in Ids, NEW n \in Ids,
           Walk(steps, d, m), <<m, n>> \in steps
    PROVE  Walk(steps, d + 1, n)
<1>1. PICK w \in [0 .. d -> Ids] :
        w[0] = target /\ w[d] = m /\ \A i \in 0 .. d - 1 : <<w[i], w[i + 1]>> \in steps
  BY DEF Walk
<1> DEFINE v == [i \in 0 .. d + 1 |-> IF i = d + 1 THEN n ELSE w[i]]
<1>2. v \in [0 .. d + 1 -> Ids]
  BY <1>1
<1>3. v[0] = target /\ v[d + 1] = n
  BY <1>1
<1>4. \A i \in 0 .. (d + 1) - 1 : <<v[i], v[i + 1]>> \in steps
  <2> SUFFICES ASSUME NEW i \in 0 .. d PROVE <<v[i], v[i + 1]>> \in steps
    OBVIOUS
  <2>1. CASE i = d
    BY <1>1, <2>1
  <2>2. CASE i # d
    <3>1. i \in 0 .. d - 1 /\ i + 1 \in 0 .. d /\ v[i] = w[i] /\ v[i + 1] = w[i + 1]
      BY <2>2
    <3> QED
      BY <1>1, <3>1
  <2> QED
    BY <2>1, <2>2
<1> HIDE DEF v
<1> QED
  BY <1>2, <1>3, <1>4 DEF Walk

(* Of an id in the queue, the distance is that of a walk; a level's nodes  *)
(* have walks of its depth.                                                *)
RealItems == {x \in Items : Walk(Undirected(links), x.hop, x.id)}

RealInv ==
    /\ TypeOK
    /\ HopsAreReal
    /\ todo \in Seq(RealItems)
    /\ kind = "depth" =>
          /\ \A n \in frontier : Walk(Among(nodes, links), depth, n)
          /\ \A n \in layer : Walk(Among(nodes, links), depth + 1, n)

LEMMA BesideReal ==
    ASSUME NEW x \in RealItems, NEW n \in Beside(x.id)
    PROVE  n \in Ids /\ Item(n, x.hop + 1) \in RealItems /\ Walk(Undirected(links), x.hop + 1, n)
<1>1. x.id \in Ids /\ x.hop \in Nat /\ Walk(Undirected(links), x.hop, x.id)
  BY DEF RealItems, Items
<1>2. n \in Ids /\ <<x.id, n>> \in Undirected(links)
  BY <1>1 DEF Beside, Undirected
<1>3. Walk(Undirected(links), x.hop + 1, n)
  BY <1>1, <1>2, WalkOn
<1> QED
  BY <1>1, <1>2, <1>3 DEF Item, Items, RealItems

LEMMA StartReal ==
    ASSUME RealInv, TypeOK', StartQuery \/ StartImpact \/ StartDepth
    PROVE  RealInv'
<1>1. /\ kind = "none" /\ target' \in Ids /\ nodes' = nodes /\ links' = links
      /\ DOMAIN found = {}
  BY DEF RealInv, TypeOK, GraphAssumption, StartQuery, StartImpact, StartDepth, Begin
<1>2. \A steps : Walk(steps, 0, target)'
  <2>1. (target \in Ids)' => \A steps : Walk(steps, 0, target)'
    <3> SUFFICES ASSUME (target \in Ids)', NEW steps PROVE Walk(steps, 0, target)'
      OBVIOUS
    <3> DEFINE w == [i \in 0 .. 0 |-> target']
    <3>1. w \in [0 .. 0 -> Ids] /\ w[0] = target' /\ \A i \in 0 .. 0 - 1 : <<w[i], w[i + 1]>> \in steps
      OBVIOUS
    <3> QED
      BY <3>1 DEF Walk
  <2> QED
    BY <1>1, <2>1
<1>3. Item(target', 0) \in RealItems'
  BY <1>1, <1>2 DEF RealItems, Items, Item
<1>4. CASE StartQuery
  <2>1. todo' \in Seq(RealItems')
    BY <1>3, <1>4 DEF StartQuery
  <2>2. HopsAreReal'
    BY <1>2, <1>4 DEF HopsAreReal, StartQuery, Begin
  <2> QED
    BY <1>4, <2>1, <2>2, TypeOK' DEF RealInv, StartQuery, Begin
<1>5. CASE StartImpact
  <2>1. todo' \in Seq(RealItems')
    BY <1>3, <1>5 DEF StartImpact
  <2>2. HopsAreReal'
    BY <1>1, <1>5 DEF HopsAreReal, StartImpact, Begin
  <2> QED
    BY <1>5, <2>1, <2>2, TypeOK' DEF RealInv, StartImpact, Begin
<1>6. CASE StartDepth
  <2>1. todo' = << >> /\ found' = found
    BY <1>1, <1>6 DEF RealInv, TypeOK, StartDepth
  <2>2. HopsAreReal'
    BY <1>1, <1>2, <1>6, <2>1 DEF HopsAreReal, StartDepth
  <2>3. todo' \in Seq(RealItems')
    BY <2>1
  <2> QED
    BY <1>2, <1>6, <2>2, <2>3, TypeOK' DEF RealInv, StartDepth
<1> QED
  BY <1>4, <1>5, <1>6

LEMMA WriteReal ==
    ASSUME RealInv, TypeOK', Write
    PROVE  RealInv'
<1>1. /\ nodes \subseteq nodes' /\ links \subseteq links'
      /\ target' = target /\ kind' = kind /\ todo' = todo /\ found' = found /\ seen' = seen
      /\ frontier' = frontier /\ layer' = layer /\ depth' = depth
  BY DEF Write
<1>2. Undirected(links) \subseteq Undirected(links') /\ Among(nodes, links) \subseteq Among(nodes', links')
  BY <1>1 DEF Undirected, Among
<1>3. \A d, n : Walk(Undirected(links), d, n) => Walk(Undirected(links), d, n)'
  BY <1>1, <1>2 DEF Walk
<1>4. \A d, n : Walk(Among(nodes, links), d, n) => Walk(Among(nodes, links), d, n)'
  BY <1>1, <1>2 DEF Walk
<1>5. RealItems \subseteq RealItems'
  BY <1>3 DEF RealItems
<1>6. todo' \in Seq(RealItems')
  BY <1>1, <1>5, SeqOfMore DEF RealInv
<1>7. HopsAreReal'
  BY <1>1, <1>3, <1>4 DEF RealInv, HopsAreReal
<1> QED
  BY <1>1, <1>4, <1>6, <1>7, TypeOK' DEF RealInv

LEMMA QueryReal ==
    ASSUME RealInv, TypeOK', QueryVisit \/ QueryPass
    PROVE  RealInv'
<1>1. /\ todo \in Seq(RealItems) /\ todo # << >> /\ kind = "query" /\ kind' = kind
      /\ links' = links /\ target' = target /\ Head(todo) \in RealItems
  BY HeadTailProperties DEF RealInv, QueryVisit, QueryPass
<1>2. RealItems' = RealItems /\ \A d, n : Walk(Undirected(links), d, n) = Walk(Undirected(links), d, n)'
  BY <1>1 DEF RealItems, Walk
<1>3. CASE QueryVisit
  <2> DEFINE hop == Head(todo).hop + 1
             fresh == Beside(Head(todo).id) \ DOMAIN found
  <2>1. fresh \in SUBSET Ids /\ fresh \cap DOMAIN found = {} /\ hop \in Nat
    BY <1>1 DEF Beside, RealItems, Items
  <2>2. \A n \in fresh : Item(n, hop) \in RealItems /\ Walk(Undirected(links), hop, n)
    BY <1>1, BesideReal
  <2>3. found' = Noted(fresh, hop) /\ \E more \in Queued(fresh, hop) : todo' = Tail(todo) \o more
    BY <1>3 DEF QueryVisit
  <2> HIDE DEF hop, fresh
  <2>4. todo' \in Seq(RealItems)
    BY <1>1, <2>1, <2>2, <2>3, TakeFirst
  <2>5. /\ found' \in [DOMAIN found' -> Nat] /\ DOMAIN found' = DOMAIN found \cup fresh
        /\ \A n \in DOMAIN found : found'[n] = found[n]
        /\ \A n \in fresh \ DOMAIN found : found'[n] = hop
    <3>1. found \in [DOMAIN found -> Nat] /\ DOMAIN found \subseteq Ids
      BY DEF RealInv, TypeOK
    <3> QED
      BY <2>1, <2>2, <2>3, <3>1, NotedType
  <2>6. \A n \in DOMAIN found' : Walk(Undirected(links), found'[n], n)
    <3>1. \A n \in DOMAIN found : Walk(Undirected(links), found[n], n)
      BY DEF RealInv, HopsAreReal
    <3> QED
      BY <2>1, <2>2, <2>5, <3>1
  <2> QED
    BY <1>1, <1>2, <2>4, <2>6, TypeOK' DEF RealInv, HopsAreReal
<1>4. CASE QueryPass
  <2>1. todo' \in Seq(RealItems) /\ found' = found
    BY <1>1, <1>4, HeadTailProperties DEF QueryPass
  <2> QED
    BY <1>1, <1>2, <2>1, TypeOK' DEF RealInv, HopsAreReal
<1> QED
  BY <1>3, <1>4

LEMMA ImpactReal ==
    ASSUME RealInv, TypeOK', ImpactVisit \/ ImpactPass \/ ImpactMiss
    PROVE  RealInv'
<1>1. /\ todo \in Seq(RealItems) /\ todo # << >> /\ kind = "impact" /\ kind' = kind
      /\ links' = links /\ target' = target
      /\ Last(todo) \in RealItems /\ Front(todo) \in Seq(RealItems)
  BY FrontType DEF RealInv, ImpactVisit, ImpactPass, ImpactMiss
<1>2. RealItems' = RealItems /\ \A d, n : Walk(Undirected(links), d, n) = Walk(Undirected(links), d, n)'
  BY <1>1 DEF RealItems, Walk
<1>3. CASE ImpactVisit
  <2> DEFINE cur == Last(todo)
             fresh == Beside(cur.id) \ (seen \cup {cur.id, target})
             hits == {cur.id} \ {target}
             hop == cur.hop
  <2>1. /\ fresh \in SUBSET Ids /\ hits \in SUBSET Ids /\ hop \in Nat
        /\ \A n \in hits : Walk(Undirected(links), hop, n)
    BY <1>1 DEF Beside, RealItems, Items
  <2>2. \A n \in fresh : Item(n, hop + 1) \in RealItems
    BY <1>1, BesideReal
  <2>3. /\ found' = Noted(hits, hop)
        /\ \E more \in Queued(fresh, hop + 1) : todo' = Front(todo) \o more
    BY <1>3 DEF ImpactVisit
  <2> HIDE DEF cur, fresh, hits, hop
  <2>4. todo' \in Seq(RealItems)
    BY <1>1, <2>1, <2>2, <2>3, TakeLast
  <2>5. /\ found' \in [DOMAIN found' -> Nat] /\ DOMAIN found' = DOMAIN found \cup hits
        /\ \A n \in DOMAIN found : found'[n] = found[n]
        /\ \A n \in hits \ DOMAIN found : found'[n] = hop
    <3>1. found \in [DOMAIN found -> Nat] /\ DOMAIN found \subseteq Ids
      BY DEF RealInv, TypeOK
    <3>2. hits \in SUBSET Ids /\ hop \in Nat
      BY <2>1, <2>2
    <3>3. found' = Noted(hits, hop)
      BY <2>3
    <3> QED
      BY <3>1, <3>2, <3>3, NotedType
  <2>6. \A n \in DOMAIN found' : Walk(Undirected(links), found'[n], n)
    <3>1. \A n \in DOMAIN found : Walk(Undirected(links), found[n], n)
      BY DEF RealInv, HopsAreReal
    <3> QED
      BY <2>1, <2>5, <3>1
  <2> QED
    BY <1>1, <1>2, <2>4, <2>6, TypeOK' DEF RealInv, HopsAreReal
<1>4. CASE ImpactPass \/ ImpactMiss
  <2>1. todo' \in Seq(RealItems) /\ found' = found
    BY <1>1, <1>4 DEF ImpactPass, ImpactMiss
  <2> QED
    BY <1>1, <1>2, <2>1, TypeOK' DEF RealInv, HopsAreReal
<1> QED
  BY <1>3, <1>4

LEMMA DepthReal ==
    ASSUME RealInv, TypeOK', DepthVisit \/ DepthNext
    PROVE  RealInv'
<1>1. /\ kind = "depth" /\ kind' = kind /\ nodes' = nodes /\ links' = links /\ target' = target
      /\ todo' = todo /\ found' = found
  BY DEF DepthVisit, DepthNext
<1>2. RealItems' = RealItems /\ \A d, n : Walk(Among(nodes, links), d, n) = Walk(Among(nodes, links), d, n)'
  BY <1>1 DEF RealItems, Walk
<1>3. todo' \in Seq(RealItems') /\ DOMAIN found' = {}
  BY <1>1, <1>2 DEF RealInv, TypeOK
<1>4. depth \in Nat /\ frontier \subseteq Ids /\ seen \subseteq Ids
  BY DEF RealInv, TypeOK
<1>5. CASE DepthVisit
  <2>1. PICK id \in frontier :
          /\ frontier' = frontier \ {id} /\ seen \subseteq seen' /\ depth' = depth
          /\ layer' = layer \cup ({n \in nodes : <<id, n>> \in links} \ seen)
    BY <1>5 DEF DepthVisit
  <2>2. ASSUME NEW n \in nodes, <<id, n>> \in links PROVE Walk(Among(nodes, links), depth + 1, n)
    <3>1. <<id, n>> \in Among(nodes, links) /\ n \in Ids /\ id \in Ids
      BY <1>4, <2>1, <2>2 DEF Among, RealInv, TypeOK
    <3>2. Walk(Among(nodes, links), depth, id)
      BY <1>1, <2>1 DEF RealInv
    <3> QED
      BY <1>4, <3>1, <3>2, WalkOn
  <2>3. \A n \in layer' : Walk(Among(nodes, links), depth + 1, n)
    BY <1>1, <2>1, <2>2 DEF RealInv
  <2>4. HopsAreReal'
    BY <1>1, <1>2, <1>3, <2>1 DEF RealInv, HopsAreReal
  <2> QED
    BY <1>1, <1>2, <1>3, <2>1, <2>3, <2>4, TypeOK' DEF RealInv
<1>6. CASE DepthNext
  <2>1. depth' = depth + 1 /\ frontier' = layer /\ layer' = {} /\ layer # {} /\ seen' = seen
    BY <1>6 DEF DepthNext
  <2>2. PICK n \in layer : n \in seen /\ Walk(Among(nodes, links), depth + 1, n)
    BY <1>1, <2>1 DEF RealInv, TypeOK
  <2>3. HopsAreReal'
    BY <1>2, <1>3, <2>1, <2>2 DEF HopsAreReal
  <2> QED
    BY <1>1, <1>2, <1>3, <2>1, <2>3, TypeOK' DEF RealInv
<1> QED
  BY <1>5, <1>6

(* Every distance a search reports is the length of a walk in the graph,   *)
(* although the graph may grow between two reads of the search.            *)
THEOREM HopsExist == Spec => []HopsAreReal
<1>1. Init => RealInv
  <2> SUFFICES ASSUME Init PROVE RealInv
    OBVIOUS
  <2>1. TypeOK
    BY DEF Init, TypeOK, Nothing, SearchAssumption, GraphAssumption
  <2> QED
    BY <2>1 DEF Init, RealInv, HopsAreReal, Nothing
<1>2. RealInv /\ TypeOK' /\ [Next]_vars => RealInv'
  <2> SUFFICES ASSUME RealInv, TypeOK', [Next]_vars PROVE RealInv'
    OBVIOUS
  <2>1. CASE UNCHANGED vars
    <3>1. /\ nodes' = nodes /\ links' = links /\ kind' = kind /\ target' = target /\ todo' = todo
          /\ found' = found /\ seen' = seen /\ frontier' = frontier /\ layer' = layer
          /\ depth' = depth
      BY <2>1 DEF vars
    <3>2. RealItems' = RealItems /\ \A steps, d, n : Walk(steps, d, n)' = Walk(steps, d, n)
      BY <3>1 DEF RealItems, Walk
    <3>3. HopsAreReal'
      BY <3>1, <3>2 DEF RealInv, HopsAreReal
    <3> QED
      BY <3>1, <3>2, <3>3, TypeOK' DEF RealInv
  <2> QED
    BY <2>1, TypeOK', StartReal, WriteReal, QueryReal, ImpactReal, DepthReal DEF Next, Visit
<1>3. RealInv => HopsAreReal
  BY DEF RealInv
<1> QED
  BY <1>1, <1>2, <1>3, TypeCorrect, PTL DEF Spec

-----------------------------------------------------------------------------
(* The radius of `impact of`.                                              *)

(* The queue of a query holds each id once it is noted, at its distance    *)
(* and in the order of the distances; no id noted is more than one hop     *)
(* farther than the first in the queue.                                    *)
OrderInv ==
    /\ \A i \in DOMAIN todo : todo[i].id \in DOMAIN found /\ found[todo[i].id] = todo[i].hop
    /\ \A i, j \in DOMAIN todo : i < j => todo[i].hop <= todo[j].hop
    /\ todo # << >> => \A n \in DOMAIN found : found[n] <= todo[1].hop + 1

(* What is beside an id that has been visited, and was so when the search  *)
(* began, is noted at most one hop farther.                                *)
IsQueued(n) == \E i \in DOMAIN todo : todo[i].id = n

Visited(n) ==
    \A m \in Ids : <<n, m>> \in Undirected(began.links)
                     => m \in DOMAIN found /\ found[m] <= found[n] + 1

RadiusInv ==
    kind = "query" =>
        /\ began.links \subseteq links
        /\ target \in DOMAIN found /\ found[target] = 0
        /\ OrderInv
        /\ \A n \in DOMAIN found : IsQueued(n) \/ found[n] >= MaxHops \/ Visited(n)

(* The ids that are put in the queue are the new ones, at one distance.    *)
LEMMA QueuedItems ==
    ASSUME NEW ids \in SUBSET Ids, NEW hop, NEW more \in Queued(ids, hop)
    PROVE  /\ \A i \in DOMAIN more : more[i].hop = hop /\ more[i].id \in ids
           /\ \A n \in ids : \E i \in DOMAIN more : more[i].id = n
<1>1. PICK s \in SetToSeqs(ids) : more = [i \in DOMAIN s |-> Item(s[i], hop)]
  BY DEF Queued
<1> DEFINE size == Cardinality(ids)
<1>2. IsFiniteSet(ids) /\ size \in Nat
  BY FS_Subset, FS_CardinalityType DEF GraphAssumption
<1>3. s \in [1 .. size -> ids] /\ \A i, j \in 1 .. size : i # j => s[i] # s[j]
  BY <1>1 DEF SetToSeqs, IsInjective
<1> HIDE DEF size
<1>4. Cardinality(1 .. size) = size
  BY <1>2, FS_Interval
<1>5. s \in Injection(1 .. size, ids)
  BY <1>3 DEF Injection, IsInjective
<1>6. s \in Surjection(1 .. size, ids)
  BY <1>2, <1>4, <1>5, FS_Injection DEF size
<1>7. \A n \in ids : \E i \in DOMAIN s : s[i] = n
  BY <1>3, <1>6 DEF Surjection
<1> QED
  BY <1>1, <1>3, <1>7 DEF Item

(* The queue once its first item is taken and others are put at its end.   *)
IsRequeued(s, more, next) ==
    /\ \A i \in DOMAIN next :
          \/ i + 1 \in DOMAIN s /\ next[i] = s[i + 1]
          \/ /\ i + 1 > Len(s) /\ i + 1 - Len(s) \in DOMAIN more
             /\ next[i] = more[i + 1 - Len(s)]
    /\ \A i \in DOMAIN s : i # 1 => i - 1 \in DOMAIN next /\ next[i - 1] = s[i]
    /\ \A i \in DOMAIN more : i + Len(s) - 1 \in DOMAIN next /\ next[i + Len(s) - 1] = more[i]

LEMMA Requeued ==
    ASSUME NEW T, NEW s \in Seq(T), s # << >>, NEW more \in Seq(T), NEW next, next = Tail(s) \o more
    PROVE  IsRequeued(s, more, next)
<1>1. Len(s) \in Nat \ {0} /\ Len(more) \in Nat /\ DOMAIN s = 1 .. Len(s) /\ DOMAIN more = 1 .. Len(more)
  OBVIOUS
<1>2. /\ Tail(s) \in Seq(T) /\ Len(Tail(s)) = Len(s) - 1
      /\ \A i \in 1 .. Len(s) - 1 : Tail(s)[i] = s[i + 1]
  BY HeadTailProperties
<1>3. /\ next \in Seq(T) /\ Len(next) = Len(s) - 1 + Len(more)
      /\ DOMAIN next = 1 .. Len(s) - 1 + Len(more)
      /\ \A i \in 1 .. Len(s) - 1 + Len(more) :
            next[i] = IF i <= Len(s) - 1 THEN Tail(s)[i] ELSE more[i - (Len(s) - 1)]
  BY <1>1, <1>2, ConcatProperties
<1> DEFINE last == Len(s)
           extra == Len(more)
<1>4. ASSUME NEW i \in DOMAIN next
      PROVE  \/ i + 1 \in DOMAIN s /\ next[i] = s[i + 1]
             \/ /\ i + 1 > Len(s) /\ i + 1 - Len(s) \in DOMAIN more
                /\ next[i] = more[i + 1 - Len(s)]
  <2>1. i \in 1 .. last - 1 + extra /\ last \in Nat \ {0} /\ extra \in Nat
    BY <1>1, <1>3
  <2>2. CASE i <= last - 1
    BY <1>1, <1>2, <1>3, <2>1, <2>2
  <2>3. CASE i > last - 1
    <3>1. next[i] = more[i - (last - 1)] /\ i - (last - 1) = i + 1 - last
      BY <1>3, <2>1, <2>3
    <3> QED
      BY <1>1, <2>1, <2>3, <3>1
  <2> QED
    BY <2>1, <2>2, <2>3
<1>5. ASSUME NEW i \in DOMAIN s, i # 1
      PROVE  i - 1 \in DOMAIN next /\ next[i - 1] = s[i]
  <2>1. i - 1 \in 1 .. last - 1 /\ (i - 1) + 1 = i /\ i - 1 <= last - 1
    BY <1>1, <1>5
  <2>2. next[i - 1] = Tail(s)[i - 1] /\ Tail(s)[i - 1] = s[(i - 1) + 1]
    BY <1>1, <1>2, <1>3, <2>1
  <2> QED
    BY <1>1, <1>3, <2>1, <2>2
<1>6. ASSUME NEW i \in DOMAIN more
      PROVE  i + Len(s) - 1 \in DOMAIN next /\ next[i + Len(s) - 1] = more[i]
  <2>1. /\ i + last - 1 \in 1 .. last - 1 + extra /\ ~(i + last - 1 <= last - 1)
        /\ (i + last - 1) - (last - 1) = i
    BY <1>1
  <2>2. next[i + last - 1] = more[(i + last - 1) - (last - 1)]
    BY <1>3, <2>1
  <2> QED
    BY <1>3, <2>1, <2>2
<1> QED
  BY <1>4, <1>5, <1>6 DEF IsRequeued

LEMMA QueryVisitRadius ==
    ASSUME TypeOK, TypeOK', RadiusInv, QueryVisit
    PROVE  RadiusInv'
<1> DEFINE head == Head(todo)
           hop == Head(todo).hop + 1
           fresh == Beside(Head(todo).id) \ DOMAIN found
<1>1. /\ kind = "query" /\ todo # << >> /\ todo \in Seq(Items) /\ found' = Noted(fresh, hop)
      /\ links' = links /\ began' = began /\ target' = target
      /\ found \in [DOMAIN found -> Nat] /\ DOMAIN found \subseteq Ids
  BY DEF QueryVisit, TypeOK
<1>2. head \in Items /\ 1 \in DOMAIN todo /\ head = todo[1] /\ head.hop \in Nat /\ head.id \in Ids
  <2>1. head \in Items
    BY <1>1, HeadTailProperties
  <2>2. 1 \in DOMAIN todo /\ Head(todo) = todo[1]
    BY <1>1
  <2> QED
    BY <2>1, <2>2 DEF Items
<1>3. PICK more \in Queued(fresh, hop) : todo' = Tail(todo) \o more
  BY DEF QueryVisit
<1>4. /\ fresh \in SUBSET Ids /\ hop = head.hop + 1 /\ hop \in Nat /\ fresh \cap DOMAIN found = {}
      /\ \A m \in Ids : <<head.id, m>> \in Undirected(links) => m \in DOMAIN found \cup fresh
  BY <1>2 DEF Beside, Undirected
<1> HIDE DEF head, hop, fresh
<1>5. /\ found' \in [DOMAIN found' -> Nat] /\ DOMAIN found' = DOMAIN found \cup fresh
      /\ \A n \in DOMAIN found : found'[n] = found[n]
      /\ \A n \in fresh : found'[n] = hop
  <2>1. found \in [DOMAIN found -> Nat] /\ DOMAIN found \subseteq Ids /\ found' = Noted(fresh, hop)
    BY <1>1
  <2>2. fresh \in SUBSET Ids /\ hop \in Nat /\ \A n \in fresh : n \in fresh \ DOMAIN found
    BY <1>4
  <2>3. /\ found' \in [DOMAIN found' -> Nat] /\ DOMAIN found' = DOMAIN found \cup fresh
        /\ \A n \in DOMAIN found : found'[n] = found[n]
        /\ \A n \in fresh \ DOMAIN found : found'[n] = hop
    BY <2>1, <2>2, NotedType
  <2> QED
    BY <2>2, <2>3
<1>6. /\ \A i \in DOMAIN more : more[i].hop = hop /\ more[i].id \in fresh
      /\ \A n \in fresh : \E i \in DOMAIN more : more[i].id = n
  <2>1. fresh \in SUBSET Ids /\ more \in Queued(fresh, hop)
    BY <1>4
  <2> QED
    BY <2>1, QueuedItems
<1>7. more \in Seq(Items)
  <2>1. \A n \in fresh : Item(n, hop) \in Items
    BY <1>4 DEF Item, Items
  <2> QED
    BY <1>3, <1>4, <2>1, QueuedType
<1>8. /\ \A i \in DOMAIN todo' :
            \/ i + 1 \in DOMAIN todo /\ todo'[i] = todo[i + 1]
            \/ /\ i + 1 > Len(todo) /\ i + 1 - Len(todo) \in DOMAIN more
               /\ todo'[i] = more[i + 1 - Len(todo)]
      /\ \A i \in DOMAIN todo : i # 1 => i - 1 \in DOMAIN todo' /\ todo'[i - 1] = todo[i]
      /\ \A i \in DOMAIN more :
            i + Len(todo) - 1 \in DOMAIN todo' /\ todo'[i + Len(todo) - 1] = more[i]
  <2>1. todo \in Seq(Items) /\ todo # << >> /\ todo' = Tail(todo) \o more
    BY <1>1, <1>3
  <2>2. IsRequeued(todo, more, todo')
    BY <1>7, <2>1, Requeued, Zenon
  <2> QED
    BY <2>2 DEF IsRequeued
<1>9. OrderInv /\ began.links \subseteq links /\ target \in DOMAIN found /\ found[target] = 0
  BY <1>1 DEF RadiusInv
<1>10. \A i \in DOMAIN todo :
          /\ todo[i].id \in DOMAIN found /\ found[todo[i].id] = todo[i].hop /\ todo[i].hop \in Nat
          /\ head.hop <= todo[i].hop /\ todo[i].hop <= hop
  <2>1. \A i \in DOMAIN todo : i \in Nat \ {0} /\ todo[i] \in Items
    BY <1>1
  <2> QED
    BY <1>1, <1>2, <1>4, <1>9, <2>1 DEF OrderInv, Items
<1>11. \A n \in DOMAIN found' : found'[n] <= hop
  <2>1. \A n \in DOMAIN found : found[n] <= hop
    BY <1>1, <1>2, <1>4, <1>9 DEF OrderInv
  <2> QED
    BY <1>4, <1>5, <2>1
<1>12. \A i \in DOMAIN todo' :
          /\ i \in Nat
          /\ todo'[i].id \in DOMAIN found' /\ found'[todo'[i].id] = todo'[i].hop
          /\ todo'[i].hop \in Nat /\ head.hop <= todo'[i].hop
          /\ \/ i + 1 \in DOMAIN todo /\ todo'[i] = todo[i + 1]
             \/ i + 1 > Len(todo) /\ todo'[i].hop = hop
  <2> SUFFICES ASSUME NEW i \in DOMAIN todo'
               PROVE  /\ i \in Nat
                      /\ todo'[i].id \in DOMAIN found' /\ found'[todo'[i].id] = todo'[i].hop
                      /\ todo'[i].hop \in Nat /\ head.hop <= todo'[i].hop
                      /\ \/ i + 1 \in DOMAIN todo /\ todo'[i] = todo[i + 1]
                         \/ i + 1 > Len(todo) /\ todo'[i].hop = hop
    OBVIOUS
  <2>1. i \in Nat
    BY DEF TypeOK
  <2>2. CASE i + 1 \in DOMAIN todo /\ todo'[i] = todo[i + 1]
    BY <1>5, <1>10, <2>1, <2>2
  <2>3. CASE /\ i + 1 > Len(todo) /\ i + 1 - Len(todo) \in DOMAIN more
             /\ todo'[i] = more[i + 1 - Len(todo)]
    <3>1. todo'[i].hop = hop /\ todo'[i].id \in fresh
      BY <1>6, <2>3
    <3> QED
      BY <1>2, <1>4, <1>5, <2>1, <2>3, <3>1
  <2> QED
    BY <1>8, <2>2, <2>3
<1>13. \A i, j \in DOMAIN todo' : i < j => todo'[i].hop <= todo'[j].hop
  <2> SUFFICES ASSUME NEW i \in DOMAIN todo', NEW j \in DOMAIN todo', i < j
               PROVE  todo'[i].hop <= todo'[j].hop
    OBVIOUS
  <2>1. i \in Nat /\ j \in Nat /\ Len(todo) \in Nat /\ DOMAIN todo = 1 .. Len(todo)
    BY <1>1, <1>12
  <2>2. todo'[i].hop <= hop
    BY <1>11, <1>12
  <2>3. CASE j + 1 \in DOMAIN todo /\ todo'[j] = todo[j + 1]
    <3>1. i + 1 \in DOMAIN todo /\ todo'[i] = todo[i + 1] /\ i + 1 < j + 1
      BY <1>12, <2>1, <2>3
    <3> QED
      BY <1>9, <2>3, <3>1 DEF OrderInv
  <2>4. CASE todo'[j].hop = hop
    BY <2>2, <2>4
  <2> QED
    BY <1>12, <2>3, <2>4
<1>14. OrderInv'
  <2>1. todo' # << >> => \A n \in DOMAIN found' : found'[n] <= todo'[1].hop + 1
    <3> SUFFICES ASSUME todo' # << >>, NEW n \in DOMAIN found'
                 PROVE  found'[n] <= todo'[1].hop + 1
      OBVIOUS
    <3>1. 1 \in DOMAIN todo'
      BY DEF TypeOK
    <3>2. head.hop <= todo'[1].hop /\ todo'[1].hop \in Nat
      BY <1>12, <3>1
    <3> QED
      BY <1>2, <1>4, <1>5, <1>11, <3>2
  <2> QED
    BY <1>12, <1>13, <2>1 DEF OrderInv
<1>15. ASSUME NEW n \in DOMAIN found'
       PROVE  IsQueued(n)' \/ found'[n] >= MaxHops \/ Visited(n)'
  <2>1. CASE n \in fresh
    BY <1>6, <1>8, <2>1 DEF IsQueued
  <2>2. CASE n \in DOMAIN found /\ IsQueued(n)
    <3>1. PICK i \in DOMAIN todo : todo[i].id = n
      BY <2>2 DEF IsQueued
    <3>2. CASE i # 1
      BY <1>8, <3>1, <3>2 DEF IsQueued
    <3>3. CASE i = 1
      <4>1. n = head.id /\ found'[n] = head.hop
        BY <1>2, <1>5, <1>9, <2>2, <3>1, <3>3 DEF OrderInv
      <4>2. ASSUME NEW m \in Ids, <<n, m>> \in Undirected(began.links)
            PROVE  m \in DOMAIN found' /\ found'[m] <= found'[n] + 1
        <5>1. <<n, m>> \in Undirected(links)
          BY <1>9, <4>2 DEF Undirected
        <5> QED
          BY <1>4, <1>5, <1>11, <4>1, <5>1
      <4> QED
        BY <1>1, <4>2 DEF Visited, Undirected
    <3> QED
      BY <3>2, <3>3
  <2>3. CASE n \in DOMAIN found /\ found[n] >= MaxHops
    BY <1>5, <2>3
  <2>4. CASE n \in DOMAIN found /\ Visited(n)
    BY <1>1, <1>5, <2>4 DEF Visited, Undirected
  <2> QED
    BY <1>1, <1>5, <2>1, <2>2, <2>3, <2>4 DEF RadiusInv
<1> QED
  BY <1>1, <1>5, <1>9, <1>14, <1>15 DEF RadiusInv

LEMMA QueryPassRadius ==
    ASSUME TypeOK, TypeOK', RadiusInv, QueryPass
    PROVE  RadiusInv'
<1>1. /\ kind = "query" /\ todo # << >> /\ todo \in Seq(Items) /\ Head(todo).hop >= MaxHops
      /\ links' = links /\ began' = began /\ target' = target /\ found' = found
      /\ found \in [DOMAIN found -> Nat] /\ todo' = Tail(todo)
  BY DEF QueryPass, TypeOK
<1>2. /\ OrderInv /\ began.links \subseteq links /\ target \in DOMAIN found /\ found[target] = 0
      /\ 1 \in DOMAIN todo /\ Head(todo) = todo[1]
  BY <1>1 DEF RadiusInv
<1>3. /\ DOMAIN todo = 1 .. Len(todo) /\ Len(todo) \in Nat \ {0} /\ DOMAIN todo' = 1 .. Len(todo) - 1
      /\ \A i \in DOMAIN todo' : i \in Nat /\ i + 1 \in DOMAIN todo /\ todo'[i] = todo[i + 1]
      /\ \A i \in DOMAIN todo : todo[i] \in Items /\ todo[i].hop \in Nat
  <2>1. todo \in Seq(Items) /\ todo # << >> /\ todo' = Tail(todo)
    BY <1>1
  <2>2. Len(todo) \in Nat \ {0} /\ DOMAIN todo = 1 .. Len(todo)
    BY <2>1
  <2>3. /\ todo' \in Seq(Items) /\ Len(todo') = Len(todo) - 1
        /\ \A i \in 1 .. Len(todo') : todo'[i] = todo[i + 1]
    BY <2>1, HeadTailProperties
  <2>4. \A i \in DOMAIN todo : todo[i] \in Items
    BY <2>1
  <2>5. DOMAIN todo' = 1 .. Len(todo) - 1
    BY <2>2, <2>3
  <2> QED
    BY <2>2, <2>3, <2>4, <2>5 DEF Items
<1>4. OrderInv'
  <2>1. /\ \A i \in DOMAIN todo' :
              todo'[i].id \in DOMAIN found /\ found[todo'[i].id] = todo'[i].hop
        /\ \A i, j \in DOMAIN todo' : i < j => todo'[i].hop <= todo'[j].hop
    BY <1>2, <1>3 DEF OrderInv
  <2>2. ASSUME todo' # << >> PROVE \A n \in DOMAIN found : found[n] <= todo'[1].hop + 1
    <3>1. 1 \in DOMAIN todo'
      BY <2>2 DEF TypeOK
    <3>2. todo[1].hop <= todo'[1].hop /\ todo'[1].hop \in Nat /\ todo[1].hop \in Nat
      BY <1>2, <1>3, <3>1 DEF OrderInv
    <3>3. \A n \in DOMAIN found : found[n] <= todo[1].hop + 1 /\ found[n] \in Nat
      BY <1>1, <1>2 DEF OrderInv
    <3> QED
      BY <3>2, <3>3
  <2> QED
    BY <1>1, <2>1, <2>2 DEF OrderInv
<1>5. ASSUME NEW n \in DOMAIN found
      PROVE  IsQueued(n)' \/ found[n] >= MaxHops \/ Visited(n)'
  <2>1. CASE IsQueued(n)
    <3>1. PICK i \in DOMAIN todo : todo[i].id = n
      BY <2>1 DEF IsQueued
    <3>2. CASE i = 1
      BY <1>1, <1>2, <3>1, <3>2 DEF OrderInv
    <3>3. CASE i # 1
      <4>1. i - 1 \in DOMAIN todo' /\ todo'[i - 1] = todo[i]
        BY <1>3, <3>3
      <4> QED
        BY <3>1, <4>1 DEF IsQueued
    <3> QED
      BY <3>2, <3>3
  <2>2. CASE Visited(n)
    BY <1>1, <2>2 DEF Visited, Undirected
  <2> QED
    BY <1>1, <2>1, <2>2 DEF RadiusInv
<1> QED
  BY <1>1, <1>2, <1>4, <1>5 DEF RadiusInv

LEMMA StartQueryRadius ==
    ASSUME TypeOK, TypeOK', StartQuery
    PROVE  RadiusInv'
<1>1. /\ todo' = <<Item(target', 0)>> /\ found' = [n \in {target'} |-> 0]
      /\ links' = links /\ began'.links = links
  BY DEF StartQuery, Begin
<1>2. DOMAIN todo' = {1} /\ todo'[1].id = target' /\ todo'[1].hop = 0
  BY <1>1 DEF Item
<1>3. DOMAIN found' = {target'} /\ found'[target'] = 0
  BY <1>1
<1>4. OrderInv'
  BY <1>2, <1>3 DEF OrderInv
<1>5. IsQueued(target)'
  BY <1>2 DEF IsQueued
<1> QED
  BY <1>1, <1>3, <1>4, <1>5 DEF RadiusInv

(* A query that has ended has found every id that was within two hops of   *)
(* the node when it began, no farther than it was then.                    *)
THEOREM RadiusIsFound == Spec => []QueryFindsRadius
<1>1. Init => RadiusInv
  BY DEF Init, RadiusInv
<1>2. RadiusInv /\ TypeOK /\ TypeOK' /\ [Next]_vars => RadiusInv'
  <2> SUFFICES ASSUME RadiusInv, TypeOK, TypeOK', [Next]_vars PROVE RadiusInv'
    OBVIOUS
  <2>1. CASE Write \/ UNCHANGED vars
    <3>1. /\ kind' = kind /\ target' = target /\ began' = began /\ todo' = todo /\ found' = found
          /\ links \subseteq links'
      BY <2>1 DEF Write, vars
    <3>2. OrderInv' = OrderInv /\ \A n : IsQueued(n)' = IsQueued(n) /\ Visited(n)' = Visited(n)
      BY <3>1 DEF OrderInv, IsQueued, Visited, Undirected
    <3> QED
      BY <3>1, <3>2 DEF RadiusInv
  <2>2. CASE kind' # "query"
    BY <2>2 DEF RadiusInv
  <2>3. CASE StartImpact \/ StartDepth \/ ImpactVisit \/ ImpactPass \/ ImpactMiss \/ DepthVisit \/ DepthNext
    <3>1. kind' # "query"
      BY <2>3 DEF StartImpact, StartDepth, Begin, ImpactVisit, ImpactPass, ImpactMiss, DepthVisit, DepthNext
    <3> QED
      BY <2>2, <3>1
  <2> QED
    BY <2>1, <2>3, StartQueryRadius, QueryVisitRadius, QueryPassRadius DEF Next, Visit
<1>3. RadiusInv /\ TypeOK => QueryFindsRadius
  <2> SUFFICES ASSUME RadiusInv, TypeOK, Ended, kind = "query", NEW n \in Ids, NEW d \in 0 .. MaxHops,
                      Walk(Undirected(began.links), d, n)
               PROVE  n \in DOMAIN found /\ found[n] <= d
    BY DEF QueryFindsRadius
  <2> DEFINE steps == Undirected(began.links)
  <2>1. PICK w \in [0 .. d -> Ids] :
          w[0] = target /\ w[d] = n /\ \A i \in 0 .. d - 1 : <<w[i], w[i + 1]>> \in steps
    BY DEF Walk
  <2>2. /\ target \in DOMAIN found /\ found[target] = 0 /\ found \in [DOMAIN found -> Nat]
        /\ d \in Nat /\ d <= 2
    BY DEF RadiusInv, TypeOK, MaxHops
  <2>3. ASSUME NEW m \in DOMAIN found, found[m] < 2
        PROVE  \A k \in Ids : <<m, k>> \in steps => k \in DOMAIN found /\ found[k] <= found[m] + 1
    <3>1. ~IsQueued(m)
      BY DEF Ended, IsQueued
    <3>2. ~(found[m] >= MaxHops)
      BY <2>2, <2>3 DEF MaxHops
    <3> QED
      BY <3>1, <3>2 DEF RadiusInv, Visited
  <2> HIDE DEF steps
  <2>4. CASE d = 0
    BY <2>1, <2>2, <2>4
  <2>5. CASE d > 0
    <3>1. w[1] \in Ids /\ <<target, w[1]>> \in steps
      <4>1. 0 \in 0 .. d - 1 /\ 1 \in 0 .. d /\ 0 + 1 = 1
        BY <2>2, <2>5
      <4>2. <<w[0], w[0 + 1]>> \in steps
        BY <2>1, <4>1
      <4> QED
        BY <2>1, <4>1, <4>2
    <3>2. w[1] \in DOMAIN found /\ found[w[1]] <= 1 /\ found[w[1]] \in Nat
      BY <2>2, <2>3, <3>1
    <3>3. CASE d = 1
      BY <2>1, <3>2, <3>3
    <3>4. CASE d = 2
      <4>1. <<w[1], n>> \in steps
        BY <2>1, <3>4
      <4>2. n \in DOMAIN found /\ found[n] <= found[w[1]] + 1
        BY <2>3, <3>2, <4>1
      <4> QED
        BY <2>2, <3>2, <3>4, <4>2
    <3> QED
      BY <2>2, <2>5, <3>3, <3>4
  <2> QED
    BY <2>2, <2>4, <2>5
<1> QED
  BY <1>1, <1>2, <1>3, TypeCorrect, PTL DEF Spec

-----------------------------------------------------------------------------
(* The depth.  Walks of every length take an induction: by the least       *)
(* length for which something does not hold.                               *)
LEMMA LeastNumber ==
    ASSUME NEW T, T \subseteq Nat, T # {}
    PROVE  \E n \in T : \A m \in T : ~(m < n)
<1>1. IsWellFoundedOn(OpToRel(<, Nat), Nat)
  BY NatLessThanWellFounded, Zenon
<1>2. \E n \in T : \A m \in T : <<m, n>> \notin OpToRel(<, Nat)
  BY <1>1, WFMin, Zenon
<1> QED
  BY <1>2 DEF OpToRel

(* A walk without its last step.                                           *)
LEMMA WalkBack ==
    ASSUME NEW steps, NEW d \in Nat \ {0}, NEW n, Walk(steps, d, n)
    PROVE  \E m \in Ids : Walk(steps, d - 1, m) /\ <<m, n>> \in steps
<1>1. PICK w \in [0 .. d -> Ids] :
        w[0] = target /\ w[d] = n /\ \A i \in 0 .. d - 1 : <<w[i], w[i + 1]>> \in steps
  BY DEF Walk
<1> DEFINE v == [i \in 0 .. d - 1 |-> w[i]]
<1>2. v \in [0 .. d - 1 -> Ids] /\ v[0] = target /\ v[d - 1] = w[d - 1]
  BY <1>1
<1>3. \A i \in 0 .. (d - 1) - 1 : <<v[i], v[i + 1]>> \in steps
  <2> SUFFICES ASSUME NEW i \in 0 .. (d - 1) - 1 PROVE <<v[i], v[i + 1]>> \in steps
    OBVIOUS
  <2>1. i \in 0 .. d - 1 /\ i + 1 \in 0 .. d - 1
    OBVIOUS
  <2> QED
    BY <1>1, <2>1
<1>4. w[d - 1] \in Ids /\ <<w[d - 1], n>> \in steps
  <2>1. d - 1 \in 0 .. d - 1 /\ d - 1 \in 0 .. d /\ (d - 1) + 1 = d
    OBVIOUS
  <2> QED
    BY <1>1, <2>1
<1> HIDE DEF v
<1>5. Walk(steps, d - 1, w[d - 1])
  BY <1>2, <1>3 DEF Walk
<1> QED
  BY <1>4, <1>5

LEMMA WalkOfNone ==
    ASSUME NEW steps, NEW n, Walk(steps, 0, n)
    PROVE  n = target
  BY DEF Walk

(* A set that has the target and whatever its members lead to has every    *)
(* walk's end.                                                             *)
LEMMA WalksStay ==
    ASSUME NEW steps, NEW S, target \in S,
           \A n \in S, m \in Ids : <<n, m>> \in steps => m \in S
    PROVE  \A d \in Nat, n \in Ids : Walk(steps, d, n) => n \in S
<1> DEFINE T == {d \in Nat : \E n \in Ids : Walk(steps, d, n) /\ n \notin S}
<1> SUFFICES ASSUME T # {} PROVE FALSE
  OBVIOUS
<1>1. PICK d \in T : \A e \in T : ~(e < d)
  BY LeastNumber
<1>2. PICK n \in Ids : Walk(steps, d, n) /\ n \notin S
  BY <1>1
<1>3. d \in Nat \ {0}
  BY <1>1, <1>2, WalkOfNone
<1>4. PICK m \in Ids : Walk(steps, d - 1, m) /\ <<m, n>> \in steps
  BY <1>2, <1>3, WalkBack
<1>5. d - 1 \in Nat /\ d - 1 < d
  BY <1>3
<1>6. d - 1 \notin T
  BY <1>1, <1>5
<1>7. m \in S
  BY <1>4, <1>5, <1>6
<1> QED
  BY <1>2, <1>4, <1>7

(* What an id that has been visited led to when the search began has been  *)
(* seen.  While nobody writes, `depth` is the level: what has been seen is *)
(* at most that far but for the next level, which is farther, and the      *)
(* level was not empty.                                                    *)
Steps == Among(began.nodes, began.links)

Unwritten == began = [nodes |-> nodes, links |-> links]

LevelInv ==
    /\ \A n \in seen \ layer : \E d \in 0 .. depth : Walk(Steps, d, n)
    /\ \A n \in frontier : Walk(Steps, depth, n)
    /\ \A n \in layer : Walk(Steps, depth + 1, n)
    /\ \A n \in Ids, d \in 0 .. depth : Walk(Steps, d, n) => n \in seen \ layer
    /\ \E n \in seen : \A d \in 0 .. depth - 1 : ~Walk(Steps, d, n)

DepthInv ==
    kind = "depth" =>
        /\ target \in seen
        /\ began.nodes \subseteq nodes /\ began.links \subseteq links
        /\ \A n \in seen \ (frontier \cup layer), m \in Ids : <<n, m>> \in Steps => m \in seen
        /\ Unwritten => LevelInv

LEMMA StartDepthInv ==
    ASSUME TypeOK, TypeOK', StartDepth
    PROVE  DepthInv'
<1>1. /\ target' \in Ids /\ seen' = {target'} /\ frontier' = {target'} /\ layer' = {} /\ depth' = 0
      /\ nodes' = nodes /\ links' = links /\ began' = [nodes |-> nodes, links |-> links]
  BY DEF StartDepth, Begin, GraphAssumption
<1>2. Walk(Steps, 0, target)'
  <2> DEFINE w == [i \in 0 .. 0 |-> target']
  <2>1. w \in [0 .. 0 -> Ids] /\ w[0] = target' /\ \A i \in 0 .. 0 - 1 : <<w[i], w[i + 1]>> \in Steps'
    BY <1>1
  <2> HIDE DEF w
  <2> QED
    BY <2>1 DEF Walk
<1>3. \A n \in Ids, d \in 0 .. 0 : Walk(Steps, d, n)' => n = target'
  BY DEF Walk
<1>4. LevelInv'
  BY <1>1, <1>2, <1>3 DEF LevelInv
<1> QED
  BY <1>1, <1>4 DEF DepthInv

LEMMA DepthVisitInv ==
    ASSUME TypeOK, TypeOK', DepthInv, DepthVisit
    PROVE  DepthInv'
<1>1. PICK id \in frontier :
        LET fresh == {n \in nodes : <<id, n>> \in links} \ seen
        IN  frontier' = frontier \ {id} /\ seen' = seen \cup fresh /\ layer' = layer \cup fresh
  BY DEF DepthVisit
<1> DEFINE fresh == {n \in nodes : <<id, n>> \in links} \ seen
<1>2. /\ kind = "depth" /\ kind' = kind /\ nodes' = nodes /\ links' = links /\ began' = began
      /\ target' = target /\ depth' = depth
      /\ frontier' = frontier \ {id} /\ seen' = seen \cup fresh /\ layer' = layer \cup fresh
      /\ id \in Ids /\ id \in seen /\ fresh \cap seen = {} /\ layer \subseteq seen /\ depth \in Nat
      /\ nodes \subseteq Ids
  BY <1>1 DEF DepthVisit, TypeOK
<1>3. \A n \in fresh : n \in Ids /\ n \in nodes /\ <<id, n>> \in links
  BY <1>2
<1>4. \A m \in nodes : <<id, m>> \in links => m \in seen \cup fresh
  OBVIOUS
<1> HIDE DEF fresh
<1>5. Steps' = Steps /\ \A d, n : Walk(Steps, d, n)' = Walk(Steps, d, n)
  BY <1>2 DEF Steps, Walk
<1>6. ASSUME NEW n \in seen' \ (frontier' \cup layer'), NEW m \in Ids, <<n, m>> \in Steps'
      PROVE  m \in seen'
  <2>1. CASE n = id
    <3>1. m \in nodes /\ <<id, m>> \in links
      BY <1>2, <1>5, <1>6, <2>1 DEF DepthInv, Steps, Among
    <3> QED
      BY <1>2, <1>4, <3>1
  <2>2. CASE n # id
    BY <1>2, <1>5, <1>6, <2>2 DEF DepthInv
  <2> QED
    BY <2>1, <2>2
<1>7. ASSUME Unwritten' PROVE LevelInv'
  <2>1. LevelInv /\ began.nodes = nodes /\ began.links = links
    BY <1>2, <1>7 DEF DepthInv, Unwritten
  <2>2. seen' \ layer' = seen \ layer
    BY <1>2
  <2>3. \A n \in fresh : Walk(Steps, depth + 1, n)
    <3> SUFFICES ASSUME NEW n \in fresh PROVE Walk(Steps, depth + 1, n)
      OBVIOUS
    <3>1. Walk(Steps, depth, id) /\ <<id, n>> \in Steps
      BY <1>1, <1>2, <1>3, <2>1 DEF LevelInv, Steps, Among
    <3> QED
      BY <1>2, <1>3, <3>1, WalkOn
  <2>4. /\ \A n \in frontier' : Walk(Steps, depth, n)
        /\ \A n \in layer' : Walk(Steps, depth + 1, n)
    BY <1>2, <2>1, <2>3 DEF LevelInv
  <2>5. \E n \in seen' : \A d \in 0 .. depth - 1 : ~Walk(Steps, d, n)
    BY <1>2, <2>1 DEF LevelInv
  <2> QED
    BY <1>2, <1>5, <2>1, <2>2, <2>4, <2>5 DEF LevelInv
<1> QED
  BY <1>2, <1>6, <1>7 DEF DepthInv

LEMMA DepthNextInv ==
    ASSUME TypeOK, TypeOK', DepthInv, DepthNext
    PROVE  DepthInv'
<1>1. /\ kind = "depth" /\ kind' = kind /\ nodes' = nodes /\ links' = links /\ began' = began
      /\ target' = target /\ depth' = depth + 1 /\ depth \in Nat
      /\ frontier = {} /\ layer # {} /\ frontier' = layer /\ layer' = {} /\ seen' = seen
      /\ layer \subseteq seen /\ seen \subseteq Ids
  BY DEF DepthNext, TypeOK
<1>2. Steps' = Steps /\ \A d, n : Walk(Steps, d, n)' = Walk(Steps, d, n)
  BY <1>1 DEF Steps, Walk
<1>3. ASSUME Unwritten' PROVE LevelInv'
  <2>1. LevelInv
    BY <1>1, <1>3 DEF DepthInv, Unwritten
  <2>2. \A n \in layer, d \in 0 .. depth : ~Walk(Steps, d, n)
    BY <1>1, <2>1 DEF LevelInv
  <2>3. \A n \in seen : \E d \in 0 .. depth + 1 : Walk(Steps, d, n)
    BY <1>1, <2>1 DEF LevelInv
  <2>4. ASSUME NEW n \in Ids, NEW d \in 0 .. depth + 1, Walk(Steps, d, n)
        PROVE  n \in seen
    <3>1. CASE d <= depth
      BY <1>1, <2>1, <2>4, <3>1 DEF LevelInv
    <3>2. CASE d = depth + 1
      <4>1. d \in Nat \ {0} /\ d - 1 = depth
        BY <1>1, <3>2
      <4>2. PICK m \in Ids : Walk(Steps, depth, m) /\ <<m, n>> \in Steps
        BY <2>4, <4>1, WalkBack
      <4>3. m \in seen \ (frontier \cup layer)
        BY <1>1, <2>1, <4>2 DEF LevelInv
      <4> QED
        BY <1>1, <4>2, <4>3 DEF DepthInv
    <3> QED
      BY <1>1, <3>1, <3>2
  <2>5. (depth + 1) - 1 = depth
    BY <1>1
  <2>6. PICK n \in layer : TRUE
    BY <1>1
  <2>7. n \in seen' /\ \A d \in 0 .. depth' - 1 : ~Walk(Steps, d, n)'
    BY <1>1, <1>2, <2>2, <2>5, <2>6
  <2>8. \A k \in frontier' : Walk(Steps, depth, k)'
    <3>1. \A k \in frontier' : Walk(Steps, depth + 1, k)
      BY <1>1, <2>1 DEF LevelInv
    <3> QED
      BY <1>1, <1>2, <3>1
  <2>9. \A k \in seen' \ layer' : \E d \in 0 .. depth' : Walk(Steps, d, k)'
    BY <1>1, <1>2, <2>3
  <2>10. \A k \in Ids, d \in 0 .. depth' : Walk(Steps, d, k)' => k \in seen' \ layer'
    BY <1>1, <1>2, <2>4
  <2>11. \A k \in layer' : Walk(Steps, depth + 1, k)'
    BY <1>1
  <2>12. \E k \in seen' : \A d \in 0 .. depth' - 1 : ~Walk(Steps, d, k)'
    BY <2>7
  <2> QED
    BY <2>8, <2>9, <2>10, <2>11, <2>12 DEF LevelInv
<1>4. \A n \in seen' \ (frontier' \cup layer'), m \in Ids : <<n, m>> \in Steps' => m \in seen'
  BY <1>1, <1>2 DEF DepthInv
<1> QED
  BY <1>1, <1>3, <1>4 DEF DepthInv

(* A depth search that has ended has seen all the start led to when it     *)
(* began, and if nobody wrote meanwhile its result is the distance of the  *)
(* farthest node, in a graph with or without cycles.                       *)
THEOREM DepthIsReached == Spec => []DepthIsFarthest
<1>1. Init => DepthInv
  BY DEF Init, DepthInv
<1>2. DepthInv /\ TypeOK /\ TypeOK' /\ [Next]_vars => DepthInv'
  <2> SUFFICES ASSUME DepthInv, TypeOK, TypeOK', [Next]_vars PROVE DepthInv'
    OBVIOUS
  <2>1. CASE UNCHANGED vars
    <3>1. /\ kind' = kind /\ target' = target /\ began' = began /\ nodes' = nodes /\ links' = links
          /\ seen' = seen /\ frontier' = frontier /\ layer' = layer /\ depth' = depth
      BY <2>1 DEF vars
    <3>2. Steps' = Steps /\ \A d, n : Walk(Steps, d, n)' = Walk(Steps, d, n)
      BY <3>1 DEF Steps, Walk
    <3>3. Unwritten' = Unwritten /\ LevelInv' = LevelInv
      BY <3>1, <3>2 DEF Unwritten, LevelInv
    <3> QED
      BY <3>1, <3>2, <3>3 DEF DepthInv
  <2>2. CASE Write
    <3>1. /\ kind' = kind /\ target' = target /\ began' = began
          /\ seen' = seen /\ frontier' = frontier /\ layer' = layer
          /\ nodes \subseteq nodes' /\ links \subseteq links'
          /\ nodes' # nodes \/ links' # links
      BY <2>2 DEF Write
    <3>2. ASSUME kind = "depth" PROVE ~Unwritten'
      <4>1. began.nodes \subseteq nodes /\ began.links \subseteq links
        BY <3>2 DEF DepthInv
      <4>2. Unwritten' => began.nodes = nodes' /\ began.links = links'
        BY <3>1 DEF Unwritten
      <4> QED
        BY <3>1, <4>1, <4>2
    <3>3. Steps' = Steps
      BY <3>1 DEF Steps
    <3> QED
      BY <3>1, <3>2, <3>3 DEF DepthInv
  <2>3. CASE StartQuery \/ StartImpact \/ QueryVisit \/ QueryPass \/ ImpactVisit \/ ImpactPass \/ ImpactMiss
    <3>1. kind' # "depth"
      BY <2>3 DEF StartQuery, StartImpact, Begin, QueryVisit, QueryPass, ImpactVisit, ImpactPass, ImpactMiss
    <3> QED
      BY <3>1 DEF DepthInv
  <2> QED
    BY <2>1, <2>2, <2>3, StartDepthInv, DepthVisitInv, DepthNextInv DEF Next, Visit
<1>3. DepthInv /\ TypeOK => DepthIsFarthest
  <2> SUFFICES ASSUME DepthInv, TypeOK, Ended, kind = "depth"
               PROVE  /\ \A n \in Ids, d \in 0 .. Cardinality(Ids) - 1 : Walk(Steps, d, n) => n \in seen
                      /\ Unwritten =>
                            /\ \A n \in seen : \E d \in 0 .. depth : Walk(Steps, d, n)
                            /\ \E n \in seen : \A d \in 0 .. depth - 1 : ~Walk(Steps, d, n)
    BY DEF DepthIsFarthest, Steps, Unwritten
  <2>1. frontier = {} /\ layer = {}
    BY DEF Ended
  <2>2. target \in seen /\ \A n \in seen, m \in Ids : <<n, m>> \in Steps => m \in seen
    BY <2>1 DEF DepthInv
  <2>3. \A d \in Nat, n \in Ids : Walk(Steps, d, n) => n \in seen
    BY <2>2, WalksStay
  <2>4. Cardinality(Ids) \in Nat
    BY FS_CardinalityType DEF GraphAssumption
  <2>5. \A d \in 0 .. Cardinality(Ids) - 1 : d \in Nat
    BY <2>4
  <2>6. Unwritten => LevelInv
    BY DEF DepthInv
  <2> QED
    BY <2>1, <2>3, <2>5, <2>6 DEF LevelInv
<1> QED
  BY <1>1, <1>2, <1>3, TypeCorrect, PTL DEF Spec
===============================================================================
