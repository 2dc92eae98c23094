--------------------------- MODULE NarrationLedger ---------------------------
(***************************************************************************)
(* What the enrichment queue and the narration cache promise together,     *)
(* without processes, claims, failures or reviews: work is submitted, what *)
(* is narrated becomes known for good, and an item is finished once, when  *)
(* a text its paragraph had while the item was open is known.              *)
(***************************************************************************)
EXTENDS Naturals, Sequences

CONSTANTS Paragraphs, Hashes

VARIABLES
    items,      \* the items submitted, in order
    known       \* the hashes that have been narrated

Item == [para : Paragraphs, texts : SUBSET Hashes, state : {"open", "done"}]

Init == items = << >> /\ known = {}

Submit(p, h) ==
    /\ items' = Append(items, [para |-> p, texts |-> {h}, state |-> "open"])
    /\ UNCHANGED known

(* The paragraph's text becomes h, for all items of it still open.         *)
Change(p, h) ==
    /\ items' = [i \in DOMAIN items |->
                    IF items[i].para = p /\ items[i].state = "open"
                       THEN [items[i] EXCEPT !.texts = @ \cup {h}]
                       ELSE items[i]]
    /\ UNCHANGED known

Learn(h) == known' = known \cup {h} /\ UNCHANGED items

Finish(i) ==
    /\ items[i].state = "open"
    /\ items[i].texts \cap known # {}
    /\ items' = [items EXCEPT ![i].state = "done"]
    /\ UNCHANGED known

Next ==
    \/ \E p \in Paragraphs, h \in Hashes : Submit(p, h) \/ Change(p, h)
    \/ \E h \in Hashes : Learn(h)
    \/ \E i \in DOMAIN items : Finish(i)

Spec == Init /\ [][Next]_<<items, known>>
==============================================================================
