------------------------------- MODULE WorkQueue -------------------------------
(***************************************************************************)
(* The work queue of `brain triage` (cli/commands/triage.py): the items    *)
(* found are ranked by risk and gone through once, each taken or skipped.  *)
(* triage/queue.py fills the queue of build_work_queue with the same loop. *)
(*                                                                         *)
(* Scores are whole numbers of ten-thousandths, the precision they are     *)
(* rounded to, and a GOTO density is given in hundredths.                  *)
(***************************************************************************)
EXTENDS Naturals, Sequences, Functions

CONSTANTS
    Threshold,      \* --threshold: the least score worth an item
    Allowance       \* --budget of the triage command, in tokens

ASSUME AllowanceAssumption == Threshold \in Nat /\ Allowance \in Nat

VARIABLES
    ranked,         \* the items, by risk
    considered,     \* how many of them the loop has gone through
    chosen,         \* the places of those it took
    used, skipped,  \* their tokens, and the number of the others
    spent           \* observer: spent[i] was used when item i was considered

queueVars == <<ranked, considered, chosen, used, skipped, spent>>

-----------------------------------------------------------------------------
(* What an extractor measures of a paragraph.                              *)
Metrics == [complexity : Nat, goto : 0 .. 100, calls : Nat, literals : Nat, partial : BOOLEAN]

MaxScore == 200000

(* A mutant of RiskScore without the cap.                                  *)
RiskUncapped(m) ==
    LET raw == 5000 * m.complexity + 20 * m.goto + 1500 * m.calls + 1000 * m.literals
    IN  IF m.partial THEN (3 * raw) \div 10 ELSE raw

(* risk_score: a weighted sum, capped, and damped for what was parsed in   *)
(* part only.  combined_risk adds nothing to a paragraph's score.          *)
RiskScore(m) ==
    LET raw == 5000 * m.complexity + 20 * m.goto + 1500 * m.calls + 1000 * m.literals
        capped == IF raw > MaxScore THEN MaxScore ELSE raw
    IN  IF m.partial THEN (3 * capped) \div 10 ELSE capped

(* tokens_estimate: four characters a token, and never none.               *)
TokensOf(length) == IF length < 8 THEN 1 ELSE length \div 4

-----------------------------------------------------------------------------
(* ranked.sort(reverse=True) is stable: items of equal risk keep their     *)
(* order.  f says which item comes first, second, ...                      *)
IsRanking(items, f) ==
    \A i, j \in DOMAIN items : i < j =>
        \/ items[f[i]].risk > items[f[j]].risk
        \/ items[f[i]].risk = items[f[j]].risk /\ f[i] < f[j]

NoQueue ==
    /\ ranked = << >>
    /\ considered = 0
    /\ chosen = {}
    /\ used = 0
    /\ skipped = 0
    /\ spent = <<0>>

Rank(items) ==
    /\ \E f \in Bijection(DOMAIN items, DOMAIN items) :
          /\ IsRanking(items, f)
          /\ ranked' = [i \in DOMAIN items |-> items[f[i]]]
    /\ considered' = 0
    /\ chosen' = {}
    /\ used' = 0
    /\ skipped' = 0
    /\ spent' = <<0>>

MoreItems == considered < Len(ranked)
Item == ranked[considered + 1]

Fits(item) == used + item.tokens <= Allowance

Considered ==
    /\ considered' = considered + 1
    /\ spent' = Append(spent, used')
    /\ UNCHANGED ranked

Take ==
    /\ MoreItems /\ Item.risk >= Threshold /\ Fits(Item)
    /\ chosen' = chosen \cup {considered + 1}
    /\ used' = used + Item.tokens
    /\ UNCHANGED skipped
    /\ Considered

(* Below the threshold, or too dear for what is left: a later, cheaper     *)
(* item may still be taken.                                                *)
Skip ==
    /\ MoreItems /\ (Item.risk < Threshold \/ ~Fits(Item))
    /\ skipped' = skipped + 1
    /\ UNCHANGED <<chosen, used>>
    /\ Considered
================================================================================
