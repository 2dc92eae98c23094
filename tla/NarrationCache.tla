--------------------------- MODULE NarrationCache ---------------------------
(***************************************************************************)
(* The table narration_cache (enrichment/cache.py): one row per content    *)
(* hash of a redacted source, and the statements of the class              *)
(* NarrationCache.  A hash with no row is kept as a row without text.      *)
(***************************************************************************)
CONSTANTS
    Hashes,         \* content hashes of redacted paragraph sources
    Narrations,     \* the rule texts a model answers with
    Correction,     \* the rule text a human puts in place of one
    Blank           \* no text: the row, or the node, does not exist

ASSUME BlankAssumption == Blank \notin Narrations \cup {Correction}

Texts == Narrations \cup {Correction}

CacheRow == [text : Texts \cup {Blank}, verified : BOOLEAN, stale : BOOLEAN]

NoRow == [text |-> Blank, verified |-> FALSE, stale |-> FALSE]

IsCached(c, h) == c[h].text # Blank

(* is_stale: FALSE for a hash that has no row.                             *)
IsStale(c, h) == IsCached(c, h) /\ c[h].stale

(* get, as both of its callers in the enricher use it: a row that is not   *)
(* stale spares the call.                                                  *)
IsFresh(c, h) == IsCached(c, h) /\ ~c[h].stale

(* put: insert or replace, and never stale afterwards.                     *)
Put(c, h, t, v) == [c EXCEPT ![h] = [text |-> t, verified |-> v, stale |-> FALSE]]

(* mark_verified and mark_stale: UPDATEs, which do nothing without a row.  *)
MarkVerified(c, h) == IF IsCached(c, h) THEN [c EXCEPT ![h].verified = TRUE] ELSE c

MarkStale(c, h, s) == IF IsCached(c, h) THEN [c EXCEPT ![h].stale = s] ELSE c
==============================================================================
