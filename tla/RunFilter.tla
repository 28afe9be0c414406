------------------------------ MODULE RunFilter -----------------------------
(***************************************************************************)
(* The filter of a query for runs (type Filter of src/storage/store.go).    *)
(* A run has tags (ISP, region, device class, verdict) and a start time; a   *)
(* filter has the tags it asks for, a start time or 0, and a limit.          *)
(***************************************************************************)
EXTENDS Integers

CONSTANT DefaultLimit   \* the most runs an answer may have

ASSUME DefaultLimitAssumption == DefaultLimit \in Nat \ {0}

(* Filter.limit: none given, or too large a one, is the default. *)
LimitOf(f) == IF f.limit <= 0 \/ f.limit > DefaultLimit THEN DefaultLimit ELSE f.limit

(* Filter.matches, for a run or for a row: the tags that are set are its own, and it *)
(* did not start too early.                                                          *)
Matches(f, r) ==
    /\ \A d \in DOMAIN f.tags : r.tags[d] = f.tags[d]
    /\ f.since # 0 => r.at >= f.since
=============================================================================
