------------------------------- MODULE RunList ------------------------------
(***************************************************************************)
(* What a run store promises (the interface Store of src/storage/store.go): *)
(* one run per run id, the last one saved, and answers to queries that are  *)
(* newest first and leave out nothing newer than what they contain.  Where   *)
(* runs are kept, in a map or in the rows of a table, does not show.  Both   *)
(* stores are shown to implement this specification, see Dashboard.          *)
(***************************************************************************)
EXTENDS RunFilter, Sequences, FiniteSets

CONSTANTS Report,   \* runs, records with fields id, at and tags
          Query,    \* filters, records with fields tags, since and limit
          Reader    \* who asks

VARIABLES durable,   \* the store survives a restart
          runs,      \* run id -> the run
          query,     \* what a reader wants to know: <<>>, or <<its query>>
          answer     \* what it was told: <<>>, or <<a sequence of runs>>

vars == <<durable, runs, query, answer>>

Nobody == [c \in Reader |-> <<>>]

Init == durable \in BOOLEAN /\ runs = <<>> /\ query = Nobody /\ answer = Nobody

-----------------------------------------------------------------------------
Matching(f) == {runs[i] : i \in {j \in DOMAIN runs : Matches(f, runs[j])}}

(* An answer to f: as many matching runs as the limit allows, each once, newest first, *)
(* and none left out that is newer than one of them.                                   *)
IsAnswer(f, list) ==
    LET listed == {list[k] : k \in DOMAIN list}
        enough == Cardinality(Matching(f)) <= LimitOf(f)
    IN  /\ listed \subseteq Matching(f)
        /\ Cardinality(listed) = Len(list)
        /\ Len(list) = IF enough THEN Cardinality(Matching(f)) ELSE LimitOf(f)
        /\ \A k, l \in DOMAIN list : k < l => list[k].at >= list[l].at
        /\ \A r \in Matching(f) \ listed : \A k \in DOMAIN list : list[k].at >= r.at

(* A run is saved, in place of an earlier one with its id. *)
Save(r) ==
    /\ runs' = [i \in DOMAIN runs \cup {r.id} |-> IF i = r.id THEN r ELSE runs[i]]
    /\ UNCHANGED <<durable, query, answer>>

(* A store that lives in memory only forgets when its process ends. *)
Forget ==
    /\ ~durable
    /\ runs' = <<>>
    /\ UNCHANGED <<durable, query, answer>>

Ask(c, f) ==
    /\ query[c] = <<>>
    /\ query' = [query EXCEPT ![c] = <<f>>]
    /\ UNCHANGED <<durable, runs, answer>>

(* A query is answered from the runs of one moment. *)
Answer(c) ==
    /\ query[c] # <<>> /\ answer[c] = <<>>
    /\ answer' = [answer EXCEPT ![c] = answer'[c]]
    /\ answer'[c] # <<>> /\ IsAnswer(query[c][1], answer'[c][1])
    /\ UNCHANGED <<durable, runs, query>>

(* The reader takes its answer, and asks the same again or is done; or it gives up. *)
Take(c) ==
    /\ query[c] # <<>>
    /\ answer' = [answer EXCEPT ![c] = <<>>]
    /\ \/ answer[c] # <<>> /\ query' = query
       \/ query' = [query EXCEPT ![c] = <<>>]
    /\ UNCHANGED <<durable, runs>>

Next ==
    \/ \E r \in Report : Save(r)
    \/ Forget
    \/ \E c \in Reader : Answer(c) \/ Take(c) \/ \E f \in Query : Ask(c, f)

Spec == Init /\ [][Next]_vars
=============================================================================
