------------------------------- MODULE RunStore -----------------------------
(***************************************************************************)
(* The two run stores, Memory (src/storage/store.go), a map under a mutex,  *)
(* and Postgres (src/storage/postgres.go, schema.sql), rows that repeat in   *)
(* columns what queries look at, beside the payload they return.  A run is a *)
(* record with its id, start time, tags and more.                            *)
(*                                                                          *)
(* One statement is atomic in the database, one critical section in memory.  *)
(***************************************************************************)
EXTENDS RunFilter, Sequences, FiniteSets, SequencesExt

VARIABLES
    kind,    \* "memory" or "postgres"
    data     \* run id -> the run, or the row of the run

storeVars == <<kind, data>>

(* The run kept under an id: in a row it is the payload. *)
RunOf(d) == IF kind = "memory" THEN d ELSE d.payload
Stored == [i \in DOMAIN data |-> RunOf(data[i])]

-----------------------------------------------------------------------------
(* <definition>_<fault>: faulty variants, which the properties must tell apart. *)

RowAfter_KeepTags(r) ==
    [at |-> r.at, payload |-> r,
     tags |-> IF r.id \in DOMAIN data THEN data[r.id].tags ELSE r.tags]

(* ON CONFLICT DO UPDATE: every column is the new run's, whatever the old row had. *)
RowAfter(r) == [at |-> r.at, tags |-> r.tags, payload |-> r]

(* Save of either store: the last write under an id wins. *)
SaveRun(r) ==
    data' = [i \in DOMAIN data \cup {r.id} |->
                IF i # r.id THEN data[i]
                ELSE IF kind = "memory" THEN r ELSE RowAfter(r)]

(* A statement may fail, and may have been committed before its connection broke. *)
SaveFails(r) ==
    /\ kind = "postgres"
    /\ SaveRun(r) \/ data' = data

(* The orders in which a set can come out of a sort, newest first: neither sort.Slice *)
(* nor ORDER BY says anything of ties.                                                *)
Sorted(S) == {s \in SetToSeqs(S) : \A k, l \in DOMAIN s : k < l => s[k].at >= s[l].at}

Truncate(s, f) == SubSeq(s, 1, IF Len(s) <= LimitOf(f) THEN Len(s) ELSE LimitOf(f))

Selected(f) == {data[i] : i \in {j \in DOMAIN data : Matches(f, data[j])}}

(* What List may answer: select (in the map, or by the columns), sort, truncate, and *)
(* return the runs. Memory sorts a copy, outside its critical section.               *)
Lists(f) == {[k \in DOMAIN s |-> RunOf(s[k])] : s \in {Truncate(t, f) : t \in Sorted(Selected(f))}}

(* The process of the store ends and starts again. *)
RestartStore ==
    data' = IF kind = "memory" THEN <<>> ELSE data
=============================================================================
