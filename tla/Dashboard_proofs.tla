-------------------------- MODULE Dashboard_proofs --------------------------
(***************************************************************************)
(* Proofs about the engineer view, for every set of reports and filters and  *)
(* every number of submissions, refreshes and restarts; and that either run  *)
(* store implements RunList.                                                *)
(***************************************************************************)
EXTENDS Dashboard, FiniteSetTheorems, SequenceTheorems, TLAPS

(* A row of the table repeats its run's columns, so that it is selected, and sorted, as *)
(* the run would be.                                                                    *)
RowsAgree ==
    /\ IsFiniteSet(DOMAIN data)
    /\ \A j \in DOMAIN data :
          data[j] = IF kind = "memory" THEN Stored[j] ELSE RowAfter(Stored[j])

(* A run in the store comes from a submission. *)
Sourced == \A j \in DOMAIN data : Stored[j].n \in DOMAIN posts /\ Stored[j] = Run(Stored[j].n)

(* What was acknowledged before a submission was over by then; the run that is kept in *)
(* its place was not.                                                                  *)
Acks ==
    \A n \in DOMAIN posts :
        /\ posts[n].after \subseteq 1 .. n - 1
        /\ \A m \in posts[n].after : posts[m].client = "acked"
        /\ posts[n].client = "acked" => posts[n].server = "gone"
        /\ n \notin wiped /\ (posts[n].client = "acked" \/ posts[n].server = "noContent") =>
              /\ posts[n].report.id \in DOMAIN data
              /\ Stored[posts[n].report.id].n \notin posts[n].after

(* Beside a refresh that is clean no other one is at work; the curves it drew are its own. *)
Alone ==
    \A k \in DOMAIN refresh : refresh[k].clean =>
        /\ k = Len(refresh) /\ \A j \in DOMAIN refresh : j # k => ~Active(j)
        /\ refresh[k].at \in {"runs", "runsBack", "over"} => chart.by = k /\ chart.qs = refresh[k].qs
        /\ refresh[k].at = "over" => table.by = k /\ table.qs = refresh[k].qs

(* Why a run that was once in the store may be there no longer. *)
Lost(r) == Superseded(r) \/ r.n \in wiped

(* A run that was in an answer to qs: a submission's, which the query matches. *)
Traced(r, qs) ==
    /\ r.n \in DOMAIN posts /\ r = Run(r.n) /\ Matches(qs, r)
    /\ (r.id \in DOMAIN data /\ Stored[r.id] = r) \/ Lost(r)

Covered ==
    \A k \in DOMAIN refresh, qs \in Queries : qs = refresh[k].qs =>
        /\ refresh[k].at = "cdfBack" => \A r \in ToSet(refresh[k].list) : Traced(r, qs)
        /\ refresh[k].clean =>
              /\ refresh[k].at = "runs" => \A r \in chart.runs : Traced(r, qs)
              /\ refresh[k].at = "runsBack" /\ Len(refresh[k].list) < LimitOf(refresh[k].qs) =>
                    \A r \in chart.runs : r \in ToSet(refresh[k].list) \/ Lost(r)
              /\ refresh[k].at = "over" /\ Len(table.list) < LimitOf(table.qs) =>
                    \A r \in chart.runs : r \in ToSet(table.list) \/ Lost(r)

IInv == TypeOK /\ RowsAgree /\ Sourced /\ Acks /\ Alone /\ Covered

-----------------------------------------------------------------------------
(* What a store answers: the runs that match, or as many of the newest as the limit allows. *)
Matching(f) == {Stored[j] : j \in {i \in DOMAIN data : Matches(f, Stored[i])}}

LEMMA LimitType == ASSUME NEW f \in Queries PROVE LimitOf(f) \in Nat \ {0}
BY DefaultLimitAssumption, QueriesAssumption DEF LimitOf

(* A row, or a run in the map, is selected and sorted as its run would be. *)
LEMMA RowSelected ==
    ASSUME RowsAgree, NEW f, NEW j \in DOMAIN data
    PROVE  /\ Stored[j] = RunOf(data[j]) /\ data[j].at = Stored[j].at
           /\ Matches(f, data[j]) <=> Matches(f, Stored[j])
<1>1. Stored[j] = RunOf(data[j])
  BY DEF Stored
<1>2. CASE kind = "memory"
  BY <1>1, <1>2 DEF RowsAgree
<1>3. CASE kind # "memory"
  <2>1. data[j] = [at |-> Stored[j].at, tags |-> Stored[j].tags, payload |-> Stored[j]]
    BY <1>3 DEF RowsAgree, RowAfter
  <2>2. data[j].at = Stored[j].at /\ data[j].tags = Stored[j].tags
    BY <2>1
  <2> QED BY <1>1, <2>2 DEF Matches
<1> QED BY <1>2, <1>3

(* As many rows are selected as runs match: the rows of two runs differ, and so do the *)
(* runs of two rows.                                                                  *)
LEMMA RowsToRuns ==
    ASSUME RowsAgree, NEW f
    PROVE  /\ IsFiniteSet(Selected(f))
           /\ \A d, e \in Selected(f) : RunOf(d) = RunOf(e) => d = e
           /\ Matching(f) = {RunOf(d) : d \in Selected(f)}
           /\ Cardinality(Matching(f)) = Cardinality(Selected(f))
<1> DEFINE D == {j \in DOMAIN data : Matches(f, data[j])}
<1>1. IsFiniteSet(D)
  BY FS_Subset DEF RowsAgree
<1>2. Selected(f) = {data[j] : j \in D}
  BY DEF Selected
<1>3. IsFiniteSet(Selected(f))
  <2>1. [j \in D |-> data[j]] \in Surjection(D, Selected(f))
    BY <1>2 DEF Surjection
  <2> QED BY <1>1, <2>1, FS_Surjection
<1>4. \A d, e \in Selected(f) : RunOf(d) = RunOf(e) => d = e
  <2>1. \A d \in Selected(f) : d = IF kind = "memory" THEN RunOf(d) ELSE RowAfter(RunOf(d))
    BY <1>2, RowSelected DEF RowsAgree
  <2> QED BY <2>1
<1>5. Matching(f) = {RunOf(d) : d \in Selected(f)}
  BY <1>2, RowSelected DEF Matching
<1>6. ExistsBijection(Selected(f), Matching(f))
  <2> DEFINE run == [d \in Selected(f) |-> RunOf(d)]
  <2>1. run \in [Selected(f) -> Matching(f)]
    BY <1>5
  <2>2. run \in Injection(Selected(f), Matching(f))
    BY <1>4, <2>1 DEF Injection, IsInjective
  <2>3. run \in Surjection(Selected(f), Matching(f))
    BY <1>5, <2>1 DEF Surjection
  <2> QED BY <2>2, <2>3 DEF ExistsBijection, Bijection
<1> QED BY <1>3, <1>4, <1>5, <1>6, FS_Bijection

(* A sorted sequence of all of a finite set has each element once. *)
LEMMA SortedAll ==
    ASSUME NEW S, IsFiniteSet(S), NEW t \in Sorted(S)
    PROVE  /\ t \in Seq(S) /\ Len(t) = Cardinality(S) /\ Len(t) \in Nat
           /\ DOMAIN t = 1 .. Len(t)
           /\ \A k, l \in 1 .. Len(t) : k # l => t[k] # t[l]
           /\ \A x \in S : \E k \in 1 .. Len(t) : t[k] = x
           /\ \A k, l \in 1 .. Len(t) : k < l => t[k].at >= t[l].at
<1> DEFINE n == Cardinality(S)
<1>1. n \in Nat
  BY FS_CardinalityType
<1> HIDE DEF n
<1>2. t \in [1 .. n -> S] /\ \A k, l \in 1 .. n : k # l => t[k] # t[l]
  BY DEF n, Sorted, SetToSeqs
<1>3. t \in Seq(S) /\ Len(t) = n /\ DOMAIN t = 1 .. n
  BY <1>1, <1>2
<1>4. t \in Injection(1 .. n, S)
  BY <1>2 DEF Injection, IsInjective
<1>5. Cardinality(1 .. n) = n
  BY <1>1, FS_Interval
<1>6. t \in Surjection(1 .. n, S)
  BY <1>4, <1>5, FS_Injection DEF n
<1>7. \A k, l \in 1 .. n : k < l => t[k].at >= t[l].at
  BY <1>3 DEF Sorted
<1> QED BY <1>1, <1>2, <1>3, <1>6, <1>7 DEF n, Surjection

(* An answer of either store: the newest of the matching runs, each once, as many as *)
(* allowed.                                                                          *)
LEMMA ListFacts ==
    ASSUME RowsAgree, NEW f \in Queries, NEW list \in Lists(f)
    PROVE  /\ list \in Seq(Matching(f)) /\ DOMAIN list = 1 .. Len(list)
           /\ Len(list) = IF Cardinality(Matching(f)) <= LimitOf(f)
                          THEN Cardinality(Matching(f)) ELSE LimitOf(f)
           /\ \A k, l \in DOMAIN list : k # l => list[k] # list[l]
           /\ \A k, l \in DOMAIN list : k < l => list[k].at >= list[l].at
           /\ Cardinality(Matching(f)) <= LimitOf(f) => Matching(f) \subseteq ToSet(list)
           /\ \A r \in Matching(f) \ ToSet(list) : \A k \in DOMAIN list : list[k].at >= r.at
<1>1. PICK t \in Sorted(Selected(f)) :
         list = [k \in DOMAIN Truncate(t, f) |-> RunOf(Truncate(t, f)[k])]
  BY DEF Lists
<1> DEFINE n == Cardinality(Matching(f))
           c == IF n <= LimitOf(f) THEN n ELSE LimitOf(f)
<1>2. LimitOf(f) \in Nat
  BY LimitType
<1>3. /\ t \in Seq(Selected(f)) /\ Len(t) = n /\ n \in Nat /\ DOMAIN t = 1 .. n
      /\ \A k, l \in 1 .. n : k # l => t[k] # t[l]
      /\ \A d \in Selected(f) : \E k \in 1 .. n : t[k] = d
      /\ \A k, l \in 1 .. n : k < l => t[k].at >= t[l].at
  BY RowsToRuns, SortedAll
<1> HIDE DEF n
<1>4. c \in 0 .. n
  BY <1>2, <1>3
<1>5. Truncate(t, f) = SubSeq(t, 1, c)
  BY <1>3 DEF Truncate
<1> HIDE DEF c
<1>6. /\ DOMAIN Truncate(t, f) = 1 .. c
      /\ \A k \in 1 .. c : Truncate(t, f)[k] = t[k]
  BY <1>3, <1>4, <1>5
<1>7. DOMAIN list = 1 .. c /\ \A k \in 1 .. c : list[k] = RunOf(t[k])
  BY <1>1, <1>6
<1>8. \A k \in 1 .. n : /\ t[k] \in Selected(f) /\ RunOf(t[k]) \in Matching(f)
                        /\ t[k].at = RunOf(t[k]).at
  <2>1. \A k \in 1 .. n : t[k] \in Selected(f)
    BY <1>3
  <2>2. \A d \in Selected(f) : RunOf(d) \in Matching(f)
    BY RowsToRuns
  <2>3. \A d \in Selected(f) : d.at = RunOf(d).at
    BY RowSelected DEF Selected
  <2> QED BY <2>1, <2>2, <2>3
<1>9. list \in Seq(Matching(f)) /\ Len(list) = c
  <2>1. list \in [1 .. c -> Matching(f)]
    <3>1. list = [k \in 1 .. c |-> RunOf(Truncate(t, f)[k])]
      BY <1>1, <1>6, Zenon
    <3>2. \A k \in 1 .. c : RunOf(Truncate(t, f)[k]) \in Matching(f)
      BY <1>3, <1>4, <1>6, <1>8
    <3> QED BY <3>1, <3>2
  <2> QED BY <1>4, <2>1
<1>10. \A k, l \in 1 .. c : k # l => list[k] # list[l]
  BY <1>3, <1>4, <1>7, <1>8, RowsToRuns
<1>11. \A k, l \in 1 .. c : k < l => list[k].at >= list[l].at
  BY <1>3, <1>4, <1>7, <1>8
<1>12. \A r \in Matching(f) \ ToSet(list) : \E m \in 1 .. n : r = RunOf(t[m]) /\ m > c
  <2> SUFFICES ASSUME NEW r \in Matching(f) \ ToSet(list)
               PROVE  \E m \in 1 .. n : r = RunOf(t[m]) /\ m > c
    OBVIOUS
  <2>1. PICK m \in 1 .. n : r = RunOf(t[m])
    BY <1>3, RowsToRuns
  <2>2. m \notin 1 .. c
    BY <1>7, <2>1 DEF ToSet
  <2> QED BY <1>3, <1>4, <2>1, <2>2
<1>13. n <= LimitOf(f) => Matching(f) \subseteq ToSet(list)
  BY <1>3, <1>12 DEF c
<1>14. \A r \in Matching(f) \ ToSet(list) : \A k \in 1 .. c : list[k].at >= r.at
  BY <1>3, <1>4, <1>7, <1>8, <1>12
<1> QED BY <1>7, <1>9, <1>10, <1>11, <1>13, <1>14 DEF n, c

(* An answer that is shorter than the limit allows is complete. *)
LEMMA ListComplete ==
    ASSUME RowsAgree, NEW f \in Queries, NEW list \in Lists(f), Len(list) < LimitOf(f)
    PROVE  Matching(f) \subseteq ToSet(list)
BY ListFacts, LimitType

-----------------------------------------------------------------------------
LEMMA PostType ==
    ASSUME TypeOK
    PROVE  /\ Len(posts) \in 0 .. MaxPosts /\ DOMAIN posts = 1 .. Len(posts)
           /\ work \in Workload /\ MaxPosts \in Nat /\ MaxRefreshes \in Nat
           /\ \A n \in DOMAIN posts :
                 posts[n] \in Post /\ Run(n) \in Runs /\ Run(n).n = n /\ Run(n).id = posts[n].report.id
<1>1. work \in Workload /\ MaxPosts \in Nat /\ MaxRefreshes \in Nat
  BY WorkloadsAssumption DEF TypeOK
<1>2. Len(posts) \in 0 .. MaxPosts /\ DOMAIN posts = 1 .. Len(posts)
  BY <1>1, LenProperties DEF TypeOK, Workload
<1>3. \A n \in DOMAIN posts : posts[n] \in Post
  BY DEF TypeOK
<1>4. \A n \in DOMAIN posts : Run(n) \in Runs /\ Run(n).n = n /\ Run(n).id = posts[n].report.id
  <2> SUFFICES ASSUME NEW n \in DOMAIN posts
               PROVE  Run(n) \in Runs /\ Run(n).n = n /\ Run(n).id = posts[n].report.id
    OBVIOUS
  <2>1. Run(n) = RunAs(n, posts[n].report) /\ n \in 1 .. MaxPosts /\ posts[n].report \in Uploads
    BY <1>1, <1>2, <1>3 DEF Run, Post
  <2> QED BY <2>1 DEF Runs, RunAs
<1> QED BY <1>1, <1>2, <1>3, <1>4

LEMMA RefreshType ==
    ASSUME TypeOK
    PROVE  /\ Len(refresh) \in 0 .. MaxRefreshes /\ DOMAIN refresh = 1 .. Len(refresh)
           /\ \A k \in DOMAIN refresh : refresh[k] \in Refresh /\ refresh[k].qs \in Queries
<1>1. work \in Workload /\ MaxPosts \in Nat /\ MaxRefreshes \in Nat
  BY WorkloadsAssumption DEF TypeOK
<1>2. Len(refresh) \in 0 .. MaxRefreshes /\ DOMAIN refresh = 1 .. Len(refresh)
  BY <1>1, LenProperties DEF TypeOK, Workload
<1>3. \A k \in DOMAIN refresh : refresh[k] \in Refresh
  BY DEF TypeOK
<1> QED BY <1>2, <1>3 DEF Refresh

(* What Save does to the runs in the store, be it a map or a table. *)
LEMMA Saved ==
    ASSUME TypeOK, RowsAgree, NEW r, SaveRun(r), kind' = kind
    PROVE  /\ DOMAIN data' = DOMAIN data \cup {r.id}
           /\ Stored' = [j \in DOMAIN data \cup {r.id} |-> IF j = r.id THEN r ELSE Stored[j]]
           /\ RowsAgree'
<1>1. DOMAIN data' = DOMAIN data \cup {r.id}
  BY DEF SaveRun
<1>2. \A j \in DOMAIN data' : j # r.id => j \in DOMAIN data /\ data'[j] = data[j]
  BY DEF SaveRun
<1>3. \A j \in DOMAIN data : Stored[j] = RunOf(data[j])
  BY DEF Stored
<1>4. \A j \in DOMAIN data' : RunOf(data[j])' = IF j = r.id THEN r ELSE Stored[j]
  <2>1. CASE kind = "memory"
    <3>1. \A j \in DOMAIN data' : data'[j] = IF j = r.id THEN r ELSE data[j]
      BY <2>1 DEF SaveRun
    <3> QED BY <1>2, <1>3, <2>1, <3>1 DEF RunOf
  <2>2. CASE kind # "memory"
    <3>1. \A j \in DOMAIN data' : data'[j] = IF j = r.id THEN RowAfter(r) ELSE data[j]
      BY <2>2 DEF SaveRun
    <3>2. RowAfter(r).payload = r
      BY DEF RowAfter
    <3> QED BY <1>2, <1>3, <2>2, <3>1, <3>2 DEF RunOf
  <2> QED BY <2>1, <2>2
<1>5. Stored' = [j \in DOMAIN data \cup {r.id} |-> IF j = r.id THEN r ELSE Stored[j]]
  <2>1. Stored' = [j \in DOMAIN data' |-> RunOf(data[j])']
    BY DEF Stored
  <2> QED BY <1>1, <1>4, <2>1
<1>6. RowsAgree'
  <2>1. IsFiniteSet(DOMAIN data')
    BY <1>1, FS_AddElement DEF RowsAgree
  <2>2. \A j \in DOMAIN data' : data'[j] = IF kind' = "memory" THEN Stored'[j] ELSE RowAfter(Stored'[j])
    <3>1. \A j \in DOMAIN data' : j = r.id => data'[j] = IF kind = "memory" THEN r ELSE RowAfter(r)
      BY <1>1 DEF SaveRun
    <3> QED BY <1>1, <1>2, <1>5, <3>1 DEF RowsAgree
  <2>3. \A x : RowAfter(x)' = RowAfter(x)
    BY DEF RowAfter
  <2> QED BY <2>1, <2>2, <2>3 DEF RowsAgree
<1> QED BY <1>1, <1>5, <1>6

-----------------------------------------------------------------------------
(* The steps in which a submission goes on, and those of the page. *)
Posting(n) == Reject(n) \/ Ingest(n) \/ ReadAnswer(n) \/ BreakOff(n)
Paging ==
    \/ \E f \in Queries : Edit(f) \/ Click(f)
    \/ \E k \in DOMAIN refresh :
          \/ Serve(k, "cdf", "cdfBack") \/ DrawChart(k)
          \/ Serve(k, "runs", "runsBack") \/ DrawTable(k) \/ FetchFails(k)

(* The steps of the system by who takes them: submissions, the process, the page. *)
LEMMA Steps ==
    ASSUME Next
    PROVE  \/ \E r \in Uploads : Submit(r)
           \/ \E n \in DOMAIN posts : Posting(n)
           \/ Restart
           \/ Paging
BY DEF Next, Handlers, Page, Posting, Paging

LEMMA PagingKeeps == ASSUME Paging PROVE UNCHANGED <<kind, data, work, posts, restarts, wiped>>
BY DEF Paging, Edit, Click, Serve, DrawChart, DrawTable, FetchFails, storeVars, postVars

(* What a new submission changes. *)
LEMMA SubmitEffect ==
    ASSUME TypeOK, NEW u \in Uploads, Submit(u)
    PROVE  /\ UNCHANGED <<kind, data, work, restarts, wiped, form, refresh, chart, table>>
           /\ posts' \in Seq(Post) /\ Len(posts') <= work.posts
           /\ DOMAIN posts' = DOMAIN posts \cup {Len(posts) + 1} /\ Len(posts) + 1 \notin DOMAIN posts
           /\ \A m \in DOMAIN posts : posts'[m] = posts[m]
           /\ posts'[Len(posts) + 1] = [report |-> u, client |-> "waiting", server |-> "sent",
                                        after |-> {m \in DOMAIN posts : posts[m].client = "acked"}]
<1> DEFINE new == [report |-> u, client |-> "waiting", server |-> "sent",
                   after |-> {m \in DOMAIN posts : posts[m].client = "acked"}]
<1>1. /\ posts' = Append(posts, new) /\ Len(posts) < work.posts
      /\ UNCHANGED <<kind, data, work, restarts, wiped, form, refresh, chart, table>>
  BY DEF Submit, storeVars, pageVars
<1>2. DOMAIN posts = 1 .. Len(posts) /\ Len(posts) \in 0 .. MaxPosts /\ work.posts \in 0 .. MaxPosts
  BY PostType DEF Workload
<1>3. new \in Post
  <2>1. {m \in DOMAIN posts : posts[m].client = "acked"} \in SUBSET (1 .. MaxPosts)
    BY <1>2, PostType
  <2> QED BY <2>1 DEF Post
<1> HIDE DEF new
<1>4. /\ posts' \in Seq(Post) /\ Len(posts') = Len(posts) + 1
      /\ \A m \in 1 .. Len(posts) : posts'[m] = posts[m]
      /\ posts'[Len(posts) + 1] = new
  BY <1>1, <1>3, AppendProperties DEF TypeOK
<1>5. DOMAIN posts' = 1 .. Len(posts) + 1
  BY <1>4, LenProperties
<1>6. Len(posts') <= work.posts
  BY <1>1, <1>2, <1>4
<1> QED BY <1>1, <1>2, <1>4, <1>5, <1>6 DEF new

(* What a step of a submission under way changes: itself, and the store when it saves. *)
LEMMA PostingEffect ==
    ASSUME TypeOK, NEW n \in DOMAIN posts, Posting(n)
    PROVE  /\ UNCHANGED <<kind, work, restarts, wiped, form, refresh, chart, table>>
           /\ posts' \in Seq(Post) /\ Len(posts') = Len(posts) /\ DOMAIN posts' = DOMAIN posts
           /\ \A m \in DOMAIN posts : m # n => posts'[m] = posts[m]
           /\ posts'[n].report = posts[n].report /\ posts'[n].after = posts[n].after
           /\ \/ /\ data' = data /\ posts[n].server = "sent"
                 /\ posts'[n].server \in {"badRequest", "serverError"} /\ posts'[n].client = posts[n].client
              \/ /\ SaveRun(Run(n)) /\ posts[n].server = "sent" /\ posts[n].report.valid
                 /\ posts'[n].server \in {"noContent", "serverError"} /\ posts'[n].client = posts[n].client
              \/ /\ data' = data /\ posts[n].server \in Replied /\ posts'[n].server = "gone"
                 /\ \/ posts'[n].client = posts[n].client
                    \/ posts[n].client = "waiting" /\ posts'[n].client = "failed"
                    \/ posts[n].client = "waiting" /\ posts'[n].client = "acked" /\ posts[n].server = "noContent"
              \/ /\ data' = data /\ posts'[n].server = posts[n].server
                 /\ posts[n].client = "waiting" /\ posts'[n].client = "failed"
<1> USE DEF storeVars, pageVars
<1>1. posts[n] \in Post /\ DOMAIN posts = 1 .. Len(posts) /\ posts \in Seq(Post)
  BY PostType DEF TypeOK
<1>2. ASSUME NEW code \in {"noContent", "badRequest", "serverError"}, Answered(n, code)
      PROVE  /\ posts' \in Seq(Post) /\ Len(posts') = Len(posts) /\ DOMAIN posts' = DOMAIN posts
             /\ \A m \in DOMAIN posts : m # n => posts'[m] = posts[m]
             /\ posts'[n].report = posts[n].report /\ posts'[n].after = posts[n].after
             /\ posts'[n].server = code /\ posts'[n].client = posts[n].client
  <2> DEFINE new == [posts[n] EXCEPT !.server = code]
  <2>1. posts' = [posts EXCEPT ![n] = new]
    BY <1>2 DEF Answered
  <2>2. /\ new \in Post /\ new.report = posts[n].report /\ new.after = posts[n].after
        /\ new.server = code /\ new.client = posts[n].client
    BY <1>1 DEF Post
  <2> HIDE DEF new
  <2> QED BY <1>1, <2>1, <2>2, ExceptSeq
<1>3. CASE Reject(n)
  BY <1>2, <1>3 DEF Reject
<1>4. CASE Ingest(n)
  <2>1. CASE SaveRun(Run(n)) /\ Answered(n, "noContent")
    BY <1>2, <1>4, <2>1 DEF Ingest
  <2>2. CASE SaveFails(Run(n)) /\ Answered(n, "serverError")
    BY <1>2, <1>4, <2>2 DEF Ingest, SaveFails
  <2> QED BY <1>4, <2>1, <2>2 DEF Ingest
<1>5. CASE ReadAnswer(n)
  <2> DEFINE told == IF posts[n].client # "waiting" THEN posts[n].client
                     ELSE IF posts[n].server = "noContent" THEN "acked" ELSE "failed"
             new == [posts[n] EXCEPT !.server = "gone", !.client = told]
  <2>1. posts' = [posts EXCEPT ![n] = new]
    BY <1>1, <1>5 DEF ReadAnswer
  <2>2. told \in {"waiting", "acked", "failed"}
    BY <1>1 DEF Post
  <2>3. /\ new \in Post /\ new.report = posts[n].report /\ new.after = posts[n].after
        /\ new.server = "gone" /\ new.client = told
    BY <1>1, <2>2 DEF Post
  <2> HIDE DEF new
  <2>4. /\ posts' \in Seq(Post) /\ Len(posts') = Len(posts) /\ DOMAIN posts' = DOMAIN posts
        /\ \A m \in DOMAIN posts : m # n => posts'[m] = posts[m]
        /\ posts'[n] = new
    BY <1>1, <2>1, <2>3, ExceptSeq
  <2> QED BY <1>5, <2>3, <2>4 DEF ReadAnswer
<1>6. CASE BreakOff(n)
  <2> DEFINE new == [posts[n] EXCEPT !.client = "failed"]
  <2>1. posts' = [posts EXCEPT ![n] = new]
    BY <1>6 DEF BreakOff
  <2>2. /\ new \in Post /\ new.report = posts[n].report /\ new.after = posts[n].after
        /\ new.server = posts[n].server /\ new.client = "failed"
    BY <1>1 DEF Post
  <2> HIDE DEF new
  <2>3. /\ posts' \in Seq(Post) /\ Len(posts') = Len(posts) /\ DOMAIN posts' = DOMAIN posts
        /\ \A m \in DOMAIN posts : m # n => posts'[m] = posts[m]
        /\ posts'[n] = new
    BY <1>1, <2>1, <2>2, ExceptSeq
  <2> QED BY <1>6, <2>2, <2>3 DEF BreakOff
<1> QED BY <1>3, <1>4, <1>5, <1>6 DEF Posting

(* What the end of the server's process changes: open requests, and a store in memory. *)
LEMMA RestartEffect ==
    ASSUME TypeOK, Restart
    PROVE  /\ UNCHANGED <<kind, work, form, refresh, chart, table>>
           /\ restarts < work.restarts /\ restarts' = restarts + 1
           /\ posts' \in Seq(Post) /\ Len(posts') = Len(posts) /\ DOMAIN posts' = DOMAIN posts
           /\ \A m \in DOMAIN posts :
                 /\ posts'[m].report = posts[m].report /\ posts'[m].after = posts[m].after
                 /\ posts'[m].server = "gone"
                 /\ posts'[m].client = IF posts[m].client = "waiting" THEN "failed" ELSE posts[m].client
           /\ IF kind = "memory" THEN data' = <<>> /\ wiped' = DOMAIN posts
                                 ELSE data' = data /\ wiped' = wiped
<1> DEFINE new(m) == [posts[m] EXCEPT !.server = "gone",
                                      !.client = IF @ = "waiting" THEN "failed" ELSE @]
<1>1. posts' = [m \in DOMAIN posts |-> new(m)]
  BY DEF Restart
<1>2. \A m \in DOMAIN posts :
         /\ new(m) \in Post
         /\ new(m).report = posts[m].report /\ new(m).after = posts[m].after
         /\ new(m).server = "gone"
         /\ new(m).client = IF posts[m].client = "waiting" THEN "failed" ELSE posts[m].client
  <2> SUFFICES ASSUME NEW m \in DOMAIN posts
               PROVE  /\ new(m) \in Post
                      /\ new(m).report = posts[m].report /\ new(m).after = posts[m].after
                      /\ new(m).server = "gone"
                      /\ new(m).client = IF posts[m].client = "waiting" THEN "failed" ELSE posts[m].client
    OBVIOUS
  <2>1. posts[m] \in Post
    BY PostType
  <2>2. posts[m].client \in {"waiting", "acked", "failed"}
    BY <2>1 DEF Post
  <2> QED BY <2>1, <2>2 DEF Post
<1>3. DOMAIN posts = 1 .. Len(posts) /\ Len(posts) \in Nat
  BY PostType
<1> HIDE DEF new
<1>4. posts' \in [1 .. Len(posts) -> Post]
  BY <1>1, <1>2, <1>3
<1>5. posts' \in Seq(Post) /\ Len(posts') = Len(posts)
  BY <1>3, <1>4
<1> QED BY <1>1, <1>2, <1>3, <1>5 DEF Restart, RestartStore, pageVars

-----------------------------------------------------------------------------
(* How the calls of refresh() go on. *)
Advance(k) ==
    \/ Serve(k, "cdf", "cdfBack") \/ DrawChart(k)
    \/ Serve(k, "runs", "runsBack") \/ DrawTable(k) \/ FetchFails(k)

LEMMA ListType ==
    ASSUME TypeOK, RowsAgree, NEW f \in Queries, NEW list \in Lists(f)
    PROVE  list \in Seq(Runs)
<1>1. Matching(f) \subseteq Runs
  BY DEF Matching, TypeOK
<1>2. list \in Seq(Matching(f))
  BY ListFacts
<1> QED BY <1>1, <1>2, SeqMonotonic

(* What a new refresh changes. *)
LEMMA ClickEffect ==
    ASSUME TypeOK, NEW f \in Queries, Click(f)
    PROVE  /\ UNCHANGED <<chart, table>> /\ form' = f
           /\ refresh' \in Seq(Refresh) /\ Len(refresh') = Len(refresh) + 1 /\ Len(refresh') <= work.refreshes
           /\ DOMAIN refresh' = DOMAIN refresh \cup {Len(refresh) + 1} /\ Len(refresh) + 1 \notin DOMAIN refresh
           /\ \A k \in DOMAIN refresh :
                 /\ refresh'[k].at = refresh[k].at /\ refresh'[k].qs = refresh[k].qs
                 /\ refresh'[k].list = refresh[k].list /\ refresh'[k].clean = FALSE
           /\ LET new == refresh'[Len(refresh) + 1]
              IN /\ new.at = "cdf" /\ new.qs = f /\ new.list = Nothing
                 /\ new.clean => \A k \in DOMAIN refresh : ~Active(k)
<1> DEFINE alone == \A k \in DOMAIN refresh : ~Active(k)
           old == [k \in DOMAIN refresh |-> [refresh[k] EXCEPT !.clean = FALSE]]
           new == [at |-> "cdf", qs |-> f, clean |-> alone, list |-> Nothing]
<1>1. refresh' = Append(old, new) /\ Len(refresh) < work.refreshes /\ UNCHANGED <<chart, table>> /\ form' = f
  BY DEF Click
<1>2. /\ DOMAIN refresh = 1 .. Len(refresh) /\ Len(refresh) \in Nat
      /\ \A k \in DOMAIN refresh : refresh[k] \in Refresh
  BY RefreshType
<1>3. new \in Refresh
  <2>1. Nothing \in Seq(Runs)
    BY EmptySeq DEF Nothing
  <2>2. alone \in BOOLEAN
    BY Zenon
  <2> HIDE DEF alone
  <2> QED BY <2>1, <2>2 DEF Refresh
<1>4. \A k \in DOMAIN refresh :
         /\ old[k] \in Refresh /\ old[k].at = refresh[k].at /\ old[k].qs = refresh[k].qs
         /\ old[k].list = refresh[k].list /\ old[k].clean = FALSE
  BY <1>2 DEF Refresh
<1>5. DOMAIN old = 1 .. Len(refresh) /\ old \in [1 .. Len(refresh) -> Refresh]
  BY <1>2, <1>4
<1> HIDE DEF old, new
<1>6. old \in Seq(Refresh) /\ Len(old) = Len(refresh)
  BY <1>2, <1>5
<1>7. /\ refresh' \in Seq(Refresh) /\ Len(refresh') = Len(refresh) + 1
      /\ \A k \in 1 .. Len(refresh) : refresh'[k] = old[k]
      /\ refresh'[Len(refresh) + 1] = new
  BY <1>1, <1>3, <1>6, AppendProperties
<1>8. DOMAIN refresh' = DOMAIN refresh \cup {Len(refresh) + 1} /\ Len(refresh) + 1 \notin DOMAIN refresh
  BY <1>2, <1>7, LenProperties
<1>9. Len(refresh') <= work.refreshes
  BY <1>1, <1>2, <1>7, PostType DEF Workload
<1>10. new.at = "cdf" /\ new.qs = f /\ new.list = Nothing /\ new.clean = alone
  <2> HIDE DEF alone
  <2> QED BY DEF new
<1>11. \A k \in DOMAIN refresh :
          /\ refresh'[k].at = refresh[k].at /\ refresh'[k].qs = refresh[k].qs
          /\ refresh'[k].list = refresh[k].list /\ refresh'[k].clean = FALSE
  BY <1>2, <1>4, <1>7
<1>12. refresh'[Len(refresh) + 1].clean => \A k \in DOMAIN refresh : ~Active(k)
  BY <1>7, <1>10, Zenon
<1> HIDE DEF alone
<1> QED BY <1>1, <1>7, <1>8, <1>9, <1>10, <1>11, <1>12

(* What a step of a refresh changes: itself, and one half of the page when it draws. *)
LEMMA AdvanceEffect ==
    ASSUME TypeOK, RowsAgree, NEW k \in DOMAIN refresh, Advance(k)
    PROVE  /\ form' = form
           /\ refresh' \in Seq(Refresh) /\ Len(refresh') = Len(refresh) /\ DOMAIN refresh' = DOMAIN refresh
           /\ \A j \in DOMAIN refresh : j # k => refresh'[j] = refresh[j]
           /\ refresh'[k].qs = refresh[k].qs /\ refresh'[k].clean = refresh[k].clean
           /\ \/ /\ refresh[k].at = "cdf" /\ refresh'[k].at = "cdfBack"
                 /\ refresh'[k].list \in Lists(refresh[k].qs) /\ UNCHANGED <<chart, table>>
              \/ /\ refresh[k].at = "cdfBack" /\ refresh'[k].at = "runs" /\ refresh'[k].list = Nothing
                 /\ chart' = CurvesOf(k, refresh[k].list) /\ table' = table
              \/ /\ refresh[k].at = "runs" /\ refresh'[k].at = "runsBack"
                 /\ refresh'[k].list \in Lists(refresh[k].qs) /\ UNCHANGED <<chart, table>>
              \/ /\ refresh[k].at = "runsBack" /\ refresh'[k].at = "over" /\ refresh'[k].list = Nothing
                 /\ table' = [by |-> k, qs |-> refresh[k].qs, list |-> refresh[k].list] /\ chart' = chart
              \/ /\ refresh[k].at \in {"cdf", "runs"} /\ refresh'[k].at = "failed"
                 /\ refresh'[k].list = refresh[k].list /\ UNCHANGED <<chart, table>>
<1>1. refresh[k] \in Refresh /\ refresh[k].qs \in Queries /\ refresh \in Seq(Refresh) /\ k \in 1 .. Len(refresh)
  BY RefreshType DEF TypeOK
<1>2. Nothing \in Seq(Runs)
  BY EmptySeq DEF Nothing
<1>3. ASSUME NEW place \in {"cdfBack", "runs", "runsBack", "over", "failed"}, NEW list \in Seq(Runs),
             refresh' = [refresh EXCEPT ![k].at = place, ![k].list = list]
      PROVE  /\ refresh' \in Seq(Refresh) /\ Len(refresh') = Len(refresh) /\ DOMAIN refresh' = DOMAIN refresh
             /\ \A j \in DOMAIN refresh : j # k => refresh'[j] = refresh[j]
             /\ refresh'[k].qs = refresh[k].qs /\ refresh'[k].clean = refresh[k].clean
             /\ refresh'[k].at = place /\ refresh'[k].list = list
  <2> DEFINE new == [refresh[k] EXCEPT !.at = place, !.list = list]
  <2>1. refresh' = [refresh EXCEPT ![k] = new]
    BY <1>1, <1>3
  <2>2. /\ new \in Refresh /\ new.qs = refresh[k].qs /\ new.clean = refresh[k].clean
        /\ new.at = place /\ new.list = list
    BY <1>1 DEF Refresh
  <2> HIDE DEF new
  <2> QED BY <1>1, <2>1, <2>2, ExceptSeq
<1>4. ASSUME NEW asked \in {"cdf", "runs"}, NEW back \in {"cdfBack", "runsBack"}, Serve(k, asked, back)
      PROVE  /\ form' = form /\ UNCHANGED <<chart, table>>
             /\ refresh' \in Seq(Refresh) /\ Len(refresh') = Len(refresh) /\ DOMAIN refresh' = DOMAIN refresh
             /\ \A j \in DOMAIN refresh : j # k => refresh'[j] = refresh[j]
             /\ refresh'[k].qs = refresh[k].qs /\ refresh'[k].clean = refresh[k].clean
             /\ refresh[k].at = asked /\ refresh'[k].at = back /\ refresh'[k].list \in Lists(refresh[k].qs)
  <2>1. PICK list \in Lists(refresh[k].qs) : refresh' = [refresh EXCEPT ![k].at = back, ![k].list = list]
    BY <1>4 DEF Serve
  <2>2. list \in Seq(Runs)
    BY <1>1, ListType
  <2> QED BY <1>3, <1>4, <2>1, <2>2 DEF Serve
<1>5. CASE DrawChart(k)
  BY <1>2, <1>3, <1>5 DEF DrawChart
<1>6. CASE DrawTable(k)
  BY <1>2, <1>3, <1>6 DEF DrawTable
<1>7. CASE FetchFails(k)
  <2>1. refresh[k].list \in Seq(Runs)
    BY <1>1 DEF Refresh
  <2>2. refresh' = [refresh EXCEPT ![k].at = "failed", ![k].list = refresh[k].list]
    <3>1. refresh' = [refresh EXCEPT ![k] = [refresh[k] EXCEPT !.at = "failed"]]
      BY <1>7 DEF FetchFails
    <3>2. [refresh[k] EXCEPT !.at = "failed"] = [refresh[k] EXCEPT !.at = "failed", !.list = refresh[k].list]
      BY <1>1 DEF Refresh
    <3> QED BY <1>1, <3>1, <3>2
  <2> QED BY <1>3, <1>7, <2>1, <2>2 DEF FetchFails
<1>8. CASE Serve(k, "cdf", "cdfBack")
  BY <1>4, <1>8
<1>9. CASE Serve(k, "runs", "runsBack")
  BY <1>4, <1>9
<1> QED BY <1>5, <1>6, <1>7, <1>8, <1>9 DEF Advance

-----------------------------------------------------------------------------
(* An empty store and an empty page agree. *)
LEMMA InitIInv == Init => IInv
<1> SUFFICES ASSUME Init PROVE IInv
  OBVIOUS
<1> USE DEF Init
<1>1. form \in Queries
  BY QueriesAssumption
<1>2. <<>> \in Seq(Post) /\ <<>> \in Seq(Refresh) /\ <<>> \in Seq(Runs) /\ Len(<<>>) = 0
  BY EmptySeq
<1>3. DOMAIN data = {} /\ DOMAIN posts = {} /\ DOMAIN refresh = {}
  OBVIOUS
<1>4. work \in Workload
  BY WorkloadsAssumption
<1>5. chart \in Curves /\ table \in Listing
  BY <1>1, <1>2, WorkloadsAssumption DEF Curves, Listing, Nothing
<1>6. TypeOK
  BY <1>1, <1>2, <1>3, <1>4, <1>5 DEF TypeOK, Workload
<1>7. RowsAgree /\ Sourced
  BY <1>3, FS_EmptySet DEF RowsAgree, Sourced
<1> QED BY <1>3, <1>6, <1>7 DEF IInv, Acks, Alone, Covered

LEMMA DataKept == ASSUME data' = data, kind' = kind PROVE Stored' = Stored /\ (RowsAgree => RowsAgree')
BY DEF Stored, RunOf, RowsAgree, RowAfter

(* What a step does to the store: nothing, a run is saved, or it is emptied. *)
LEMMA StoreSteps ==
    ASSUME TypeOK, Next
    PROVE  /\ kind' = kind /\ work' = work
           /\ \/ data' = data
              \/ \E n \in DOMAIN posts : SaveRun(Run(n)) /\ posts[n].report.valid
              \/ data' = <<>> /\ wiped' = DOMAIN posts
<1>1. ASSUME NEW u \in Uploads, Submit(u) PROVE kind' = kind /\ work' = work /\ data' = data
  BY <1>1, SubmitEffect
<1>2. ASSUME NEW n \in DOMAIN posts, Posting(n)
      PROVE  kind' = kind /\ work' = work /\ (data' = data \/ (SaveRun(Run(n)) /\ posts[n].report.valid))
  BY <1>2, PostingEffect
<1>3. CASE Restart
  BY <1>3, RestartEffect
<1>4. CASE Paging
  BY <1>4, PagingKeeps
<1> QED BY <1>1, <1>2, <1>3, <1>4, Steps

(* The reports stay as they were submitted, and what was wiped stays wiped. *)
LEMMA PostsKept ==
    ASSUME TypeOK, Next
    PROVE  /\ posts' \in Seq(Post) /\ Len(posts') <= work.posts /\ DOMAIN posts \subseteq DOMAIN posts'
           /\ \A m \in DOMAIN posts :
                 /\ posts'[m].report = posts[m].report
                 /\ Run(m)' = Run(m)
           /\ wiped \subseteq wiped' /\ wiped' \subseteq DOMAIN posts'
<1>1. posts \in Seq(Post) /\ Len(posts) <= work.posts /\ wiped \subseteq DOMAIN posts
  BY DEF TypeOK
<1>2. /\ posts' \in Seq(Post) /\ Len(posts') <= work.posts /\ DOMAIN posts \subseteq DOMAIN posts'
      /\ \A m \in DOMAIN posts : posts'[m].report = posts[m].report
      /\ wiped \subseteq wiped' /\ wiped' \subseteq DOMAIN posts'
  <2>1. ASSUME NEW u \in Uploads, Submit(u)
        PROVE  /\ posts' \in Seq(Post) /\ Len(posts') <= work.posts /\ DOMAIN posts \subseteq DOMAIN posts'
               /\ \A m \in DOMAIN posts : posts'[m].report = posts[m].report
               /\ wiped \subseteq wiped' /\ wiped' \subseteq DOMAIN posts'
    BY <1>1, <2>1, SubmitEffect
  <2>2. ASSUME NEW n \in DOMAIN posts, Posting(n)
        PROVE  /\ posts' \in Seq(Post) /\ Len(posts') <= work.posts /\ DOMAIN posts \subseteq DOMAIN posts'
               /\ \A m \in DOMAIN posts : posts'[m].report = posts[m].report
               /\ wiped \subseteq wiped' /\ wiped' \subseteq DOMAIN posts'
    <3>1. /\ posts' \in Seq(Post) /\ Len(posts') = Len(posts) /\ DOMAIN posts' = DOMAIN posts /\ wiped' = wiped
          /\ posts'[n].report = posts[n].report
          /\ \A m \in DOMAIN posts : m # n => posts'[m] = posts[m]
      BY <2>2, PostingEffect
    <3> QED BY <1>1, <3>1
  <2>3. CASE Restart
    BY <1>1, <2>3, RestartEffect
  <2>4. CASE Paging
    BY <1>1, <2>4, PagingKeeps
  <2> QED BY <2>1, <2>2, <2>3, <2>4, Steps
<1> QED BY <1>2 DEF Run, RunAs

(* What was replaced or forgotten stays so. *)
LEMMA LostStays == ASSUME TypeOK, Next, NEW r, Lost(r) PROVE Lost(r)'
BY PostsKept DEF Lost, Superseded

LEMMA StoreTypeStep == ASSUME IInv, Next PROVE RowsAgree' /\ Sourced' /\ \A j \in DOMAIN data' : Stored'[j] \in Runs /\ Stored'[j].id = j
<1> USE DEF IInv
<1>1. kind' = kind /\ DOMAIN posts \subseteq DOMAIN posts' /\ \A m \in DOMAIN posts : Run(m)' = Run(m)
  BY StoreSteps, PostsKept
<1>2. CASE data' = data
  BY <1>1, <1>2, DataKept DEF Sourced, TypeOK
<1>3. ASSUME NEW n \in DOMAIN posts, SaveRun(Run(n))
      PROVE  RowsAgree' /\ Sourced' /\ \A j \in DOMAIN data' : Stored'[j] \in Runs /\ Stored'[j].id = j
  <2>1. /\ DOMAIN data' = DOMAIN data \cup {Run(n).id} /\ RowsAgree'
        /\ \A j \in DOMAIN data' : Stored'[j] = IF j = Run(n).id THEN Run(n) ELSE Stored[j]
    BY <1>1, <1>3, Saved
  <2>2. Run(n) \in Runs /\ Run(n).n = n
    BY PostType
  <2>3. \A j \in DOMAIN data' : Stored'[j] \in Runs /\ Stored'[j].id = j
    BY <2>1, <2>2 DEF TypeOK
  <2>4. \A j \in DOMAIN data' :
           Stored'[j].n \in DOMAIN posts /\ Stored'[j] = Run(Stored'[j].n)
    BY <2>1, <2>2 DEF Sourced
  <2>5. Sourced'
    BY <1>1, <2>4 DEF Sourced
  <2> QED BY <2>1, <2>3, <2>5
<1>4. CASE data' = <<>>
  <2>1. DOMAIN data' = {}
    BY <1>4
  <2> QED BY <2>1, FS_EmptySet DEF RowsAgree, Sourced
<1> QED BY <1>2, <1>3, <1>4, StoreSteps

LEMMA PageTypeStep ==
    ASSUME IInv, Next
    PROVE  /\ form' \in Queries /\ refresh' \in Seq(Refresh) /\ Len(refresh') <= work.refreshes
           /\ chart' \in Curves /\ table' \in Listing
<1> USE DEF IInv
<1>1. /\ form \in Queries /\ refresh \in Seq(Refresh) /\ Len(refresh) <= work.refreshes
      /\ chart \in Curves /\ table \in Listing
  BY DEF TypeOK
<1>2. CASE UNCHANGED <<form, refresh, chart, table>>
  BY <1>1, <1>2
<1>3. ASSUME NEW f \in Queries, Edit(f)
      PROVE  /\ form' \in Queries /\ refresh' \in Seq(Refresh) /\ Len(refresh') <= work.refreshes
             /\ chart' \in Curves /\ table' \in Listing
  BY <1>1, <1>3 DEF Edit
<1>4. ASSUME NEW f \in Queries, Click(f)
      PROVE  /\ form' \in Queries /\ refresh' \in Seq(Refresh) /\ Len(refresh') <= work.refreshes
             /\ chart' \in Curves /\ table' \in Listing
  BY <1>1, <1>4, ClickEffect
<1>5. ASSUME NEW k \in DOMAIN refresh, Advance(k)
      PROVE  /\ form' \in Queries /\ refresh' \in Seq(Refresh) /\ Len(refresh') <= work.refreshes
             /\ chart' \in Curves /\ table' \in Listing
  <2>1. k \in 0 .. MaxRefreshes /\ refresh[k].qs \in Queries /\ refresh[k].list \in Seq(Runs)
    <3>1. k \in 1 .. Len(refresh) /\ Len(refresh) \in 0 .. MaxRefreshes /\ refresh[k] \in Refresh
      BY RefreshType
    <3> QED BY <3>1, PostType DEF Refresh
  <2>2. [by |-> k, qs |-> refresh[k].qs, list |-> refresh[k].list] \in Listing
    BY <2>1 DEF Listing
  <2>3. CurvesOf(k, refresh[k].list) \in Curves
    <3>1. ToSet(refresh[k].list) \subseteq Runs
      BY <2>1 DEF ToSet
    <3> QED BY <2>1, <3>1 DEF CurvesOf, Merged, Curves
  <2> QED BY <1>1, <1>5, <2>2, <2>3, AdvanceEffect
<1>6. CASE (\E u \in Uploads : Submit(u)) \/ (\E n \in DOMAIN posts : Posting(n)) \/ Restart
  BY <1>2, <1>6, SubmitEffect, PostingEffect, RestartEffect
<1> QED BY <1>3, <1>4, <1>5, <1>6, Steps DEF Paging, Advance

LEMMA TypeStep == ASSUME IInv, Next PROVE TypeOK'
<1>1. kind' = kind /\ work' = work
  BY StoreSteps DEF IInv
<1>2. restarts' \in 0 .. work.restarts
  <2>1. restarts \in 0 .. work.restarts /\ work.restarts \in Nat
    BY PostType DEF IInv, TypeOK, Workload
  <2>2. CASE restarts' = restarts
    BY <2>1, <2>2
  <2>3. CASE Restart
    BY <2>1, <2>3, RestartEffect DEF IInv
  <2> QED BY <2>2, <2>3, Steps, SubmitEffect, PostingEffect, PagingKeeps DEF IInv
<1> QED BY <1>1, <1>2, StoreTypeStep, PageTypeStep, PostsKept DEF IInv, TypeOK

-----------------------------------------------------------------------------
(* A run gives way only to one that was not acknowledged before it was submitted, or to *)
(* a restart.                                                                           *)
LEMMA AcksStep == ASSUME IInv, Next PROVE Acks'
<1> USE DEF IInv
<1>1. ASSUME NEW u \in Uploads, Submit(u) PROVE Acks'
  <2> DEFINE new == Len(posts) + 1
  <2>1. /\ DOMAIN posts' = DOMAIN posts \cup {new} /\ new \notin DOMAIN posts /\ DOMAIN posts = 1 .. Len(posts)
        /\ \A m \in DOMAIN posts : posts'[m] = posts[m]
        /\ posts'[new] = [report |-> u, client |-> "waiting", server |-> "sent",
                          after |-> {m \in DOMAIN posts : posts[m].client = "acked"}]
        /\ Len(posts) \in Nat
    <3>1. Len(posts) \in Nat /\ DOMAIN posts = 1 .. Len(posts)
      BY PostType
    <3> QED BY <1>1, <3>1, SubmitEffect, Zenon
  <2>2. Stored' = Stored /\ DOMAIN data' = DOMAIN data /\ wiped' = wiped
    BY <1>1, SubmitEffect, DataKept
  <2>3. /\ posts'[new].after = {m \in DOMAIN posts : posts[m].client = "acked"}
        /\ posts'[new].client = "waiting" /\ posts'[new].server = "sent"
    BY <2>1
  <2>4. posts'[new].after \subseteq 1 .. new - 1
    BY <2>1, <2>3
  <2> HIDE DEF new
  <2>5. \A m \in DOMAIN posts : posts[m].after \subseteq DOMAIN posts
    BY <2>1 DEF Acks
  <2> QED BY <2>1, <2>2, <2>3, <2>4, <2>5 DEF Acks
<1>2. ASSUME NEW n \in DOMAIN posts, Posting(n) PROVE Acks'
  <2>1. /\ DOMAIN posts' = DOMAIN posts /\ wiped' = wiped /\ kind' = kind
        /\ \A m \in DOMAIN posts : m # n => posts'[m] = posts[m]
        /\ posts'[n].report = posts[n].report /\ posts'[n].after = posts[n].after
    BY <1>2, PostingEffect
  <2>2. posts[n].client = "acked" => posts'[n] = posts[n] \/ posts'[n].client = "acked"
    BY <1>2, PostingEffect
  <2>3. \A m \in DOMAIN posts : /\ posts'[m].after \subseteq 1 .. m - 1
                                /\ posts'[m].after = posts[m].after /\ posts'[m].report = posts[m].report
                                /\ posts[m].client = "acked" => posts'[m].client = "acked"
    BY <2>1, <2>2 DEF Acks
  <2>4. \A m \in DOMAIN posts : posts[m].after \subseteq DOMAIN posts
    BY PostType DEF Acks
  <2>5. posts[n].client = "acked" => posts[n].server = "gone"
    BY DEF Acks
  <2>6. posts'[n].client = "acked" => posts'[n].server = "gone" /\ posts[n].server = "noContent"
    BY <1>2, <2>5, PostingEffect DEF Replied
  <2>7. \A m \in DOMAIN posts :
           m \notin wiped /\ (posts'[m].client = "acked" \/ posts'[m].server = "noContent") =>
              /\ posts[m].report.id \in DOMAIN data'
              /\ Stored'[posts[m].report.id].n \notin posts[m].after
    <3>1. CASE data' = data /\ (posts'[n].server = "noContent" => posts[n].server = "noContent")
      <4>1. Stored' = Stored
        BY <2>1, <3>1, DataKept
      <4> QED BY <2>1, <2>6, <3>1, <4>1 DEF Acks
    <3>2. CASE SaveRun(Run(n)) /\ posts[n].server = "sent"
      <4>1. /\ DOMAIN data' = DOMAIN data \cup {Run(n).id}
            /\ \A j \in DOMAIN data' : Stored'[j] = IF j = Run(n).id THEN Run(n) ELSE Stored[j]
        <5>1. /\ DOMAIN data' = DOMAIN data \cup {Run(n).id}
              /\ Stored' = [j \in DOMAIN data \cup {Run(n).id} |-> IF j = Run(n).id THEN Run(n) ELSE Stored[j]]
          BY <2>1, <3>2, Saved
        <5> QED BY <5>1
      <4>2. Run(n).n = n /\ Run(n).id = posts[n].report.id
        BY PostType
      <4>3. n \notin posts[n].after
        BY PostType DEF Acks
      <4>4. \A m \in DOMAIN posts : n \notin posts[m].after
        BY <2>5, <3>2 DEF Acks
      <4>5. \A m \in DOMAIN posts : m # n => posts'[m] = posts[m]
        BY <2>1
      <4> QED BY <2>6, <3>2, <4>1, <4>2, <4>3, <4>4, <4>5 DEF Acks
    <3> QED BY <1>2, <3>1, <3>2, PostingEffect
  <2>8. \A m \in DOMAIN posts : \A x \in posts[m].after : posts'[x].client = "acked"
    BY <2>3, <2>4 DEF Acks
  <2>9. \A m \in DOMAIN posts : posts'[m].client = "acked" => posts'[m].server = "gone"
    BY <2>1, <2>6 DEF Acks
  <2> QED BY <2>1, <2>3, <2>7, <2>8, <2>9 DEF Acks
<1>3. CASE Restart
  <2>1. /\ DOMAIN posts' = DOMAIN posts /\ kind' = kind
        /\ \A m \in DOMAIN posts :
              /\ posts'[m].report = posts[m].report /\ posts'[m].after = posts[m].after
              /\ posts'[m].server = "gone"
              /\ posts'[m].client = "acked" <=> posts[m].client = "acked"
        /\ (data' = data /\ wiped' = wiped) \/ wiped' = DOMAIN posts
    BY <1>3, RestartEffect
  <2>2. \A m \in DOMAIN posts : posts[m].after \subseteq DOMAIN posts
    BY PostType DEF Acks
  <2>3. data' = data => Stored' = Stored
    BY <2>1, DataKept
  <2> QED BY <2>1, <2>2, <2>3 DEF Acks
<1>4. CASE Paging
  <2>1. Stored' = Stored /\ data' = data /\ posts' = posts /\ wiped' = wiped
    BY <1>4, PagingKeeps, DataKept
  <2> QED BY <2>1 DEF Acks
<1> QED BY <1>1, <1>2, <1>3, <1>4, Steps

-----------------------------------------------------------------------------
LEMMA PageKept ==
    ASSUME TypeOK, Next
    PROVE  Paging \/ UNCHANGED <<form, refresh, chart, table>>
BY Steps, SubmitEffect, PostingEffect, RestartEffect

(* Only a refresh that has no other beside it goes on while one is clean. *)
LEMMA OnlyClean ==
    ASSUME TypeOK, RowsAgree, Alone, NEW k \in DOMAIN refresh, Advance(k),
           NEW j \in DOMAIN refresh, refresh'[j].clean
    PROVE  j = k /\ refresh[k].clean
<1>1. Active(k)
  BY AdvanceEffect DEF Active
<1>2. refresh[j].clean
  BY AdvanceEffect
<1> QED BY <1>1, <1>2 DEF Alone

(* Only a click takes from a refresh that nobody interferes with it. *)
LEMMA AloneStep == ASSUME IInv, Next PROVE Alone'
<1> USE DEF IInv
<1>1. CASE UNCHANGED <<refresh, chart, table>>
  BY <1>1 DEF Alone, Active
<1>2. ASSUME NEW f \in Queries, Click(f) PROVE Alone'
  <2> DEFINE new == Len(refresh) + 1
  <2>1. /\ DOMAIN refresh' = DOMAIN refresh \cup {new} /\ Len(refresh') = new /\ new \notin DOMAIN refresh
        /\ \A k \in DOMAIN refresh : refresh'[k].at = refresh[k].at /\ refresh'[k].clean = FALSE
    BY <1>2, ClickEffect
  <2>2. refresh'[new].at = "cdf" /\ (refresh'[new].clean => \A k \in DOMAIN refresh : ~Active(k))
    BY <1>2, ClickEffect
  <2> HIDE DEF new
  <2> QED BY <2>1, <2>2 DEF Alone, Active
<1>3. ASSUME NEW k \in DOMAIN refresh, Advance(k) PROVE Alone'
  <2>1. /\ DOMAIN refresh' = DOMAIN refresh /\ Len(refresh') = Len(refresh)
        /\ \A j \in DOMAIN refresh : j # k => refresh'[j] = refresh[j]
        /\ refresh'[k].qs = refresh[k].qs
    BY <1>3, AdvanceEffect
  <2> SUFFICES ASSUME refresh'[k].clean
               PROVE  /\ k = Len(refresh') /\ \A j \in DOMAIN refresh' : j # k => ~Active(j)'
                      /\ refresh'[k].at \in {"runs", "runsBack", "over"} => chart'.by = k /\ chart'.qs = refresh'[k].qs
                      /\ refresh'[k].at = "over" => table'.by = k /\ table'.qs = refresh'[k].qs
    BY <1>3, <2>1, OnlyClean DEF Alone
  <2>2. refresh[k].clean
    BY <1>3, OnlyClean
  <2>3. k = Len(refresh) /\ \A j \in DOMAIN refresh' : j # k => ~Active(j)'
    BY <2>1, <2>2 DEF Alone, Active
  <2>4. CurvesOf(k, refresh[k].list).by = k /\ CurvesOf(k, refresh[k].list).qs = refresh[k].qs
    BY DEF CurvesOf
  <2>5. refresh'[k].at \in {"runs", "runsBack", "over"} => chart'.by = k /\ chart'.qs = refresh'[k].qs
    BY <1>3, <2>1, <2>2, <2>4, AdvanceEffect DEF Alone
  <2>6. refresh'[k].at = "over" => table'.by = k /\ table'.qs = refresh'[k].qs
    BY <1>3, <2>1, AdvanceEffect
  <2> QED BY <2>1, <2>3, <2>5, <2>6
<1>4. ASSUME NEW f \in Queries, Edit(f) PROVE Alone'
  BY <1>1, <1>4 DEF Edit
<1> QED BY <1>1, <1>2, <1>3, <1>4, PageKept DEF Paging, Advance

(* A run that was found stays found, unless another submission took its place. *)
LEMMA TracedStays == ASSUME IInv, Next, NEW r, NEW qs, Traced(r, qs) PROVE Traced(r, qs)'
<1> USE DEF IInv
<1>1. r.n \in DOMAIN posts' /\ r = Run(r.n)' /\ Matches(qs, r)'
  BY PostsKept DEF Traced, Matches
<1>2. CASE Lost(r)
  BY <1>1, <1>2, LostStays DEF Traced
<1>3. CASE r.id \in DOMAIN data /\ Stored[r.id] = r
  <2>1. CASE data' = data
    BY <1>1, <1>3, <2>1, StoreSteps, DataKept DEF Traced
  <2>2. ASSUME NEW n \in DOMAIN posts, SaveRun(Run(n)), posts[n].report.valid PROVE Traced(r, qs)'
    <3>1. /\ DOMAIN data' = DOMAIN data \cup {Run(n).id}
          /\ Stored' = [j \in DOMAIN data \cup {Run(n).id} |-> IF j = Run(n).id THEN Run(n) ELSE Stored[j]]
      BY <2>2, StoreSteps, Saved
    <3>2. CASE n = r.n \/ Run(n).id # r.id
      <4>1. r.id \in DOMAIN data' /\ Stored'[r.id] = r
        BY <1>3, <3>1, <3>2 DEF Traced
      <4> QED BY <1>1, <4>1 DEF Traced
    <3>3. CASE n # r.n /\ Run(n).id = r.id
      <4>1. n \in DOMAIN posts' \ {r.n} /\ posts'[n].report.id = r.id /\ posts'[n].report.valid
        BY <2>2, <3>3, PostsKept, PostType
      <4>2. Lost(r)'
        BY <4>1 DEF Lost, Superseded
      <4> QED BY <1>1, <4>2 DEF Traced
    <3> QED BY <3>2, <3>3
  <2>3. CASE wiped' = DOMAIN posts
    BY <1>1, <2>3 DEF Traced, Lost
  <2> QED BY <2>1, <2>2, <2>3, StoreSteps
<1> QED BY <1>2, <1>3 DEF Traced

(* What a query finds at this moment. *)
LEMMA FoundTraced ==
    ASSUME IInv, NEW qs \in Queries, NEW list \in Lists(qs)
    PROVE  \A r \in ToSet(list) : Traced(r, qs)
<1> USE DEF IInv
<1>1. ToSet(list) \subseteq Matching(qs)
  BY ListFacts DEF ToSet
<1> SUFFICES ASSUME NEW r \in Matching(qs) PROVE Traced(r, qs)
  BY <1>1
<1>2. PICK j \in DOMAIN data : r = Stored[j] /\ Matches(qs, Stored[j])
  BY DEF Matching
<1>3. r.id = j /\ r.n \in DOMAIN posts /\ r = Run(r.n)
  BY <1>2 DEF TypeOK, Sourced
<1> QED BY <1>2, <1>3 DEF Traced

(* A run in a curve stays in the store until it is replaced or forgotten, so the list *)
(* has it.                                                                            *)
LEMMA CoveredStep == ASSUME IInv, Next PROVE Covered'
<1> USE DEF IInv
<1>1. CASE UNCHANGED <<refresh, chart, table>>
  BY <1>1, TracedStays, LostStays DEF Covered
<1>2. ASSUME NEW f \in Queries, Click(f) PROVE Covered'
  <2> DEFINE new == Len(refresh) + 1
  <2>1. /\ DOMAIN refresh' = DOMAIN refresh \cup {new}
        /\ \A k \in DOMAIN refresh :
              /\ refresh'[k].at = refresh[k].at /\ refresh'[k].qs = refresh[k].qs
              /\ refresh'[k].list = refresh[k].list /\ ~refresh'[k].clean
    BY <1>2, ClickEffect
  <2>2. refresh'[new].at = "cdf"
    BY <1>2, ClickEffect
  <2> HIDE DEF new
  <2> QED BY <2>1, <2>2, TracedStays DEF Covered
<1>3. ASSUME NEW k \in DOMAIN refresh, Advance(k) PROVE Covered'
  <2>1. /\ DOMAIN refresh' = DOMAIN refresh
        /\ \A j \in DOMAIN refresh : j # k => refresh'[j] = refresh[j]
        /\ refresh'[k].qs = refresh[k].qs
    BY <1>3, AdvanceEffect
  <2>8. PICK q \in Queries : q = refresh[k].qs
    BY RefreshType
  <2>2. \A j \in DOMAIN refresh' : refresh'[j].clean => j = k /\ refresh[k].clean
    BY <1>3, <2>1, OnlyClean
  <2>3. \A j \in DOMAIN refresh, qs \in Queries :
           j # k /\ refresh'[j].at = "cdfBack" /\ qs = refresh'[j].qs =>
              \A r \in ToSet(refresh'[j].list) : Traced(r, qs)'
    BY <2>1, TracedStays DEF Covered
  <2>4. ASSUME refresh'[k].at = "cdfBack" PROVE \A r \in ToSet(refresh'[k].list) : Traced(r, q)'
    <3>1. refresh'[k].list \in Lists(q)
      BY <1>3, <2>8, <2>4, AdvanceEffect
    <3> QED BY <2>1, <3>1, FoundTraced, TracedStays
  <2>5. ASSUME refresh'[k].clean, refresh'[k].at = "runs" PROVE \A r \in chart'.runs : Traced(r, q)'
    <3>1. refresh[k].at = "cdfBack" /\ chart' = CurvesOf(k, refresh[k].list)
      BY <1>3, <2>5, AdvanceEffect
    <3>2. chart'.runs \subseteq ToSet(refresh[k].list)
      BY <3>1 DEF CurvesOf, Merged
    <3>3. \A r \in chart'.runs : Traced(r, q)
      BY <2>8, <2>2, <2>5, <3>1, <3>2 DEF Covered
    <3> QED BY <2>1, <3>3, TracedStays
  <2>6. ASSUME refresh'[k].clean, refresh'[k].at = "runsBack", Len(refresh'[k].list) < LimitOf(q)
        PROVE  \A r \in chart'.runs : r \in ToSet(refresh'[k].list) \/ Lost(r)'
    <3>1. refresh[k].at = "runs" /\ refresh'[k].list \in Lists(q) /\ chart' = chart /\ refresh[k].clean
      BY <1>3, <2>8, <2>6, AdvanceEffect
    <3>2. Matching(q) \subseteq ToSet(refresh'[k].list)
      BY <2>1, <2>6, <3>1, ListComplete
    <3>3. \A r \in chart.runs : Traced(r, q)
      BY <2>8, <3>1 DEF Covered
    <3>4. \A r \in chart.runs : r \in Matching(q) \/ Lost(r)
      BY <3>3 DEF Traced, Matching
    <3> QED BY <3>1, <3>2, <3>4, LostStays
  <2>7. ASSUME refresh'[k].clean, refresh'[k].at = "over", Len(table'.list) < LimitOf(table'.qs)
        PROVE  \A r \in chart'.runs : r \in ToSet(table'.list) \/ Lost(r)'
    <3>1. /\ refresh[k].at = "runsBack" /\ chart' = chart /\ refresh[k].clean
          /\ table' = [by |-> k, qs |-> refresh[k].qs, list |-> refresh[k].list]
      BY <1>3, <2>7, AdvanceEffect
    <3>2. table'.list = refresh[k].list /\ table'.qs = refresh[k].qs
      BY <3>1
    <3>3. \A r \in chart.runs : r \in ToSet(refresh[k].list) \/ Lost(r)
      BY <2>8, <2>7, <3>1, <3>2 DEF Covered
    <3> QED BY <3>1, <3>2, <3>3, LostStays
  <2> QED BY <2>1, <2>8, <2>2, <2>3, <2>4, <2>5, <2>6, <2>7 DEF Covered
<1>4. ASSUME NEW f \in Queries, Edit(f) PROVE Covered'
  BY <1>1, <1>4 DEF Edit
<1> QED BY <1>1, <1>2, <1>3, <1>4, PageKept DEF Paging, Advance

-----------------------------------------------------------------------------
(* Every step keeps every part of the invariant. *)
LEMMA NextIInv == ASSUME IInv, [Next]_vars PROVE IInv'
<1>1. CASE Next
  BY <1>1, TypeStep, StoreTypeStep, AcksStep, AloneStep, CoveredStep DEF IInv
<1>2. CASE UNCHANGED vars
  <2>1. UNCHANGED <<kind, data, work, posts, restarts, wiped, form, refresh, chart, table>>
    BY <1>2 DEF vars, storeVars, postVars, pageVars
  <2>2. Stored' = Stored /\ RowsAgree'
    BY <2>1, DataKept DEF IInv
  <2>3. TypeOK' /\ Sourced' /\ Acks' /\ Alone'
    BY <2>1, <2>2 DEF IInv, TypeOK, Sourced, Run, RunAs, Acks, Alone, Active
  <2>4. Covered'
    BY <2>1, <2>2 DEF IInv, Covered, Traced, Lost, Superseded, Run, RunAs, Matches
  <2> QED BY <2>2, <2>3, <2>4 DEF IInv
<1> QED BY <1>1, <1>2

(* In every behaviour of submissions, restarts and refreshes: rows agree with their  *)
(* runs, runs have a submission, what was acknowledged is there, or forgotten, or    *)
(* replaced by a run that had not been acknowledged before it, and what a page shows *)
(* can be traced to the store.                                                       *)
THEOREM Invariance == Spec => []IInv
<1>1. Init => IInv
  BY InitIInv
<1>2. IInv /\ [Next]_vars => IInv'
  BY NextIInv
<1> QED BY <1>1, <1>2, PTL DEF Spec

(* The store holds runs that were submitted, under their ids; submissions and calls of *)
(* refresh() keep to their states (dashboard.go, html.go).                             *)
THEOREM TypeCorrect == Spec => []TypeOK
<1>1. IInv => TypeOK
  BY DEF IInv
<1> QED BY <1>1, Invariance, PTL

(* A client that was told 204 finds its run in the store, or one that was not yet     *)
(* acknowledged when it was submitted, whatever else is submitted, fails halfway or   *)
(* restarts (ingest, dashboard.go:61-76, with the Save of store.go and postgres.go).  *)
THEOREM AckedKept == Spec => []AckedStored
<1>1. IInv => AckedStored
  BY DEF IInv, Acks, AckedStored
<1> QED BY <1>1, Invariance, PTL

(* When a refresh with no other beside it is done, the curves and the list are both   *)
(* its own, and of one filter, however the fields were edited meanwhile (html.go).    *)
THEOREM CohortIsOne == Spec => []OneCohort
<1>1. ASSUME IInv, Settled
      PROVE  chart.by = Len(refresh) /\ table.by = Len(refresh) /\ chart.qs = table.qs
  <2>1. Len(refresh) \in DOMAIN refresh
    BY <1>1, EmptySeq, RefreshType DEF Settled, IInv, TypeOK
  <2> QED BY <1>1, <2>1 DEF Settled, Last, IInv, Alone
<1>2. IInv => OneCohort
  BY <1>1 DEF OneCohort
<1> QED BY <1>2, Invariance, PTL

(* The list of such a refresh has every run of its curves, unless the limit cut it off, *)
(* the run was submitted again, or a restart wiped it out.                              *)
THEOREM ListHasCurves == Spec => []ListCoversChart
<1>1. ASSUME IInv, Settled, Len(table.list) < LimitOf(table.qs)
      PROVE  \A r \in chart.runs : r \in ToSet(table.list) \/ Superseded(r) \/ r.n \in wiped
  <2>1. Len(refresh) \in DOMAIN refresh
    BY <1>1, EmptySeq, RefreshType DEF Settled, IInv, TypeOK
  <2>2. refresh[Len(refresh)].qs \in Queries
    BY <1>1, <2>1, RefreshType DEF IInv
  <2> QED BY <1>1, <2>1, <2>2 DEF Settled, Last, IInv, Covered, Lost
<1>2. IInv => ListCoversChart
  BY <1>1 DEF ListCoversChart
<1> QED BY <1>2, Invariance, PTL

-----------------------------------------------------------------------------
(* The readers of RunList are the calls of refresh(). *)
Asked == [k \in 1 .. MaxRefreshes |-> IF Refreshing(k) THEN <<refresh[k].qs>> ELSE <<>>]
Told == [k \in 1 .. MaxRefreshes |->
            IF Refreshing(k) /\ refresh[k].at \in {"cdfBack", "runsBack"} THEN <<refresh[k].list>> ELSE <<>>]

LEMMA InitPromise == Init => Promise!Init
<1> SUFFICES ASSUME Init PROVE Promise!Init
  OBVIOUS
<1>1. Stored = <<>>
  BY DEF Init, Stored
<1>2. \A k : ~Refreshing(k)
  BY DEF Init, Refreshing
<1> QED BY <1>1, <1>2 DEF Promise!Init, Promise!Nobody

LEMMA EachOnce ==
    ASSUME NEW S, NEW list \in Seq(S), \A k, l \in DOMAIN list : k # l => list[k] # list[l]
    PROVE  Cardinality(ToSet(list)) = Len(list)
<1> DEFINE n == Len(list)
<1>1. n \in Nat /\ DOMAIN list = 1 .. n /\ list \in [1 .. n -> S]
  BY LenProperties
<1> HIDE DEF n
<1>2. list \in [1 .. n -> ToSet(list)]
  BY <1>1 DEF ToSet
<1>3. list \in Injection(1 .. n, ToSet(list))
  BY <1>1, <1>2 DEF Injection, IsInjective
<1>4. list \in Surjection(1 .. n, ToSet(list))
  BY <1>1, <1>2 DEF Surjection, ToSet
<1>5. Cardinality(1 .. n) = n /\ IsFiniteSet(1 .. n)
  BY <1>1, FS_Interval
<1> QED BY <1>3, <1>4, <1>5, FS_Bijection DEF n, ExistsBijection, Bijection

(* What either store answers is an answer that RunList allows. *)
LEMMA AnswerRight ==
    ASSUME RowsAgree, NEW f \in Queries, NEW list \in Lists(f)
    PROVE  Promise!IsAnswer(f, list)
<1>1. Promise!Matching(f) = Matching(f)
  BY DEF Promise!Matching, Matching, Promise!Matches, Matches, Stored
<1>2. Promise!LimitOf(f) = LimitOf(f)
  BY DEF Promise!LimitOf, LimitOf
<1>3. {list[k] : k \in DOMAIN list} = ToSet(list)
  BY DEF ToSet
<1>4. ToSet(list) \subseteq Matching(f)
  BY ListFacts DEF ToSet
<1>5. Cardinality(ToSet(list)) = Len(list)
  BY ListFacts, EachOnce
<1>6. /\ Len(list) = IF Cardinality(Matching(f)) <= LimitOf(f) THEN Cardinality(Matching(f)) ELSE LimitOf(f)
      /\ \A k, l \in DOMAIN list : k < l => list[k].at >= list[l].at
      /\ \A r \in Matching(f) \ ToSet(list) : \A k \in DOMAIN list : list[k].at >= r.at
  BY ListFacts
<1>7. \A S : Promise!Cardinality(S) = Cardinality(S)
  BY Zenon DEF Promise!Cardinality, Cardinality
<1> QED BY <1>1, <1>2, <1>3, <1>4, <1>5, <1>6, <1>7, Zenon DEF Promise!IsAnswer

(* How the steps of Dashboard show in RunList. *)
LEMMA Stutter == ASSUME UNCHANGED <<kind, Stored, Asked, Told>> PROVE UNCHANGED Promise!vars
BY DEF Promise!vars, Asked, Told

(* Saving implements Save, in the map and in the table. *)
LEMMA SaveStep ==
    ASSUME TypeOK, RowsAgree, NEW n \in DOMAIN posts, SaveRun(Run(n)), UNCHANGED <<kind, Asked, Told>>
    PROVE  Promise!Next
<1>1. Stored' = [j \in DOMAIN data \cup {Run(n).id} |-> IF j = Run(n).id THEN Run(n) ELSE Stored[j]]
  BY Saved
<1>2. DOMAIN Stored = DOMAIN data
  BY DEF Stored
<1>3. Promise!Save(Run(n))
  BY <1>1, <1>2 DEF Promise!Save, Asked, Told
<1>4. Run(n) \in Runs
  BY PostType
<1> QED BY <1>3, <1>4 DEF Promise!Next

(* Losing the memory implements Forget. *)
LEMMA ForgetStep ==
    ASSUME kind = "memory", data' = <<>>, UNCHANGED <<kind, Asked, Told>>
    PROVE  Promise!Next
<1>1. Stored' = <<>>
  BY DEF Stored
<1> QED BY <1>1 DEF Promise!Next, Promise!Forget, Asked, Told

(* A click asks RunList for the curves' runs. *)
LEMMA AskStep ==
    ASSUME TypeOK, NEW f \in Queries, Click(f), UNCHANGED <<kind, Stored>>
    PROVE  Promise!Next
<1> DEFINE new == Len(refresh) + 1
<1>1. new \in 1 .. MaxRefreshes
  <2>1. Len(refresh') = new /\ Len(refresh') <= work.refreshes
    BY ClickEffect
  <2> QED BY <2>1, RefreshType, PostType DEF Workload
<1>2. /\ DOMAIN refresh' = DOMAIN refresh \cup {new} /\ new \notin DOMAIN refresh
      /\ \A k \in DOMAIN refresh : /\ refresh'[k].at = refresh[k].at /\ refresh'[k].qs = refresh[k].qs
                                   /\ refresh'[k].list = refresh[k].list
      /\ refresh'[new].at = "cdf" /\ refresh'[new].qs = f
  BY ClickEffect
<1> HIDE DEF new
<1>3. Asked[new] = <<>> /\ Told[new] = <<>>
  BY <1>1, <1>2 DEF Asked, Told, Refreshing
<1>4. \A k \in 1 .. MaxRefreshes : Asked'[k] = (IF k = new THEN <<f>> ELSE Asked[k]) /\ Told'[k] = Told[k]
  BY <1>2, <1>3 DEF Asked, Told, Refreshing, Active
<1>5. Asked' = [Asked EXCEPT ![new] = <<f>>]
  BY <1>4 DEF Asked
<1>6. Told' = Told
  BY <1>4 DEF Told
<1>7. Promise!Ask(new, f)
  BY <1>3, <1>5, <1>6 DEF Promise!Ask, Asked, Told
<1> QED BY <1>1, <1>7 DEF Promise!Next

(* A refresh is answered, takes its answer or asks for the next. *)
LEMMA AdvanceStep ==
    ASSUME TypeOK, RowsAgree, NEW k \in DOMAIN refresh, Advance(k), UNCHANGED <<kind, Stored>>
    PROVE  Promise!Next
<1>1. k \in 1 .. MaxRefreshes
  BY RefreshType, PostType
<1>2. DOMAIN refresh' = DOMAIN refresh /\ \A j \in DOMAIN refresh : j # k => refresh'[j] = refresh[j]
  BY AdvanceEffect
<1>3. refresh'[k].qs = refresh[k].qs
  BY AdvanceEffect
<1>4. \A j \in 1 .. MaxRefreshes : j # k => Asked'[j] = Asked[j] /\ Told'[j] = Told[j]
  BY <1>2 DEF Asked, Told, Refreshing, Active
<1>5. Asked' = [Asked EXCEPT ![k] = Asked'[k]] /\ Told' = [Told EXCEPT ![k] = Told'[k]]
  BY <1>1, <1>4 DEF Asked, Told
<1>6. Asked[k] = <<refresh[k].qs>> /\ Asked[k] # <<>>
  BY <1>1, AdvanceEffect DEF Asked, Refreshing, Active
<1>7. CASE refresh[k].at \in {"cdf", "runs"} /\ refresh'[k].at \in {"cdfBack", "runsBack"}
  <2>1. Asked' = Asked
    <3>1. Asked'[k] = Asked[k]
      BY <1>1, <1>2, <1>3, <1>7 DEF Asked, Refreshing, Active
    <3> QED BY <1>1, <1>4, <3>1 DEF Asked
  <2>2. Told[k] = <<>> /\ Told'[k] = <<refresh'[k].list>> /\ Told'[k] # <<>>
    BY <1>1, <1>2, <1>7 DEF Told, Refreshing, Active
  <2>3. refresh'[k].list \in Lists(refresh[k].qs) /\ refresh[k].qs \in Queries
    BY <1>7, AdvanceEffect, RefreshType
  <2>4. Promise!IsAnswer(refresh[k].qs, refresh'[k].list)
    BY <2>3, AnswerRight
  <2>5. Asked[k][1] = refresh[k].qs /\ Told'[k][1] = refresh'[k].list
    BY <1>6, <2>2
  <2>6. Promise!IsAnswer(Asked[k][1], Told'[k][1])
    BY <2>4, <2>5
  <2>7. Promise!Answer(k)
    BY <1>5, <1>6, <2>1, <2>2, <2>6 DEF Promise!Answer, Asked, Told
  <2> QED BY <1>1, <2>7 DEF Promise!Next
<1>8. CASE refresh[k].at = "cdfBack" /\ refresh'[k].at = "runs"
  <2>1. Asked'[k] = Asked[k] /\ Told[k] # <<>> /\ Told'[k] = <<>>
    BY <1>1, <1>2, <1>3, <1>8 DEF Asked, Told, Refreshing, Active
  <2>2. Asked' = Asked
    BY <1>1, <1>4, <2>1 DEF Asked
  <2>3. Promise!Take(k)
    BY <1>5, <1>6, <2>1, <2>2 DEF Promise!Take, Asked, Told
  <2> QED BY <1>1, <2>3 DEF Promise!Next
<1>9. CASE refresh'[k].at \in {"over", "failed"}
  <2>1. Asked'[k] = <<>> /\ Told'[k] = <<>>
    BY <1>1, <1>2, <1>9 DEF Asked, Told, Refreshing, Active
  <2>2. Promise!Take(k)
    BY <1>5, <1>6, <2>1 DEF Promise!Take, Asked, Told
  <2> QED BY <1>1, <2>2 DEF Promise!Next
<1> QED BY <1>7, <1>8, <1>9, AdvanceEffect

LEMMA NextPromise == ASSUME IInv, [Next]_vars PROVE [Promise!Next]_(Promise!vars)
<1> USE DEF IInv
<1>1. CASE UNCHANGED <<kind, data, refresh>>
  BY <1>1, DataKept, Stutter DEF Asked, Told, Refreshing, Active
<1>2. CASE UNCHANGED vars
  BY <1>1, <1>2 DEF vars, storeVars, pageVars
<1> SUFFICES ASSUME Next PROVE [Promise!Next]_(Promise!vars)
  BY <1>2
<1>3. refresh' = refresh => Asked' = Asked /\ Told' = Told
  BY DEF Asked, Told, Refreshing, Active
<1>4. ASSUME NEW u \in Uploads, Submit(u) PROVE [Promise!Next]_(Promise!vars)
  BY <1>1, <1>4, SubmitEffect
<1>5. ASSUME NEW n \in DOMAIN posts, Posting(n) PROVE [Promise!Next]_(Promise!vars)
  BY <1>1, <1>3, <1>5, PostingEffect, SaveStep
<1>6. CASE Restart
  BY <1>1, <1>3, <1>6, RestartEffect, ForgetStep
<1>7. ASSUME NEW f \in Queries, Edit(f) PROVE [Promise!Next]_(Promise!vars)
  BY <1>1, <1>7 DEF Edit, storeVars
<1>8. CASE Paging
  <2>1. UNCHANGED <<kind, Stored>>
    BY <1>8, PagingKeeps, DataKept
  <2> QED BY <1>7, <1>8, <2>1, AskStep, AdvanceStep DEF Paging, Advance
<1> QED BY <1>4, <1>5, <1>6, <1>8, Steps

(* Either store keeps the promise of RunList: one run per id, the last one saved, over   *)
(* restarts if it is a database, and answers that are newest first, within the limit,   *)
(* and leave out nothing newer than what they contain (storage/store.go, postgres.go).  *)
THEOREM StoreImplementsList == Spec => KeepsPromise
<1>1. Init => Promise!Init
  BY InitPromise
<1>2. IInv /\ [Next]_vars => [Promise!Next]_(Promise!vars)
  BY NextPromise
<1> QED BY <1>1, <1>2, Invariance, PTL DEF Spec, KeepsPromise, Promise!Spec
=============================================================================
