------------------------------ MODULE Dashboard -----------------------------
(***************************************************************************)
(* The engineer view: command line clients that submit their report (submit, *)
(* main.go), the HTTP handlers over a run store (dashboard.go), and one page  *)
(* in a browser (refresh, html.go).  Handlers run concurrently; a connection  *)
(* may break while its handler goes on; the process may restart, which ends   *)
(* its handlers and empties a store that lives in memory.                     *)
(*                                                                          *)
(* A refresh of the page asks twice, for the merged distribution and for the *)
(* list, and waits in between: clicks on the button, edits of the filter      *)
(* fields and other people's submissions come at any moment.                  *)
(***************************************************************************)
EXTENDS RunStore

CONSTANTS
    Uploads,       \* reports that may be submitted: id, at, tags, hist, valid
    Queries,       \* what the filter fields may say
    MaxPosts,      \* bound: submissions
    MaxRefreshes,  \* bound: calls of refresh()
    Workloads      \* bound: what may happen together, see Workload

(* How many submissions, refreshes and restarts there may be in one behaviour. *)
Workload == [posts : 0 .. MaxPosts, refreshes : 0 .. MaxRefreshes, restarts : Nat]
ASSUME WorkloadsAssumption == MaxPosts \in Nat /\ MaxRefreshes \in Nat /\ Workloads \subseteq Workload
ASSUME QueriesAssumption == Queries # {} /\ \A f \in Queries : f.limit \in Int

VARIABLES
    work,        \* the workload of this behaviour
    posts,       \* the submissions, in the order of their requests, see Post
    restarts,    \* restarts so far
    wiped,       \* submissions that a restart may have wiped out, for the specification
    form,        \* the filter fields
    refresh,     \* the calls of refresh(), see Refresh
    chart,       \* what the page shows: the distribution ...
    table        \* ... and the list

pageVars == <<form, refresh, chart, table>>
postVars == <<work, posts, restarts, wiped>>
vars == <<storeVars, postVars, pageVars>>

(* A submission: its report, the client, the handler, and (for the specification) the *)
(* submissions that had been acknowledged before this one was made.                   *)
Post == [report : Uploads,
         client : {"waiting", "acked", "failed"},
         server : {"sent", "noContent", "badRequest", "serverError", "gone"},
         after : SUBSET (1 .. MaxPosts)]

(* A run in the store is a report and the number of its submission. Its histograms have *)
(* the default edges, or others, or are missing.                                        *)
RunAs(n, u) == [n |-> n, id |-> u.id, at |-> u.at, tags |-> u.tags, hist |-> u.hist]
Run(n) == RunAs(n, posts[n].report)
Runs == {RunAs(n, u) : n \in 1 .. MaxPosts, u \in Uploads}

Nothing == <<>>   \* a list of no runs

(* What the page shows, the runs in the curves and the list, and the refresh that drew *)
(* each: 0 before the first.                                                          *)
Curves == [by : 0 .. MaxRefreshes, qs : Queries, runs : SUBSET Runs]
Listing == [by : 0 .. MaxRefreshes, qs : Queries, list : Seq(Runs)]

(* A call of refresh(): its query and the answer it has; for the specification, clean: *)
(* no other one ran beside it, and none was called after it.                           *)
Refresh == [at : {"cdf", "cdfBack", "runs", "runsBack", "over", "failed"},
            qs : Queries, list : Seq(Runs), clean : BOOLEAN]

TypeOK ==
    /\ kind \in {"memory", "postgres"}
    /\ \A i \in DOMAIN data : Stored[i] \in Runs /\ Stored[i].id = i
    /\ work \in Workloads /\ posts \in Seq(Post) /\ Len(posts) <= work.posts
    /\ restarts \in 0 .. work.restarts /\ wiped \subseteq DOMAIN posts
    /\ form \in Queries
    /\ refresh \in Seq(Refresh) /\ Len(refresh) <= work.refreshes
    /\ chart \in Curves /\ table \in Listing

Init ==
    /\ kind \in {"memory", "postgres"} /\ data = <<>>
    /\ work \in Workloads /\ posts = <<>> /\ restarts = 0 /\ wiped = {}
    /\ form = (CHOOSE f \in Queries : TRUE) /\ refresh = <<>>
    /\ chart = [by |-> 0, qs |-> form, runs |-> {}]
    /\ table = [by |-> 0, qs |-> form, list |-> Nothing]

-----------------------------------------------------------------------------
(* submit: one POST, without a timeout of its own and never repeated; a run that is *)
(* submitted again, by hand, is a request of its own.                               *)
Submit(r) ==
    /\ Len(posts) < work.posts
    /\ posts' = Append(posts, [report |-> r, client |-> "waiting", server |-> "sent",
                               after |-> {m \in DOMAIN posts : posts[m].client = "acked"}])
    /\ UNCHANGED <<storeVars, work, restarts, wiped, pageVars>>

Answered(n, code) == posts' = [posts EXCEPT ![n].server = code]

(* RunReport.Valid fails, or the body was cut short or never came: nothing is stored. *)
Reject(n) ==
    /\ posts[n].server = "sent" /\ (~posts[n].report.valid \/ posts[n].client = "failed")
    /\ Answered(n, "badRequest")
    /\ UNCHANGED <<storeVars, work, restarts, wiped, pageVars>>

Ingest_Unchecked(n) ==
    /\ posts[n].server = "sent" /\ posts[n].report.valid
    /\ (SaveRun(Run(n)) \/ SaveFails(Run(n))) /\ Answered(n, "noContent")
    /\ UNCHANGED <<kind, work, restarts, wiped, pageVars>>

(* ingest: a valid report is saved; the answer says whether the store returned an error. *)
Ingest(n) ==
    /\ posts[n].server = "sent" /\ posts[n].report.valid
    /\ \/ SaveRun(Run(n)) /\ Answered(n, "noContent")
       \/ SaveFails(Run(n)) /\ Answered(n, "serverError")
    /\ UNCHANGED <<kind, work, restarts, wiped, pageVars>>

Replied_OkOnly == {"noContent"}
Replied == {"noContent", "badRequest", "serverError"}

(* The client reads the answer: any other status than 204 is an error. *)
ReadAnswer(n) ==
    /\ posts[n].server \in Replied
    /\ posts' = [posts EXCEPT
          ![n].server = "gone",
          ![n].client = IF @ # "waiting" THEN @
                        ELSE IF posts[n].server = "noContent" THEN "acked" ELSE "failed"]
    /\ UNCHANGED <<storeVars, work, restarts, wiped, pageVars>>

(* The connection breaks, in the middle of the request or later; the handler goes on. *)
BreakOff(n) ==
    /\ posts[n].client = "waiting"
    /\ posts' = [posts EXCEPT ![n].client = "failed"]
    /\ UNCHANGED <<storeVars, work, restarts, wiped, pageVars>>

-----------------------------------------------------------------------------
Active(k) == refresh[k].at \notin {"over", "failed"}

(* A filter field is edited; what matters is when that happens during a refresh. *)
Edit(f) ==
    /\ form # f /\ \E k \in DOMAIN refresh : Active(k)
    /\ form' = f
    /\ UNCHANGED <<storeVars, postVars, refresh, chart, table>>

(* refresh(): the filter fields, edited before, are read, and the distribution is asked for. *)
Click(f) ==
    /\ Len(refresh) < work.refreshes
    /\ LET alone == \A k \in DOMAIN refresh : ~Active(k)
           old == [k \in DOMAIN refresh |-> [refresh[k] EXCEPT !.clean = FALSE]]
       IN refresh' = Append(old, [at |-> "cdf", qs |-> f, clean |-> alone, list |-> Nothing])
    /\ form' = f
    /\ UNCHANGED <<storeVars, postVars, chart, table>>

(* apiCDF and apiRuns: each asks the store once, with the query in its address. *)
Serve(k, asked, back) ==
    /\ refresh[k].at = asked
    /\ \E l \in Lists(refresh[k].qs) :
          refresh' = [refresh EXCEPT ![k].at = back, ![k].list = l]
    /\ UNCHANGED <<storeVars, postVars, form, chart, table>>

(* The runs that apiCDF merges: the others it passes over, though it counts them. *)
Merged(list) == {r \in ToSet(list) : r.hist = "default"}

CurvesOf(k, list) == [by |-> k, qs |-> refresh[k].qs, runs |-> Merged(list)]

DrawChart_ReadForm(k) ==
    /\ refresh[k].at = "cdfBack"
    /\ chart' = CurvesOf(k, refresh[k].list)
    /\ refresh' = [refresh EXCEPT ![k].at = "runs", ![k].list = Nothing, ![k].qs = form]
    /\ UNCHANGED <<storeVars, postVars, form, table>>

(* The curves are drawn, and the list is asked for with the same query. *)
DrawChart(k) ==
    /\ refresh[k].at = "cdfBack"
    /\ chart' = CurvesOf(k, refresh[k].list)
    /\ refresh' = [refresh EXCEPT ![k].at = "runs", ![k].list = Nothing]
    /\ UNCHANGED <<storeVars, postVars, form, table>>

DrawTable_ChartAgain(k) ==
    /\ refresh[k].at = "runsBack"
    /\ table' = [by |-> k, qs |-> refresh[k].qs, list |-> refresh[k].list]
    /\ \E l \in Lists(refresh[k].qs) : chart' = CurvesOf(k, l)
    /\ refresh' = [refresh EXCEPT ![k].at = "over", ![k].list = Nothing]
    /\ UNCHANGED <<storeVars, postVars, form>>

DrawTable(k) ==
    /\ refresh[k].at = "runsBack"
    /\ table' = [by |-> k, qs |-> refresh[k].qs, list |-> refresh[k].list]
    /\ refresh' = [refresh EXCEPT ![k].at = "over", ![k].list = Nothing]
    /\ UNCHANGED <<storeVars, postVars, form, chart>>

(* A fetch fails, or answers with an error that is no JSON: refresh() gives up. *)
FetchFails(k) ==
    /\ refresh[k].at \in {"cdf", "runs"}
    /\ refresh' = [refresh EXCEPT ![k].at = "failed"]
    /\ UNCHANGED <<storeVars, postVars, form, chart, table>>

-----------------------------------------------------------------------------
(* The process ends and starts again: its handlers are gone, their clients see it. *)
Restart ==
    /\ restarts < work.restarts
    /\ restarts' = restarts + 1
    /\ RestartStore
    /\ wiped' = IF kind = "memory" THEN DOMAIN posts ELSE wiped
    /\ posts' = [n \in DOMAIN posts |->
                    [posts[n] EXCEPT !.server = "gone",
                                     !.client = IF @ = "waiting" THEN "failed" ELSE @]]
    /\ UNCHANGED <<kind, work, pageVars>>

Handlers == \E n \in DOMAIN posts : Reject(n) \/ Ingest(n) \/ ReadAnswer(n)

Page == \E k \in DOMAIN refresh :
            \/ Serve(k, "cdf", "cdfBack") \/ DrawChart(k)
            \/ Serve(k, "runs", "runsBack") \/ DrawTable(k)

Next ==
    \/ \E r \in Uploads : Submit(r)
    \/ Handlers \/ \E n \in DOMAIN posts : BreakOff(n)
    \/ \E f \in Queries : Edit(f) \/ Click(f)
    \/ Page \/ \E k \in DOMAIN refresh : FetchFails(k)
    \/ Restart

Spec == Init /\ [][Next]_vars

(* Handlers return and their answers arrive, or the connection breaks. *)
Fairness == WF_vars(Handlers) /\ WF_vars(Page)

FairSpec == Spec /\ Fairness

-----------------------------------------------------------------------------
(* The last call of refresh(), when it has drawn everything with no other beside it. *)
Settled == refresh # <<>> /\ Last(refresh).at = "over" /\ Last(refresh).clean

Waiting(n) == n \in DOMAIN posts /\ posts[n].client = "waiting"

Refreshing(k) == k \in DOMAIN refresh /\ Active(k)

(* What may stand in for a submission: another one of the same run. *)
Superseded(r) == \E m \in DOMAIN posts \ {r.n} : posts[m].report.id = r.id /\ posts[m].report.valid

(* "Uploads it (idempotent on run.id)" (ARCHITECTURE.md:105): a client that was told    *)
(* 204 finds its run in the store for good, if need be over a restart, and what may have *)
(* replaced it is not a submission that had already been acknowledged before.           *)
AckedStored ==
    \A n \in DOMAIN posts \ wiped : posts[n].client = "acked" =>
        /\ posts[n].report.id \in DOMAIN data
        /\ Stored[posts[n].report.id].n \notin posts[n].after

(* "It fetches /api/cdf and /api/runs with the current filters" (html.go:4-5): the two  *)
(* halves of the page belong to one click and one filter, whatever was typed while the   *)
(* answers were under way - unless another click came before the first had its answers.  *)
OneCohort ==
    Settled => /\ chart.by = Len(refresh) /\ table.by = Len(refresh)
               /\ chart.qs = table.qs

(* The two halves come from two queries: runs may appear and change in between, but the *)
(* list has every run that the curves contain, as long as neither is cut off.           *)
ListCoversChart ==
    Settled /\ Len(table.list) < LimitOf(table.qs) =>
        \A r \in chart.runs : r \in ToSet(table.list) \/ Superseded(r) \/ r.n \in wiped

(* Every submission ends, for the client, with an answer or an error, and    *)
(* every refresh of the page ends.                                           *)
RequestsEnd ==
    /\ \A n \in 1 .. MaxPosts : Waiting(n) ~> ~Waiting(n)
    /\ \A k \in 1 .. MaxRefreshes : Refreshing(k) ~> ~Refreshing(k)

(* Either store keeps the promise of RunList. *)
Promise == INSTANCE RunList WITH
    Report <- Runs, Query <- Queries, Reader <- 1 .. MaxRefreshes,
    durable <- (kind = "postgres"),
    runs <- Stored,
    query <- [k \in 1 .. MaxRefreshes |->
                 IF Refreshing(k) THEN <<refresh[k].qs>> ELSE <<>>],
    answer <- [k \in 1 .. MaxRefreshes |->
                 IF Refreshing(k) /\ refresh[k].at \in {"cdfBack", "runsBack"}
                 THEN <<refresh[k].list>> ELSE <<>>]

(* Memory and Postgres alike answer as one list of runs: the columns a row is selected *)
(* and sorted by follow its payload, and the limit cuts off the oldest (store.go:55-59). *)
KeepsPromise == Promise!Spec
=============================================================================
