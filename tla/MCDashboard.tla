---------------------------- MODULE MCDashboard -----------------------------
(* A run in two versions, one that ties with it in time, and reports of other cohorts. *)
EXTENDS Dashboard

Tag(verdict) == [verdict |-> verdict]
NoTag == [d \in {} |-> ""]

MCUploads == {[id |-> "a", at |-> 1, tags |-> Tag("pass"), hist |-> "default", valid |-> TRUE],
              [id |-> "a", at |-> 2, tags |-> Tag("fail"), hist |-> "other", valid |-> TRUE],
              [id |-> "b", at |-> 2, tags |-> Tag("pass"), hist |-> "default", valid |-> TRUE],
              [id |-> "c", at |-> 3, tags |-> Tag("fail"), hist |-> "default", valid |-> FALSE]}
MCQueries == {[tags |-> Tag("pass"), since |-> 0, limit |-> 0],
              [tags |-> NoTag, since |-> 2, limit |-> 1]}
MCWorkloads == {[posts |-> 2, refreshes |-> 1, restarts |-> 1],
                [posts |-> 1, refreshes |-> 2, restarts |-> 0]}
=============================================================================
