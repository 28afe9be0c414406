----------------------------- MODULE MCProbeRun -----------------------------
(* Conditions of a run, from bad luck of every kind to one fault at a time. *)
EXTENDS ProbeRun

Calm == [prog |-> "validate", late |-> {}, dup |-> 0, die |-> {}, start |-> FALSE, io |-> FALSE]
Diagnose == [Calm EXCEPT !.prog = "diagnose"]
Latency == [Calm EXCEPT !.prog = "latency"]

MCConditions == {[Calm EXCEPT !.late = {0, 1}, !.io = TRUE],
                 [Calm EXCEPT !.late = {2}, !.die = {2}],
                 [Calm EXCEPT !.die = 2 .. 5, !.io = TRUE],
                 [Calm EXCEPT !.dup = 1],
                 [Calm EXCEPT !.start = TRUE],
                 [Diagnose EXCEPT !.late = {0, 1}, !.die = {2, 3}, !.io = TRUE],
                 [Latency EXCEPT !.late = {1}, !.die = {2}, !.io = TRUE],
                 [Latency EXCEPT !.dup = 1]}
MCLateBaseline == {[Calm EXCEPT !.late = {1}]}
MCLateCookie == {[Calm EXCEPT !.late = {0}]}
=============================================================================
