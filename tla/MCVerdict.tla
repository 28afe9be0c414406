----------------------------- MODULE MCVerdict ------------------------------
(* Times in ms; the histogram's unit is half a millisecond (PctD = 2). *)
EXTENDS Verdict

MCEdges == <<0, 10, 20, 60, 100, 150>>
MCBases == {<<>>, <<3, 2>>}
MCProfiles == {[ll |-> 3, classic |-> 3, solo |-> 0, withLL |-> 0],
               [ll |-> 1, classic |-> 1, solo |-> 1, withLL |-> 1]}

(* A run that is good in every scalar, and what each of them may do to it. *)
MCScalars ==
    LET Full == <<10, 9>>
    IN {<<{}, Full>>, <<{"Capacity"}, Full>>} \cup {<<{}, t>> : t \in {<<10, 8>>, <<0, 10>>}}
=============================================================================
