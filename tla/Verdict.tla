------------------------------ MODULE Verdict -------------------------------
(***************************************************************************)
(* How samples become a verdict: histBatch (engine.go:217-227) takes the    *)
(* working delta of each echo over the base line into the histogram of its  *)
(* leg, BatchProbe (engine.go:192-214) counts the same low-latency echoes    *)
(* and the marks they kept, and Evaluate (verdict.go) judges the histograms, *)
(* the survival and scalars. The gate on the standing queue is computed from *)
(* the classic histogram (engine.go:143). The samples themselves are kept    *)
(* beside the histograms, as what the verdict should be true of.             *)
(*                                                                          *)
(* RunFull hands the downstream histograms to Evaluate as upstream ones too *)
(* (engine.go:162-163), so one direction stands for both.                   *)
(***************************************************************************)
EXTENDS Histogram, Bags

CONSTANTS
    Rtt,            \* round-trip times of echoes
    Bases,          \* what the idle batch may have measured: sequences of times
    Profiles,       \* bound: a run has at most p[leg] echoes of each leg, for one p of these
    Scalars,        \* bound: the other gates that failed, and the throughputs of a run
    QN, QD,         \* the 0.99 of the verdict's quantiles, as a fraction
    SurvivalN, SurvivalD,              \* MarkingSurvivalMin, 0.99, as a fraction
    LLMax, ClassicMin, LatencyMargin,  \* thresholds, in the histogram's unit
    QueueMin                           \* StandingQueueMinMs, likewise

Leg == {"ll", "classic", "solo", "withLL"}
Gate == {"WrongLink", "Capacity", "StandingQueue", "BaselineDrifted", "NoHarmNoisy"}

ASSUME SamplesAssumption ==
    Rtt \subseteq Nat /\ Bases \subseteq Seq(Nat) /\ Profiles \subseteq [Leg -> Nat]
ASSUME ScalarsAssumption ==
    Scalars \subseteq (SUBSET (Gate \ {"StandingQueue"})) \X (Nat \X Nat)
(* The thresholds lie on edges ("10 and 30 are edges so the pass/fail boundary lands *)
(* on a bin edge", histogram.go:12-13; 50 is one too).                              *)
ASSUME ThresholdsAssumption ==
    /\ {LLMax, ClassicMin, QueueMin} \subseteq {Edges[i] : i \in 2 .. NumBins} /\ LatencyMargin \in Nat
    /\ QN \in Nat \ {0} /\ QD \in Nat /\ QN < QD
    /\ SurvivalN \in Nat \ {0} /\ SurvivalD \in Nat /\ SurvivalN <= SurvivalD

VARIABLES
    base,     \* the idle batch's samples
    h,        \* the histogram of each leg
    deltas,   \* the working deltas it was made of, as a bag
    gates,    \* the validity gates that failed, other than the one on the standing queue
    marks,    \* <<survived, total>> of the low-latency batch
    thr       \* <<ClassicSoloThroughputBps, ClassicWithLLThroughputBps>>

vars == <<base, h, deltas, gates, marks, thr>>

TypeOK ==
    /\ base \in Bases /\ <<gates, thr>> \in Scalars /\ marks \in Nat \X Nat
    /\ h \in [Leg -> [Bins -> Nat]]
    /\ \A leg \in Leg : IsABag(deltas[leg]) /\ BagToSet(deltas[leg]) \subseteq Nat

Init ==
    /\ base \in Bases
    /\ \E s \in Scalars : gates = s[1] /\ thr = s[2]
    /\ marks = <<0, 0>>
    /\ h = [leg \in Leg |-> NewHistogram]
    /\ deltas = [leg \in Leg |-> EmptyBag]

(* An echo of a leg: its working delta is observed; a low-latency one is counted, and has *)
(* kept its mark or not.                                                                  *)
HistSample(leg, rtt) ==
    /\ \E p \in Profiles : \A l \in Leg :
          BagCardinality(deltas[l]) + (IF l = leg THEN 1 ELSE 0) <= p[l]
    /\ LET d == WorkingDelta(rtt, BaseRTT(base)) IN
       /\ h' = [h EXCEPT ![leg] = Observe(@, d)]
       /\ deltas' = [deltas EXCEPT ![leg] = @ (+) SetToBag({d})]
    /\ \E kept \in {0, 1} :
          marks' = IF leg = "ll" THEN <<marks[1] + kept, marks[2] + 1>> ELSE marks
    /\ UNCHANGED <<base, gates, thr>>

Next == \E leg \in Leg, rtt \in Rtt : HistSample(leg, rtt)

Spec == Init /\ [][Next]_vars

-----------------------------------------------------------------------------
(* <definition>_<fault>: faulty variants, which the properties must tell apart. *)

P99(leg) == Quantile(h[leg], QN, QD)

EvalDirection_Reached ==
    /\ Total(h["ll"]) > 0 /\ Total(h["classic"]) > 0
    /\ Below(P99("ll"), LLMax)
    /\ ~Below(P99("classic"), ClassicMin)

EvalDirection_Swapped ==
    /\ Total(h["ll"]) > 0 /\ Total(h["classic"]) > 0
    /\ Below(P99("classic"), LLMax)
    /\ Above(P99("ll"), ClassicMin)

(* Low latency stayed low and classic went up under the same load. *)
EvalDirection ==
    /\ Total(h["ll"]) > 0 /\ Total(h["classic"]) > 0
    /\ Below(P99("ll"), LLMax)
    /\ Above(P99("classic"), ClassicMin)

(* At least 0.99 of the marks survived; no echoes, no survival. *)
MarkingOK == marks[2] > 0 /\ SurvivalD * marks[1] >= SurvivalN * marks[2]

(* Classic kept 0.90 of its throughput, and its p99 did not grow beyond the margin. *)
NoHarm ==
    /\ thr[1] > 0 /\ 10 * thr[2] >= 9 * thr[1]
    /\ LET solo == P99("solo")
           with == P99("withLL")
       IN with.n * solo.d <= solo.n * with.d + LatencyMargin * solo.d * with.d

(* The median of the classic delays shows a queue; every gate that failed. *)
StandingQueueOK == ~Below(Quantile(h["classic"], 1, 2), QueueMin)

Failed == IF StandingQueueOK THEN gates ELSE gates \cup {"StandingQueue"}

Check == {"working", "marking_survival", "no_harm"}

Status(ok) == IF ok THEN "pass" ELSE "fail"

(* The sub-results of a run that is judged, and the verdict they give. *)
SubResults ==
    [c \in Check |-> Status(CASE c = "working" -> EvalDirection
                              [] c = "marking_survival" -> MarkingOK
                              [] c = "no_harm" -> NoHarm)]

AllPass == \A c \in Check : SubResults[c] = "pass"

Evaluate_GatesLast ==
    [verdict |-> IF Failed # {} THEN "inconclusive" ELSE Status(AllPass),
     subs |-> SubResults, caveats |-> Failed]

(* Validity gates take precedence, and nothing is judged; else everything must pass. *)
Evaluate ==
    IF Failed # {} THEN [verdict |-> "inconclusive", subs |-> <<>>, caveats |-> Failed]
    ELSE [verdict |-> Status(AllPass), subs |-> SubResults, caveats |-> {}]

Passes == Evaluate.verdict = "pass"

(* The technician's checklist: the path line shows the capacity gate, a check that was not *)
(* judged is neither passed nor failed.                                                    *)
Field(r) ==
    [line \in Check \cup {"path"} |->
        IF line = "path" THEN Status("Capacity" \notin r.caveats)
        ELSE IF line \in DOMAIN r.subs THEN r.subs[line] ELSE "inconclusive"]

-----------------------------------------------------------------------------
(* How many samples of a leg lie below x, and up to x. *)
SamplesBelow(leg, x) == SumFunctionOnSet(deltas[leg], {d \in DOMAIN deltas[leg] : d < x})
SamplesUpTo(leg, x) == SamplesBelow(leg, x + 1)

(* The sample at the target rank: the least one that QN/QD of the samples do not exceed. *)
RankSample(leg) ==
    CHOOSE d \in DOMAIN deltas[leg] :
        /\ QD * SamplesUpTo(leg, d) >= QN * BagCardinality(deltas[leg])
        /\ QD * SamplesBelow(leg, d) < QN * BagCardinality(deltas[leg])

(* The bin that holds x, by its definition "bin i covers [Edges[i], Edges[i+1])". *)
BinOf(x) == CHOOSE i \in Bins : Edges[i] <= x /\ (i = NumBins \/ x < Edges[i + 1])

(* The estimated p99 lies in the bin of the true one, for every set of samples: the  *)
(* search for the bin, the counts and the interpolation agree with the samples.       *)
QuantileInBin ==
    \A leg \in Leg : deltas[leg] # EmptyBag =>
        LET i == BinOf(RankSample(leg))
        IN ~Below(P99(leg), Edges[i]) /\ ~Above(P99(leg), UpperEdge(i))

(* The distribution shown to engineers and the quantile of the verdict agree: a point *)
(* of the CDF has reached a fraction just when that quantile is not above the point.  *)
CdfAgrees ==
    \A leg \in Leg, i \in 1 .. NumBins - 2 : Total(h[leg]) > 0 =>
        LET pt == CDF(h[leg])[i]
        IN QD * pt.cum >= QN * Total(h[leg]) <=> ~Above(P99(leg), pt.ms)

(* A fleet's quantile lies between those of the runs merged into it ("you cannot      *)
(* average percentiles", histogram.go:15), and Merge loses no sample.                *)
MergedBetween ==
    \A a, b \in Leg :
        LET m == Merge(h[a], h[b])
            q == Quantile(m, QN, QD)
        IN /\ Total(m) = BagCardinality(deltas[a]) + BagCardinality(deltas[b])
           /\ Total(h[a]) > 0 /\ Total(h[b]) > 0 /\ Leq(P99(a), P99(b)) =>
                Leq(P99(a), q) /\ Leq(q, P99(b))

(* A pass is earned by the samples themselves, whatever the histogram rounds: no gate  *)
(* failed, 0.99 of the low-latency samples are below the limit and nearly all kept     *)
(* their marks, at most half of the classic ones lie below the standing queue and more  *)
(* than 0.01 of them have reached their limit, and the throughput was kept.             *)
PassIsEarned ==
    Passes =>
        /\ gates = {}
        /\ deltas["ll"] # EmptyBag /\ deltas["classic"] # EmptyBag
        /\ QD * SamplesBelow("ll", LLMax) >= QN * BagCardinality(deltas["ll"])
        /\ SurvivalD * marks[1] >= SurvivalN * BagCardinality(deltas["ll"])
        /\ 2 * SamplesBelow("classic", QueueMin) <= BagCardinality(deltas["classic"])
        /\ QD * SamplesBelow("classic", ClassicMin) < QN * BagCardinality(deltas["classic"])
        /\ 10 * (thr[1] - thr[2]) <= thr[1]

(* The technician's list (render.go:54-96) and the headline below it say the same: all *)
(* lines good just when the run passed, a bad one among the checks just when it failed, *)
(* and nothing claimed of a run that could not be judged ("never a silent pass",       *)
(* result.go:16-18).                                                                  *)
FieldAgrees ==
    \A r \in {Evaluate} :
        LET list == Field(r)
            Shows(v) == {c \in Check : list[c] = v}
        IN CASE r.verdict = "pass" -> Shows("pass") = Check /\ list["path"] = "pass"
             [] r.verdict = "fail" -> Shows("fail") # {} /\ Shows("inconclusive") = {}
             [] OTHER -> Shows("inconclusive") = Check

(* One more slow low-latency sample, or one more classic sample that saw little queue, *)
(* never makes the path look like a working one, and turns another verdict into a pass *)
(* only if it is a low-latency echo that kept its mark: the echo that counts against    *)
(* the delay then counts for the survival (engine.go:200-204), and can lift that over   *)
(* its limit while the 0.99 quantile stays below its own.                              *)
NoRewardForWorse ==
    [][(\E i \in Bins :
           \/ h'["ll"][i] > h["ll"][i] /\ Edges[i] >= LLMax
           \/ h'["classic"][i] > h["classic"][i] /\ Edges[i] < ClassicMin /\ Edges[i] < QueueMin)
       => /\ EvalDirection' => EvalDirection
          /\ marks'[1] = marks[1] => (Passes' => Passes)]_vars
=============================================================================
