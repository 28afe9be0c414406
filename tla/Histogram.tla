----------------------------- MODULE Histogram ------------------------------
(***************************************************************************)
(* The fixed-edge histogram of src/core/compute/histogram.go and its        *)
(* cumulative distribution (cdf.go), the base line and the working delta    *)
(* (stats.go).  A histogram is its Counts; every histogram of a fleet has   *)
(* the same edges, so Merge's check of the edges always succeeds here.      *)
(*                                                                          *)
(* Times are integers in a unit fine enough for every value that occurs,    *)
(* and an estimate is a fraction n/d, computed exactly: the rounding of     *)
(* float64 is not modelled.                                                 *)
(***************************************************************************)
EXTENDS Integers, Sequences, SequencesExt

CONSTANTS Edges,       \* DefaultEdgesMs: the lower edges of the bins
          PctN, PctD   \* BaselinePct, as a fraction

ASSUME EdgesAssumption ==
    /\ Edges \in Seq(Nat) /\ Edges # <<>> /\ Edges[1] = 0
    /\ \A i, j \in DOMAIN Edges : i < j => Edges[i] < Edges[j]
ASSUME PctAssumption == PctN \in Nat /\ PctD \in Nat \ {0} /\ PctN < PctD

Bins == DOMAIN Edges
NumBins == Len(Edges)

UpperEdge(i) == IF i < NumBins THEN Edges[i + 1] ELSE Edges[i]

-----------------------------------------------------------------------------
(* <definition>_<fault>: faulty variants, which the properties must tell apart. *)

NewHistogram == [i \in Bins |-> 0]

BinIndex_Exclusive(v) ==
    LET S == {i \in Bins : Edges[i] < v} IN IF S = {} THEN 1 ELSE Cardinality(S)

(* The binary search, from <<lo, hi>>, for the first edge above v; the bin is the one *)
(* before it.                                                                        *)
BinIndex(v) ==
    LET search[r \in (0 .. NumBins) \X (0 .. NumBins)] ==
            LET mid == (r[1] + r[2]) \div 2
            IN  IF r[1] >= r[2] THEN r[1]
                ELSE IF Edges[mid + 1] <= v THEN search[<<mid + 1, r[2]>>]
                ELSE search[<<r[1], mid>>]
        lo == search[<<0, NumBins>>]
    IN IF lo = 0 THEN 1 ELSE lo

Observe(h, v) == [h EXCEPT ![BinIndex(v)] = @ + 1]

Total(h) == SumFunction(h)

Merge_NoOverflow(h, other) == [i \in Bins |-> IF i < NumBins THEN h[i] + other[i] ELSE h[i]]

Merge(h, other) == [i \in Bins |-> h[i] + other[i]]

(* Samples in the bins up to the i-th. *)
Cum(h, i) == SumFunctionOnSet(h, 1 .. i)

(* The samples up to the i-th bin reach the rank n/d of all samples. *)
Reaches(h, i, n, d) == h[i] > 0 /\ d * Cum(h, i) >= n * Total(h)

(* The n/d quantile, 0 <= n <= d: the target rank is n/d of all samples; the first *)
(* bin with samples that reaches it is interpolated, but for the overflow bin.     *)
Quantile(h, n, d) ==
    LET target == n * Total(h)   \* d times the rank
        i == CHOOSE k \in Bins : Reaches(h, k, n, d) /\ \A j \in 1 .. k - 1 : ~Reaches(h, j, n, d)
    IN  IF Total(h) = 0 THEN [n |-> 0, d |-> 1]
        ELSE IF i = NumBins THEN [n |-> Edges[i], d |-> 1]
        ELSE [n |-> Edges[i] * d * h[i] + (target - d * Cum(h, i - 1)) * (Edges[i + 1] - Edges[i]),
              d |-> d * h[i]]

(* Comparing estimates, and an estimate with a value. *)
Leq(q, r) == q.n * r.d <= r.n * q.d
Below(q, x) == q.n < x * q.d
Above(q, x) == q.n > x * q.d

CDF_LowerEdge(h) == [i \in Bins |-> [ms |-> Edges[i], cum |-> Cum(h, i)]]

(* One point per bin, at its upper edge; P is cum/Total(h). *)
CDF(h) == [i \in Bins |-> [ms |-> UpperEdge(i), cum |-> Cum(h, i)]]

-----------------------------------------------------------------------------
(* sort.Float64s: the k-th sample is the one that fewer than k lie below, and at least *)
(* k not above.                                                                        *)
IsKth(v, k, samples) ==
    /\ Cardinality({j \in DOMAIN samples : samples[j] < v}) < k
    /\ Cardinality({j \in DOMAIN samples : samples[j] <= v}) >= k

Ascending(samples) == [k \in DOMAIN samples |-> CHOOSE v \in ToSet(samples) : IsKth(v, k, samples)]

(* PctD times the base line of the samples: a low percentile, interpolated between *)
(* the two samples next to it; 0 when there are none.                              *)
BaseRTT(samples) ==
    LET s == Ascending(samples)
        idx == PctN * (Len(s) - 1)
        lo == idx \div PctD
    IN  IF s = <<>> THEN 0
        ELSE IF lo + 1 < Len(s) THEN PctD * s[lo + 1] + (idx % PctD) * (s[lo + 2] - s[lo + 1])
        ELSE PctD * s[lo + 1]

(* PctD times the latency added over the base line, never negative. *)
WorkingDelta(rtt, base) == IF PctD * rtt > base THEN PctD * rtt - base ELSE 0
=============================================================================
