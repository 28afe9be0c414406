-------------------------- MODULE PacedFlow_proofs --------------------------
(***************************************************************************)
(* Proofs about the paced goroutine, for every rate, duration, packet size  *)
(* and horizon, with or without write errors.                               *)
(***************************************************************************)
EXTENDS PacedFlow, TLAPS

(* Multiplication by a natural number is monotone. *)
LEMMA MulMono ==
    ASSUME NEW r \in Nat, NEW a \in Nat, NEW b \in Nat, a <= b
    PROVE  r * a <= r * b /\ a * r <= b * r
<1>1. r * b = r * a + r * (b - a) /\ r * (b - a) >= 0
  OBVIOUS
<1>2. r * a = a * r /\ r * b = b * r
  OBVIOUS
<1> QED BY <1>1, <1>2

(* Whole packets never exceed the bytes they are cut from. *)
LEMMA DivMul ==
    ASSUME NEW x \in Nat, NEW d \in Nat \ {0}
    PROVE  x \div d \in Nat /\ (x \div d) * d <= x
OBVIOUS

(* The inductive invariant of the pacer. *)
IInv == TypeOK /\ PacerSound

(* What Due returns tops the count up to the target and no further. *)
LEMMA DueTopsUp ==
    ASSUME TypeOK, sent * PktSize <= rate * Elapsed
    PROVE  Due \in Nat /\ (sent + Due) * PktSize <= rate * Elapsed
<1>1. Elapsed \in Nat /\ rate * Elapsed \in Nat
  BY DEF TypeOK, Elapsed
<1>2. Target \in Nat /\ Target * PktSize <= rate * Elapsed
  BY <1>1, DivMul, PktAssumption DEF Target
<1>3. CASE Target <= sent
  BY <1>3 DEF Due, TypeOK
<1>4. CASE ~(Target <= sent)
  <2>1. Due = Target - sent /\ Due \in Nat /\ sent + Due = Target
    BY <1>2, <1>4 DEF Due, TypeOK
  <2> QED BY <1>2, <2>1
<1> QED BY <1>3, <1>4

(* A pacer starts with nothing counted and nothing written. *)
LEMMA InitIInv == Init => IInv
<1> SUFFICES ASSUME Init PROVE IInv
  OBVIOUS
<1> USE RateAssumption, DurAssumption, PktAssumption DEF Init, ClampRate, ClampDur
<1>0. rate \in Nat /\ dur \in Nat
  <2>1. ASSUME NEW r \in ReqRate, NEW d \in ReqDur, rate = ClampRate(r), dur = ClampDur(d)
        PROVE  rate \in Nat /\ dur \in Nat
    BY <2>1
  <2>2. CASE kind = "client" /\ rate \in ReqRate \ {0} /\ dur = 0
    BY <2>2
  <2> QED BY <2>1, <2>2
<1>1. TypeOK
  <2>1. kind \in {"server", "client"}
    OBVIOUS
  <2>2. tick \in BOOLEAN /\ cancelled \in BOOLEAN /\ failed \in BOOLEAN
    BY Zenon
  <2>3. 0 \in Nat /\ 0 <= 0
    OBVIOUS
  <2>4. sent \in Nat /\ due \in Nat /\ i \in Nat /\ written \in Nat
        /\ age \in Nat /\ born \in Nat /\ born <= age
    BY <2>3
  <2>5. pc \in {"start", "select", "write", "done"}
    OBVIOUS
  <2> QED BY <1>0, <2>1, <2>2, <2>4, <2>5, Zenon DEF TypeOK
<1>2. rate * Elapsed = 0 /\ sent * PktSize = 0
  BY <1>1 DEF TypeOK, Elapsed
<1>3. PacerSound
  BY <1>1, <1>2 DEF PacerSound, TypeOK
<1> QED BY <1>1, <1>3 DEF IInv

(* Every step keeps the invariant: only Elapse moves the allowance, and upwards. *)
LEMMA NextIInv == IInv /\ [Next]_vars => IInv'
<1> SUFFICES ASSUME IInv, [Next]_vars PROVE IInv'
  OBVIOUS
<1> USE PktAssumption DEF IInv
<1>1. CASE Begin
  <2>1. TypeOK'
    BY <1>1 DEF Begin, TypeOK
  <2>2. rate' * Elapsed' = 0 /\ sent' * PktSize = 0
    BY <1>1, <2>1 DEF Begin, TypeOK, PacerSound, Elapsed
  <2> QED BY <1>1, <2>1, <2>2 DEF Begin, TypeOK, PacerSound
<1>2. CASE TakeTick
  <2>1. Due \in Nat /\ (sent + Due) * PktSize <= rate * Elapsed
    BY DueTopsUp DEF PacerSound
  <2>2. TypeOK' /\ Elapsed' = Elapsed
    BY <1>2, <2>1 DEF TakeTick, TypeOK, Elapsed
  <2>3. (sent' + due') * PktSize <= rate' * Elapsed' /\ sent' * PktSize <= rate' * Elapsed'
    BY <1>2, <2>1, <2>2 DEF TakeTick, PacerSound
  <2>4. due' \in Nat /\ i' = 0 /\ written' <= sent' + i' /\ pc' = "write"
    BY <1>2, <2>1 DEF TakeTick, PacerSound, TypeOK
  <2> QED BY <1>2, <2>2, <2>3, <2>4 DEF TakeTick, PacerSound
<1>3. CASE WriteOne
  <2>1. TypeOK' /\ Elapsed' = Elapsed
    BY <1>3 DEF WriteOne, TypeOK, Elapsed
  <2>2. (sent' + due') * PktSize <= rate' * Elapsed' /\ sent' * PktSize <= rate' * Elapsed'
    BY <1>3, <2>1 DEF WriteOne, PacerSound
  <2>3. i' <= due' /\ written' <= sent' + i'
    BY <1>3 DEF WriteOne, PacerSound, TypeOK
  <2> QED BY <1>3, <2>1, <2>2, <2>3 DEF WriteOne, PacerSound
<1>4. CASE EndBatch
  <2>1. TypeOK' /\ Elapsed' = Elapsed
    BY <1>4 DEF EndBatch, TypeOK, Elapsed
  <2>2. sent' * PktSize <= rate' * Elapsed'
    BY <1>4, <2>1 DEF EndBatch, PacerSound
  <2>3. written' <= sent' /\ pc' = "select"
    BY <1>4 DEF EndBatch, PacerSound, TypeOK
  <2> QED BY <1>4, <2>1, <2>2, <2>3 DEF EndBatch, PacerSound
<1>5. CASE TakeDone
  BY <1>5 DEF TakeDone, TypeOK, PacerSound, Elapsed
<1>6. CASE Cancel
  BY <1>6 DEF Cancel, TypeOK, PacerSound, Elapsed
<1>7. CASE Elapse
  <2>1. TypeOK'
    BY <1>7 DEF Elapse, TypeOK
  <2>2. Elapsed \in Nat /\ Elapsed' \in Nat /\ Elapsed <= Elapsed'
    BY <1>7 DEF Elapse, TypeOK, Elapsed
  <2>3. rate * Elapsed <= rate' * Elapsed'
    BY <1>7, <2>2, MulMono DEF Elapse, TypeOK
  <2>4. /\ rate * Elapsed \in Nat /\ rate' * Elapsed' \in Nat
        /\ sent * PktSize \in Nat /\ (sent + due) * PktSize \in Nat
    <3>1. sent + due \in Nat /\ rate' \in Nat /\ rate \in Nat /\ sent \in Nat
      BY <2>1 DEF TypeOK
    <3>2. \A a, b \in Nat : a * b \in Nat
      OBVIOUS
    <3> QED BY <2>2, <3>1, <3>2
  <2>5. sent' * PktSize <= rate' * Elapsed'
    BY <1>7, <2>3, <2>4 DEF Elapse, PacerSound
  <2>6. pc = "write" => (sent' + due') * PktSize <= rate' * Elapsed'
    BY <1>7, <2>3, <2>4 DEF Elapse, PacerSound
  <2> QED BY <1>7, <2>1, <2>5, <2>6 DEF Elapse, PacerSound
<1>8. CASE UNCHANGED vars
  BY <1>8 DEF vars, TypeOK, PacerSound, Elapsed
<1> QED BY <1>1, <1>2, <1>3, <1>4, <1>5, <1>6, <1>7, <1>8 DEF Next

(* The pacer's counters are sound in every reachable state. *)
THEOREM PacerInvariance == Spec => []IInv
BY InitIInv, NextIInv, PTL DEF Spec

(* No schedule of stalls and write errors makes a flow exceed its rate. *)
THEOREM NoOversending == Spec => []NeverOversends
<1>1. IInv => NeverOversends
  <2> SUFFICES ASSUME IInv PROVE written * PktSize <= rate * Elapsed
    BY DEF NeverOversends
  <2> USE PktAssumption DEF IInv, TypeOK, Elapsed
  <2> DEFINE n == IF pc = "write" THEN sent + i ELSE sent
             m == IF pc = "write" THEN sent + due ELSE sent
  <2>1. n \in Nat /\ m \in Nat /\ written <= n /\ n <= m
    BY DEF PacerSound
  <2>2. written * PktSize <= m * PktSize
    BY <2>1, MulMono
  <2>3. m * PktSize <= rate * Elapsed
    BY DEF PacerSound
  <2>4. written * PktSize \in Nat /\ m * PktSize \in Nat /\ rate * Elapsed \in Nat
    BY <2>1
  <2> QED BY <2>2, <2>3, <2>4
<1> QED BY <1>1, PacerInvariance, PTL

(* One accepted Start yields at most MaxRate * MaxDur bytes before its context is done. *)
THEOREM BoundedStart == Spec => []StartIsBounded
<1>1. IInv /\ NeverOversends => StartIsBounded
  <2> SUFFICES ASSUME IInv, NeverOversends, kind = "server", ~CtxDone
               PROVE  written * PktSize <= MaxRate * MaxDur
    BY DEF StartIsBounded
  <2> USE RateAssumption, DurAssumption, PktAssumption DEF IInv, TypeOK
  <2>1. Elapsed \in Nat /\ Elapsed <= MaxDur /\ rate <= MaxRate
    BY DEF CtxDone, PacerSound, Elapsed
  <2>2. rate * Elapsed <= MaxRate * Elapsed /\ MaxRate * Elapsed <= MaxRate * MaxDur
    BY <2>1, MulMono
  <2>3. /\ rate * Elapsed \in Nat /\ MaxRate * Elapsed \in Nat /\ MaxRate * MaxDur \in Nat
        /\ written * PktSize \in Nat
    BY <2>1
  <2> QED BY <2>2, <2>3 DEF NeverOversends
<1> QED BY <1>1, PacerInvariance, NoOversending, PTL

(* A count of whole packets that fits into x bytes is no more than those x holds. *)
LEMMA DivBound ==
    ASSUME NEW n \in Nat, NEW x \in Nat, NEW d \in Nat \ {0}, n * d <= x
    PROVE  n <= x \div d
<1> DEFINE q == x \div d
<1>1. q \in Nat /\ x < (q + 1) * d
  OBVIOUS
<1>2. CASE n <= q
  BY <1>2
<1>3. CASE ~(n <= q)
  <2>1. q + 1 \in Nat /\ q + 1 <= n
    BY <1>1, <1>3
  <2> HIDE DEF q
  <2>2. (q + 1) * d <= n * d
    BY <2>1, MulMono
  <2>3. (q + 1) * d \in Nat /\ n * d \in Nat
    BY <2>1
  <2> QED BY <1>1, <2>2, <2>3
<1> QED BY <1>2, <1>3

(* As long as no write failed, the pacer's count is what was written, and a batch is *)
(* what was missing to the target when the last tick was taken.                     *)
UpToDate ==
    /\ pc = "start" => ~tick
    /\ ~failed => written = IF pc = "write" THEN sent + i ELSE sent
    /\ pc = "select" /\ ~tick => sent = Target
    /\ pc = "write" /\ ~tick => sent + due = Target

(* No tick is missed before the first one. *)
LEMMA InitUpToDate == Init => UpToDate
BY DEF Init, UpToDate

(* A tick pends whenever the target may have moved on since the last one was taken. *)
LEMMA NextUpToDate == IInv /\ UpToDate /\ [Next]_vars => UpToDate'
<1> SUFFICES ASSUME IInv, UpToDate, [Next]_vars PROVE UpToDate'
  OBVIOUS
<1> USE PktAssumption DEF IInv
<1>1. CASE Begin
  <2>1. rate' * Elapsed' = 0 /\ sent' = 0
    BY <1>1 DEF Begin, TypeOK, PacerSound, Elapsed
  <2>2. Target' = 0
    BY <2>1 DEF Target
  <2> QED BY <1>1, <2>1, <2>2 DEF Begin, UpToDate
<1>2. CASE TakeTick
  <2>1. Elapsed \in Nat /\ rate * Elapsed \in Nat /\ sent \in Nat
    BY DEF TypeOK, Elapsed
  <2>2. Target \in Nat /\ sent <= Target
    BY <2>1, DivBound, DivMul DEF Target, PacerSound
  <2>3. sent + Due = Target
    BY <2>1, <2>2 DEF Due
  <2>4. Target' = Target
    BY <1>2 DEF TakeTick, Target, Elapsed
  <2> QED BY <1>2, <2>1, <2>3, <2>4 DEF TakeTick, UpToDate
<1>3. CASE WriteOne
  <2>1. Target' = Target
    BY <1>3 DEF WriteOne, Target, Elapsed
  <2> QED BY <1>3, <2>1 DEF WriteOne, UpToDate, TypeOK
<1>4. CASE EndBatch
  <2>1. Target' = Target
    BY <1>4 DEF EndBatch, Target, Elapsed
  <2>2. ~failed' => ~failed /\ ~(i < due)
    BY <1>4, Zenon DEF EndBatch
  <2>3. ~(i < due) => i = due
    BY <1>4 DEF EndBatch, TypeOK, PacerSound
  <2> QED BY <1>4, <2>1, <2>2, <2>3 DEF EndBatch, UpToDate, TypeOK
<1>5. CASE TakeDone
  BY <1>5 DEF TakeDone, UpToDate
<1>6. CASE Cancel
  <2>1. Target' = Target
    BY <1>6 DEF Cancel, Target, Elapsed
  <2> QED BY <1>6, <2>1 DEF Cancel, UpToDate
<1>7. CASE Elapse
  BY <1>7 DEF Elapse, UpToDate
<1>8. CASE UNCHANGED vars
  <2>1. Target' = Target
    BY <1>8 DEF vars, Target, Elapsed
  <2> QED BY <1>8, <2>1 DEF vars, UpToDate
<1> QED BY <1>1, <1>2, <1>3, <1>4, <1>5, <1>6, <1>7, <1>8 DEF Next

(* However long the goroutine was stalled, once it has drained its ticks it has sent *)
(* exactly what its rate calls for, as long as no write has failed.                  *)
THEOREM StallsAreMadeUp == Spec => []CatchesUp
<1>1. UpToDate => CatchesUp
  BY DEF UpToDate, CatchesUp
<1> QED BY <1>1, InitUpToDate, NextUpToDate, PacerInvariance, PTL DEF Spec
=============================================================================
