--------------------------- MODULE ProbeRun_proofs --------------------------
(***************************************************************************)
(* Proofs about the probe runs of the three client programs, for every      *)
(* number of probes and every combination of faults.                        *)
(***************************************************************************)
EXTENDS ProbeRun, FiniteSetTheorems, SequenceTheorems, TLAPS

Ids == {inbox[k].id : k \in DOMAIN inbox}

(* What is under way or waits in the socket. *)
Afoot == out \cup Ids

(* The place in the program and the batch belong together. *)
Placed ==
    /\ b <= Last
    /\ at \in {"hello", "handshake", "init"} => b = 1 /\ Afoot \subseteq {Cookie}
    /\ at = "hello" => Afoot = {}
    /\ at \in {"hello", "handshake"} => timely
    /\ at = "init" => cond.prog = "validate"
    /\ b = 1 => at \in {"hello", "handshake", "init", "send", "drain", "failed"}
    /\ at \in {"finish", "done"} => b = Last
    /\ cond.prog = "validate" =>
          at # "stop" /\ (at \in {"setTier", "readTier", "setOver"} => b = 2)

(* Whatever arrives answers a probe that was sent, with the mark the program gave it, *)
(* as far as the path left it on.                                                     *)
Genuine ==
    /\ \A m \in Afoot : m # Cookie =>
          /\ m[1] \in 1 .. b /\ m[3] = MarkOf(m[1], m[2])
          /\ m[1] = b /\ at \notin {"finish", "done"} => m[2] <= i
    /\ \A k \in DOMAIN inbox : inbox[k].tos \in Observed(inbox[k].id[3])

(* What was not duplicated is in one place only: under way, waiting or counted. *)
Once ==
    dups = 0 =>
        /\ \A k, l \in DOMAIN inbox : k # l => inbox[k].id # inbox[l].id
        /\ \A k \in DOMAIN inbox : inbox[k].id \notin out
        /\ \A o \in own : o[1] <= i /\ \A m \in Afoot : m # Cookie /\ m[1] = b => m[2] # o[1]

(* As long as no read timed out early, nothing of an earlier batch is left. *)
Current ==
    timely /\ dups = 0 =>
        /\ \A m \in Afoot : m # Cookie => m[1] = b
        /\ tainted = {} /\ ~crossed

Kept == {o \in own : o[2] # "notect"}

(* The low-latency batch counts a survived mark only for an echo of its own. *)
Counted ==
    /\ IsFiniteSet(own)
    /\ dups = 0 /\ b = 2 /\ cond.prog # "latency" =>
          survived = Cardinality(Kept) /\ Cardinality(own) <= total

(* The base line is 0 or an RTT of the path; one taken in the standing queue alone is so  *)
(* high that the gate on the classic batch fails.                                        *)
Based ==
    /\ base = 0 \/ base >= Propagation
    /\ b = 1 => base = 0 /\ ~baseFull
    /\ baseFull => base = Propagation + 2
    /\ b >= 4 /\ baseFull => ~queueOK

(* A queue that is gone under the low-latency batch does not come back, unless by a late  *)
(* Start: the classic batch sees none, and the gate fails if the base line is one.       *)
Witnessed ==
    cond.prog = "validate" /\ timely /\ dups = 0 /\ prompt =>
        /\ b = 1 => underLoad
        /\ b = 2 /\ at \in {"setTier", "readTier", "setOver"} => underLoad /\ Afoot = {}
        /\ b = 2 /\ at \in {"send", "drain"} /\ queue # "none" =>
              underLoad /\ \A k \in DOMAIN inbox : inbox[k].queue # "none"
        /\ b = 3 /\ at \in {"send", "drain"} /\ ~underLoad =>
              queue = "none" /\ queued = 0 /\ \A k \in DOMAIN inbox : inbox[k].queue = "none"
        /\ b >= 4 /\ ~underLoad => ~queueOK \/ base = 0

IInv == /\ TypeOK /\ Placed /\ Genuine /\ Once /\ Current /\ Counted /\ Based /\ Witnessed
        /\ SurvivalHonest /\ ClassesApart

-----------------------------------------------------------------------------
(* How many batches a program has, and what follows each of them. *)
LEMMA LastValue ==
    ASSUME cond.prog \in Program
    PROVE  Last = IF cond.prog = "diagnose" THEN 3 ELSE 5
<1>1. CASE cond.prog = "validate"
  <2>1. AfterBatch[cond.prog] = ValidateSteps
    BY <1>1 DEF AfterBatch
  <2> QED BY <1>1, <2>1 DEF Last, ValidateSteps
<1>2. CASE cond.prog = "diagnose"
  <2>1. AfterBatch[cond.prog] = DiagnoseSteps
    BY <1>2 DEF AfterBatch
  <2> QED BY <1>2, <2>1 DEF Last, DiagnoseSteps
<1>3. CASE cond.prog = "latency"
  <2>1. AfterBatch[cond.prog] = LatencySteps
    BY <1>3 DEF AfterBatch
  <2> QED BY <1>3, <2>1 DEF Last, LatencySteps
<1> QED BY <1>1, <1>2, <1>3 DEF Program

(* What may follow a batch, in any of the three programs. *)
LEMMA NextPlace ==
    ASSUME cond.prog \in Program, b \in 1 .. Last
    PROVE  LET there == AfterBatch[cond.prog][b]
           IN /\ there \in IF b = Last THEN {"finish"} ELSE {"setTier", "send", "setOver", "stop"}
              /\ cond.prog = "validate" =>
                    there = IF b = 1 THEN "setTier" ELSE IF b < 5 THEN "send" ELSE "finish"
              /\ cond.prog = "diagnose" => there = IF b = 1 THEN "setOver" ELSE IF b = 2 THEN "send" ELSE "finish"
<1> USE LastValue
<1>1. CASE cond.prog = "validate"
  <2>1. AfterBatch[cond.prog] = ValidateSteps
    BY <1>1 DEF AfterBatch
  <2> QED BY <1>1, <2>1 DEF ValidateSteps
<1>2. CASE cond.prog = "diagnose"
  <2>1. AfterBatch[cond.prog] = DiagnoseSteps
    BY <1>2 DEF AfterBatch
  <2> QED BY <1>2, <2>1 DEF DiagnoseSteps
<1>3. CASE cond.prog = "latency"
  <2>1. AfterBatch[cond.prog] = LatencySteps
    BY <1>3 DEF AfterBatch
  <2> QED BY <1>3, <2>1 DEF LatencySteps
<1> QED BY <1>1, <1>2, <1>3 DEF Program

LEMMA CondType == ASSUME TypeOK PROVE cond \in Condition /\ cond.prog \in Program
BY ConditionsAssumption DEF TypeOK, Condition

(* What a step does to the socket's buffer: nothing, one more at the end, or one fewer. *)
LEMMA Appended ==
    ASSUME TypeOK, NEW d \in Datagram, inbox' = Append(inbox, d)
    PROVE  /\ inbox' \in Seq(Datagram)
           /\ DOMAIN inbox' = DOMAIN inbox \cup {Len(inbox) + 1}
           /\ Len(inbox) + 1 \notin DOMAIN inbox
           /\ \A k \in DOMAIN inbox : inbox'[k] = inbox[k]
           /\ inbox'[Len(inbox) + 1] = d
           /\ Ids' = Ids \cup {d.id}
<1>1. inbox \in Seq(Datagram)
  BY DEF TypeOK
<1>2. /\ inbox' \in Seq(Datagram) /\ Len(inbox') = Len(inbox) + 1
      /\ \A k \in 1 .. Len(inbox) : inbox'[k] = inbox[k]
      /\ inbox'[Len(inbox) + 1] = d
  BY <1>1, AppendProperties
<1>3. DOMAIN inbox = 1 .. Len(inbox) /\ DOMAIN inbox' = 1 .. Len(inbox') /\ Len(inbox) \in Nat
  BY <1>1, <1>2, LenProperties
<1>4. DOMAIN inbox' = DOMAIN inbox \cup {Len(inbox) + 1} /\ Len(inbox) + 1 \notin DOMAIN inbox
  BY <1>2, <1>3
<1>5. Ids' = Ids \cup {d.id}
  BY <1>2, <1>3, <1>4 DEF Ids
<1> QED BY <1>2, <1>3, <1>4, <1>5

(* Reading the first datagram of the socket's buffer. *)
LEMMA Popped ==
    ASSUME TypeOK, inbox # <<>>, inbox' = Tail(inbox)
    PROVE  /\ inbox' \in Seq(Datagram)
           /\ 1 \in DOMAIN inbox /\ Head(inbox) = inbox[1] /\ inbox[1] \in Datagram
           /\ \A k \in DOMAIN inbox' : k + 1 \in DOMAIN inbox /\ k + 1 # 1 /\ inbox'[k] = inbox[k + 1]
           /\ Head(inbox).id \in Ids /\ Ids' \subseteq Ids
<1>1. inbox \in Seq(Datagram)
  BY DEF TypeOK
<1>2. /\ inbox' \in Seq(Datagram) /\ Len(inbox') = Len(inbox) - 1
      /\ \A k \in 1 .. Len(inbox') : inbox'[k] = inbox[k + 1]
  BY <1>1, HeadTailProperties
<1>3. /\ DOMAIN inbox = 1 .. Len(inbox) /\ DOMAIN inbox' = 1 .. Len(inbox')
      /\ Len(inbox) \in Nat \ {0}
  BY <1>1, <1>2, LenProperties, EmptySeq
<1>4. \A k \in DOMAIN inbox' : k + 1 \in DOMAIN inbox /\ k + 1 # 1 /\ inbox'[k] = inbox[k + 1]
  BY <1>2, <1>3
<1>5. 1 \in DOMAIN inbox /\ Head(inbox) = inbox[1] /\ inbox[1] \in Datagram
  BY <1>1, <1>3
<1>6. Head(inbox).id \in Ids /\ Ids' \subseteq Ids
  BY <1>4, <1>5 DEF Ids
<1> QED BY <1>2, <1>4, <1>5, <1>6

LEMMA NothingLeft == inbox = <<>> => Ids = {}
BY DEF Ids

-----------------------------------------------------------------------------
(* The steps that move the program on, or change the load, without touching a probe. *)
Control ==
    \/ LoadEnds \/ QueueDrains \/ LoadBegins
    \/ StopLoad \/ BeginDrain \/ ReadTier \/ SkipLoad \/ StopScenario \/ Finish
    \/ SetRate("setTier", "tier", "readTier") \/ SetRate("setOver", "over", "send")
    \/ \E here \in {"send", "drain", "setTier", "setOver"} : Fail(here)

(* The steps of a run, those that touch neither probes nor counters taken together. *)
LEMMA Steps ==
    ASSUME Next
    PROVE  /\ cond' = cond
           /\ \/ Control \/ SendHello \/ EndHandshake \/ SendProbe \/ RecvEcho \/ RecvShort \/ NoEcho
              \/ ~Over /\ \E m \in out : Deliver(m)
              \/ ~Over /\ \E m \in out : Lose(m)
BY DEF Next, Network, Run, Control

(* Setting, reading and stopping the load leave probes and counters alone; a queue comes *)
(* up under a batch only by a late Start.                                                *)
LEMMA ControlEffect ==
    ASSUME TypeOK, Placed, Control
    PROVE  /\ UNCHANGED <<b, i, lastTOS, out, inbox, dups, batchVars, base, queueOK, llResult,
                          tainted, crossed, timely, underLoad, baseFull>>
           /\ queue' \in Queue /\ starting' \in BOOLEAN /\ rate' \in {"zero", "tier", "over"}
           /\ capOK' \in BOOLEAN /\ prompt' \in BOOLEAN /\ (prompt' => prompt)
           /\ at \in {"send", "drain"} /\ prompt' => (queue' # "none" => queue # "none")
           /\ \/ at' = at
              \/ at \in {"send", "drain", "setTier", "setOver"} /\ at' = "failed"
              \/ at = "init" /\ at' = "send"
              \/ at = "send" /\ at' = "drain"
              \/ at = "setTier" /\ at' = "readTier"
              \/ at = "readTier" /\ at' = "setOver"
              \/ at = "setOver" /\ at' = "send"
              \/ at = "stop" /\ at' = "setOver"
              \/ at = "finish" /\ at' = "done"
<1> USE DEF Goto, batchVars, loadVars, resultVars, ghostVars, TypeOK, Queue
<1>1. CASE LoadEnds \/ QueueDrains
  BY <1>1 DEF LoadEnds, QueueDrains
<1>2. CASE LoadBegins
  BY <1>2 DEF LoadBegins
<1>3. CASE BeginDrain
  BY <1>3 DEF BeginDrain
<1>4. CASE ReadTier
  BY <1>4 DEF ReadTier
<1>5. CASE SkipLoad \/ StopLoad \/ StopScenario \/ Finish
  BY <1>5 DEF SkipLoad, StopLoad, StopScenario, Finish, Stop
<1>6. CASE SetRate("setTier", "tier", "readTier") \/ SetRate("setOver", "over", "send")
  <2>1. queue' \in Queue /\ at \notin {"send", "drain"}
    BY <1>6 DEF SetRate
  <2>2. starting' \in BOOLEAN
    BY <1>6, Zenon DEF SetRate
  <2> QED BY <1>6, <2>1, <2>2 DEF SetRate
<1>7. ASSUME NEW here \in {"send", "drain", "setTier", "setOver"}, Fail(here)
      PROVE  /\ UNCHANGED <<b, i, lastTOS, out, inbox, dups, batchVars, queue, starting, base, capOK,
                            queueOK, llResult, tainted, crossed, timely, underLoad, baseFull, prompt>>
             /\ at = here /\ at' = "failed" /\ rate' \in {"zero", "tier", "over"}
  BY <1>7, Zenon DEF Fail
<1> QED BY <1>1, <1>2, <1>3, <1>4, <1>5, <1>6, <1>7 DEF Control

(* A control step leaves what the socket holds as it is. *)
LEMMA ControlAfoot == ASSUME TypeOK, Placed, Control PROVE UNCHANGED <<Ids, Afoot, Kept>>
BY ControlEffect DEF Ids, Afoot, Kept, batchVars

-----------------------------------------------------------------------------
(* A run begins with nothing under way and nothing counted. *)
LEMMA InitIInv == Init => IInv
<1> SUFFICES ASSUME Init PROVE IInv
  OBVIOUS
<1> USE DEF Init
<1>1. cond \in Condition
  BY ConditionsAssumption
<1>2. cond.prog \in Program /\ cond.dup \in Nat
  BY <1>1 DEF Condition
<1>3. inbox \in Seq(Datagram) /\ DOMAIN inbox = {} /\ Ids = {} /\ Afoot = {}
  BY EmptySeq DEF Ids, Afoot
<1>4. TypeOK
  <2>1. queue \in Queue /\ starting \in BOOLEAN /\ base \in Nat
    <3>1. cond.start \in BOOLEAN
      BY <1>1 DEF Condition
    <3> QED BY <3>1 DEF Queue
  <2>2. llResult \in [total : Nat, survived : Nat, own : SUBSET (Nat \X Tos)]
    OBVIOUS
  <2>3. {crossed, timely, underLoad, baseFull, prompt} \subseteq BOOLEAN /\ {capOK, queueOK} \subseteq BOOLEAN
    OBVIOUS
  <2>4. at \in Places /\ b \in Batch /\ i \in Nat /\ dups \in Nat /\ dups <= cond.dup
    BY <1>2 DEF Places, Batch
  <2>5. total \in Nat /\ survived \in 0 .. total /\ queued \in 0 .. total /\ full \in 0 .. queued
    OBVIOUS
  <2>6. rate \in {"zero", "tier", "over"}
    BY <1>2
  <2> QED BY <1>1, <1>3, <2>1, <2>2, <2>3, <2>4, <2>5, <2>6 DEF TypeOK
<1>5. Placed
  BY <1>2, <1>3, LastValue DEF Placed
<1>6. Genuine /\ Once /\ Current
  BY <1>3 DEF Genuine, Once, Current
<1>7. Counted
  BY FS_EmptySet DEF Counted
<1>8. Based
  BY DEF Based
<1>9. Witnessed /\ ClassesApart
  BY <1>3 DEF Witnessed, ClassesApart
<1>10. SurvivalHonest
  <2>1. llResult.survived = 0 /\ llResult.own = {} /\ llResult.total = 0
    OBVIOUS
  <2>2. {o \in llResult.own : o[2] # "notect"} = {}
    BY <2>1
  <2> QED BY <2>1, <2>2, FS_EmptySet DEF SurvivalHonest
<1> QED BY <1>4, <1>5, <1>6, <1>7, <1>8, <1>9, <1>10 DEF IInv

-----------------------------------------------------------------------------
(* What a probe is when it is sent, and what an echo may look like. *)
LEMMA SetTOSValue == \A mark \in Marking : SetTOS(mark) = mark
BY DEF SetTOS

LEMMA MarkType == \A batch, n \in Nat : MarkOf(batch, n) \in Marking
BY DEF MarkOf, LatencyMark, Marking

LEMMA CookieType == Cookie \in Nat \X Nat \X Marking
BY DEF Cookie, Marking

LEMMA ObservedType == \A mark \in Marking : Observed(mark) \subseteq Tos
BY DEF Observed, Marking, Tos

LEMMA AfootType == ASSUME TypeOK PROVE Afoot \subseteq Nat \X Nat \X Marking
<1>1. \A k \in DOMAIN inbox : inbox[k] \in Datagram
  BY DEF TypeOK
<1> QED BY <1>1 DEF TypeOK, Afoot, Ids, Datagram

(* The base line lies within what the samples saw: it is 0 only without samples, and that  *)
(* of a standing queue if every sample saw one.                                          *)
LEMMA BaseRange ==
    ASSUME TypeOK, NEW d \in BaseRTT
    PROVE  /\ d \in Nat /\ (d = 0 \/ d >= Propagation)
           /\ total > 0 /\ full = total => d = Propagation + 2
<1> DEFINE lowest == Propagation + (IF queued < total THEN 0 ELSE IF full < total THEN 1 ELSE 2)
           highest == Propagation + (IF full > 0 THEN 2 ELSE IF queued > 0 THEN 1 ELSE 0)
<1>1. Propagation \in Nat
  BY DelayAssumption
<1>2. total \in Nat /\ queued \in 0 .. total /\ full \in 0 .. queued
  BY DEF TypeOK
<1>3. CASE total = 0
  BY <1>1, <1>3 DEF BaseRTT
<1>4. CASE total > 0
  <2>1. d \in lowest .. highest
    BY <1>2, <1>4 DEF BaseRTT
  <2> QED BY <1>1, <1>2, <1>4, <2>1
<1> QED BY <1>2, <1>3, <1>4

(* The median of the classic batch shows no queue if no sample saw one, or if the base line *)
(* is that of a standing queue.                                                           *)
LEMMA NoStandingQueue ==
    ASSUME TypeOK, base >= Propagation, queued = 0 \/ base = Propagation + 2
    PROVE  ~StandingQueue
<1>1. Propagation \in Nat /\ StandingQueueMin \in Nat \ {0} /\ base \in Nat
  BY DelayAssumption DEF TypeOK
<1>2. total \in Nat /\ queued \in 0 .. total /\ full \in 0 .. queued
  BY DEF TypeOK
<1>3. RTTAtLeast(base + StandingQueueMin) = 0
  BY <1>1, <1>2 DEF RTTAtLeast
<1> QED BY <1>2, <1>3 DEF StandingQueue

(* Counters, marks and places keep their types. *)
LEMMA TypeStep == ASSUME IInv, [Next]_vars PROVE TypeOK'
<1> USE DEF IInv
<1>1. CASE UNCHANGED vars
  BY <1>1 DEF vars, TypeOK, batchVars, loadVars, resultVars, ghostVars
<1> SUFFICES ASSUME Next PROVE TypeOK'
  BY <1>1
<1>2. cond' = cond
  BY Steps
<1>3. CASE Control
  <2>1. at' \in Places
    BY <1>3, ControlEffect DEF Places, TypeOK
  <2> QED BY <1>2, <1>3, <2>1, ControlEffect DEF TypeOK, batchVars, ghostVars
<1>4. CASE SendHello
  BY <1>2, <1>4, CookieType DEF SendHello, Goto, TypeOK, Places, batchVars, loadVars, resultVars, ghostVars
<1>5. CASE EndHandshake
  <2>1. inbox' \in Seq(Datagram)
    BY <1>5, Popped DEF EndHandshake, TypeOK
  <2>2. timely' \in BOOLEAN
    BY <1>5, Zenon DEF EndHandshake
  <2> QED BY <1>2, <1>5, <2>1, <2>2 DEF EndHandshake, Goto, TypeOK, Places, batchVars, loadVars, resultVars
<1>6. CASE SendProbe
  <2>1. lastTOS' \in Marking
    BY <1>6, MarkType, SetTOSValue DEF SendProbe, TypeOK, Batch
  <2>2. <<b, i + 1, lastTOS'>> \in Nat \X Nat \X Marking
    BY <2>1 DEF TypeOK, Batch
  <2> QED BY <1>2, <1>6, <2>1, <2>2 DEF SendProbe, TypeOK, batchVars, loadVars, resultVars, ghostVars
<1>7. CASE RecvEcho
  <2>1. inbox' \in Seq(Datagram) /\ Head(inbox) \in Datagram
    BY <1>7, Popped DEF RecvEcho
  <2> DEFINE e == Head(inbox)
  <2>2. <<e.id[2], e.tos>> \in Nat \X Tos
    BY <2>1 DEF Datagram
  <2>3. own' \subseteq Nat \X Tos /\ tainted' \subseteq Batch
    BY <1>7, <2>2 DEF RecvEcho, TypeOK
  <2>4. total' \in Nat /\ survived' \in 0 .. total' /\ queued' \in 0 .. total' /\ full' \in 0 .. queued'
    BY <1>7 DEF RecvEcho, TypeOK
  <2>5. crossed' \in BOOLEAN /\ underLoad' \in BOOLEAN
    BY <1>7, Zenon DEF RecvEcho
  <2> QED BY <1>2, <1>7, <2>1, <2>3, <2>4, <2>5 DEF RecvEcho, TypeOK, loadVars, resultVars
<1>8. CASE RecvShort
  <2>1. inbox' \in Seq(Datagram)
    BY <1>8, Popped DEF RecvShort
  <2> QED BY <1>2, <1>8, <2>1 DEF RecvShort, Goto, TypeOK, Places, batchVars, loadVars, resultVars, ghostVars
<1>9. CASE NoEcho
  <2>1. b \in 1 .. Last /\ at' \in Places /\ b' \in Batch
    BY <1>9, CondType, LastValue, NextPlace DEF NoEcho, TypeOK, Batch, Placed, NextBatch, Places
  <2>2. llResult' \in [total : Nat, survived : Nat, own : SUBSET (Nat \X Tos)]
    BY <1>9 DEF NoEcho, TypeOK
  <2>3. queueOK' \in BOOLEAN /\ timely' \in BOOLEAN
    <3>1. StandingQueue \in BOOLEAN
      BY DEF StandingQueue
    <3> QED BY <1>9, <3>1 DEF NoEcho, TypeOK
  <2>4. base' \in Nat /\ baseFull' \in BOOLEAN
    BY <1>9, BaseRange DEF NoEcho, TypeOK
  <2> QED BY <1>2, <1>9, <2>1, <2>2, <2>3, <2>4 DEF NoEcho, TypeOK, loadVars
<1>10. ASSUME NEW m \in out, Deliver(m) PROVE TypeOK'
  <2>1. PICK tos \in Observed(m[3]) : inbox' = Append(inbox, [id |-> m, tos |-> tos, queue |-> queue])
    BY <1>10 DEF Deliver
  <2>2. [id |-> m, tos |-> tos, queue |-> queue] \in Datagram
    BY ObservedType DEF TypeOK, Datagram
  <2>3. inbox' \in Seq(Datagram)
    BY <2>1, <2>2, Appended
  <2>4. cond.dup \in Nat
    BY CondType DEF Condition
  <2>5. dups' \in Nat /\ dups' <= cond.dup /\ out' \subseteq out
    BY <1>10, <2>4 DEF Deliver, TypeOK
  <2> QED BY <1>2, <1>10, <2>3, <2>5 DEF Deliver, TypeOK, batchVars, loadVars, resultVars, ghostVars
<1>11. ASSUME NEW m \in out, Lose(m) PROVE TypeOK'
  BY <1>2, <1>11 DEF Lose, TypeOK, batchVars, loadVars, resultVars, ghostVars
<1> QED BY <1>3, <1>4, <1>5, <1>6, <1>7, <1>8, <1>9, <1>10, <1>11, Steps

-----------------------------------------------------------------------------
(* How each step of a probe changes what is afoot. *)
LEMMA HandshakeAfoot ==
    ASSUME TypeOK, Placed, SendHello \/ EndHandshake
    PROVE  b = 1 /\ b' = b /\ Afoot' \subseteq {Cookie} /\ at' \notin {"finish", "done"}
<1>1. CASE SendHello
  BY <1>1 DEF SendHello, Goto, Placed, Afoot, Ids
<1>2. CASE EndHandshake
  <2>1. Ids' \subseteq Ids
    BY <1>2, Popped DEF EndHandshake, Ids
  <2> QED BY <1>2, <2>1 DEF EndHandshake, Goto, Placed, Afoot
<1> QED BY <1>1, <1>2

(* A probe sent is one more under way. *)
LEMMA SentAfoot ==
    ASSUME TypeOK, SendProbe
    PROVE  /\ Afoot' = Afoot \cup {<<b, i + 1, MarkOf(b, i + 1)>>} /\ Ids' = Ids
           /\ out' = out \cup {<<b, i + 1, MarkOf(b, i + 1)>>}
           /\ b \in 1 .. 5 /\ i \in Nat
<1>1. lastTOS' = MarkOf(b, i + 1) /\ b \in 1 .. 5 /\ i \in Nat
  BY MarkType, SetTOSValue DEF SendProbe, TypeOK, Batch
<1> QED BY <1>1 DEF SendProbe, Afoot, Ids

(* What is read from the socket is no longer afoot. *)
LEMMA EchoAfoot ==
    ASSUME TypeOK, RecvEcho \/ RecvShort
    PROVE  Head(inbox).id \in Ids /\ Ids' \subseteq Ids /\ Afoot' \subseteq Afoot /\ out' = out
<1>1. inbox # <<>> /\ inbox' = Tail(inbox) /\ out' = out
  BY DEF RecvEcho, RecvShort
<1> QED BY <1>1, Popped DEF Afoot

(* A datagram delivered moves from the network into the socket. *)
LEMMA DeliveredAfoot ==
    ASSUME TypeOK, NEW m \in out, Deliver(m)
    PROVE  /\ Ids' = Ids \cup {m} /\ Afoot' = Afoot /\ out' \subseteq out
           /\ DOMAIN inbox' = DOMAIN inbox \cup {Len(inbox) + 1} /\ Len(inbox) + 1 \notin DOMAIN inbox
           /\ \A k \in DOMAIN inbox : inbox'[k] = inbox[k]
           /\ \E tos \in Observed(m[3]) :
                 inbox'[Len(inbox) + 1] = [id |-> m, tos |-> tos, queue |-> queue]
<1>1. PICK tos \in Observed(m[3]) : inbox' = Append(inbox, [id |-> m, tos |-> tos, queue |-> queue])
  BY DEF Deliver
<1>2. [id |-> m, tos |-> tos, queue |-> queue] \in Datagram
  BY ObservedType DEF TypeOK, Datagram
<1>3. out' = out \/ out' = out \ {m}
  BY DEF Deliver
<1> QED BY <1>1, <1>2, <1>3, Appended DEF Afoot

LEMMA LostAfoot ==
    ASSUME NEW m \in out, Lose(m) PROVE Ids' = Ids /\ Afoot' \subseteq Afoot /\ out' \subseteq out
BY DEF Lose, Afoot, Ids

(* A batch ends with an empty socket; with a read in time, nothing is under way either. *)
LEMMA DrainedAfoot ==
    ASSUME TypeOK, Placed, NoEcho
    PROVE  /\ Ids = {} /\ Ids' = {} /\ Afoot = out /\ Afoot' = out /\ out' = out
           /\ (timely' => timely /\ out = {}) /\ dups' = dups
           /\ DOMAIN inbox' = {}
           /\ b \in 1 .. Last
           /\ b < Last => b' = b + 1 /\ at' \in {"setTier", "send", "setOver", "stop"}
           /\ b = Last => b' = b /\ at' = "finish"
<1>1. inbox = <<>> /\ inbox' = inbox /\ out' = out
  BY DEF NoEcho, Drained
<1>2. b \in 1 .. Last
  BY CondType, LastValue DEF TypeOK, Placed, Batch
<1>3. timely' => timely /\ out = {}
  BY DEF NoEcho
<1>4. /\ b < Last => b' = b + 1 /\ at' \in {"setTier", "send", "setOver", "stop"}
      /\ b = Last => b' = b /\ at' = "finish"
  BY <1>2, CondType, LastValue, NextPlace DEF NoEcho, NextBatch
<1> QED BY <1>1, <1>2, <1>3, <1>4 DEF NoEcho, Afoot, Ids

LEMMA PlacedStep == ASSUME IInv, [Next]_vars PROVE Placed'
<1> USE DEF IInv
<1>1. CASE UNCHANGED vars
  BY <1>1 DEF vars, Placed, Afoot, Ids, Last, ghostVars
<1> SUFFICES ASSUME Next PROVE Placed'
  BY <1>1
<1>2. cond' = cond /\ Last' = Last
  BY Steps DEF Last
<1>3. CASE Control
  BY <1>2, <1>3, ControlEffect, ControlAfoot, CondType, LastValue
     DEF Placed, TypeOK, Batch, ghostVars
<1>4. CASE SendHello \/ EndHandshake
  BY <1>2, <1>4, HandshakeAfoot, CondType, LastValue
     DEF SendHello, EndHandshake, Goto, Placed, ghostVars
<1>5. CASE SendProbe
  BY <1>2, <1>5 DEF SendProbe, Placed, ghostVars
<1>6. CASE RecvEcho \/ RecvShort
  BY <1>2, <1>6, EchoAfoot DEF RecvEcho, RecvShort, Goto, Placed
<1>7. CASE NoEcho
  <2>1. cond.prog = "validate" => at' # "stop" /\ (at' \in {"setTier", "readTier", "setOver"} => b' = 2)
    BY <1>7, DrainedAfoot, CondType, LastValue, NextPlace DEF NoEcho
  <2> QED BY <1>2, <1>7, <2>1, DrainedAfoot, CondType, LastValue DEF Placed
<1>8. ASSUME NEW m \in out, Deliver(m) PROVE Placed'
  BY <1>2, <1>8, DeliveredAfoot DEF Deliver, Placed, ghostVars
<1>9. ASSUME NEW m \in out, Lose(m) PROVE Placed'
  BY <1>2, <1>9, LostAfoot DEF Lose, Placed, ghostVars
<1> QED BY <1>3, <1>4, <1>5, <1>6, <1>7, <1>8, <1>9, Steps

-----------------------------------------------------------------------------
(* No datagram comes into being but by a probe, and none changes its number. *)
LEMMA GenuineStep == ASSUME IInv, [Next]_vars PROVE Genuine'
<1> USE DEF IInv
<1>1. CASE UNCHANGED vars
  BY <1>1 DEF vars, Genuine, Afoot, Ids, MarkOf
<1> SUFFICES ASSUME Next PROVE Genuine'
  BY <1>1
<1>2. cond' = cond /\ \A batch, n : MarkOf(batch, n)' = MarkOf(batch, n)
  BY Steps DEF MarkOf
<1> DEFINE Sound(m) == m # Cookie => /\ m[1] \in 1 .. b /\ m[3] = MarkOf(m[1], m[2])
                                     /\ m[1] = b /\ at \notin {"finish", "done"} => m[2] <= i
           Seen == \A k \in DOMAIN inbox : inbox[k].tos \in Observed(inbox[k].id[3])
<1>3. /\ \A m \in Afoot : Sound(m)
      /\ Seen
  BY DEF Genuine
<1>4. CASE Control
  BY <1>2, <1>3, <1>4, ControlEffect, ControlAfoot DEF Genuine
<1>5. CASE SendHello \/ EndHandshake
  <2>1. Seen'
    <3>1. CASE SendHello
      BY <3>1, <1>3 DEF SendHello
    <3>2. CASE EndHandshake
      BY <3>2, <1>3, Popped DEF EndHandshake
    <3> QED BY <1>5, <3>1, <3>2
  <2> QED BY <1>5, <2>1, HandshakeAfoot DEF Genuine
<1>6. CASE SendProbe
  <2>1. Seen' /\ b' = b /\ i' = i + 1 /\ at = "send"
    BY <1>3, <1>6 DEF SendProbe
  <2>2. \A m \in Afoot : Sound(m)'
    BY <1>2, <1>3, <2>1, AfootType DEF TypeOK, Batch
  <2>3. \A m \in Afoot' : m \in Afoot \/ (m[1] = b /\ m[2] = i + 1 /\ m[3] = MarkOf(b, i + 1))
    BY <1>6, SentAfoot
  <2>4. \A m \in Afoot' : Sound(m)'
    BY <1>2, <2>1, <2>2, <2>3 DEF TypeOK, Batch
  <2> QED BY <2>1, <2>4 DEF Genuine
<1>7. CASE RecvEcho \/ RecvShort
  <2>1. b' = b /\ i' = i /\ (at' \notin {"finish", "done"} => at \notin {"finish", "done"})
    BY <1>7 DEF RecvEcho, RecvShort, Goto
  <2>2. Seen'
    <3>1. inbox # <<>> /\ inbox' = Tail(inbox)
      BY <1>7 DEF RecvEcho, RecvShort
    <3> QED BY <1>3, <3>1, Popped
  <2>3. \A m \in Afoot' : Sound(m)'
    BY <1>2, <1>3, <1>7, <2>1, EchoAfoot
  <2> QED BY <2>2, <2>3 DEF Genuine
<1>8. CASE NoEcho
  <2>1. Seen'
    BY <1>8, DrainedAfoot
  <2>2. \A m \in Afoot' : Sound(m)'
    <3>1. \A m \in Afoot' : m # Cookie => m[1] \in 1 .. b /\ m[3] = MarkOf(m[1], m[2])'
      BY <1>2, <1>3, <1>8, DrainedAfoot
    <3>2. CASE b = Last
      BY <3>1, <3>2, <1>8, DrainedAfoot
    <3>3. CASE b < Last
      BY <3>1, <3>3, <1>8, DrainedAfoot DEF TypeOK, Batch
    <3>4. b \in 1 .. Last
      BY <1>8, DrainedAfoot
    <3> QED BY <3>2, <3>3, <3>4, CondType, LastValue
  <2> QED BY <2>1, <2>2 DEF Genuine
<1>9. ASSUME NEW m \in out, Deliver(m) PROVE Genuine'
  <2>1. b' = b /\ i' = i /\ at' = at
    BY <1>9 DEF Deliver
  <2>2. Seen'
    <3>1. PICK tos \in Observed(m[3]) :
             inbox'[Len(inbox) + 1] = [id |-> m, tos |-> tos, queue |-> queue]
      BY <1>9, DeliveredAfoot
    <3>2. inbox'[Len(inbox) + 1].tos = tos /\ inbox'[Len(inbox) + 1].id = m
      BY <3>1
    <3>3. \A k \in DOMAIN inbox' : k = Len(inbox) + 1 \/ (k \in DOMAIN inbox /\ inbox'[k] = inbox[k])
      BY <1>9, DeliveredAfoot
    <3> QED BY <1>3, <3>2, <3>3
  <2> QED BY <1>2, <1>3, <1>9, <2>1, <2>2, DeliveredAfoot DEF Genuine
<1>10. ASSUME NEW m \in out, Lose(m) PROVE Genuine'
  <2>1. b' = b /\ i' = i /\ at' = at /\ Seen'
    BY <1>3, <1>10 DEF Lose
  <2> QED BY <1>2, <1>3, <1>10, <2>1, LostAfoot DEF Genuine
<1> QED BY <1>4, <1>5, <1>6, <1>7, <1>8, <1>9, <1>10, Steps

(* A probe that is sent is a new one: everything afoot has a smaller number. *)
LEMMA SentIsNew ==
    ASSUME TypeOK, Genuine, SendProbe
    PROVE  \A m \in Afoot : m # <<b, i + 1, MarkOf(b, i + 1)>> /\ ~(m # Cookie /\ m[1] = b /\ m[2] = i + 1)
<1>1. at = "send" /\ i \in Nat /\ b \in 1 .. 5
  BY DEF SendProbe, TypeOK, Batch
<1>2. \A m \in Afoot : ~(m # Cookie /\ m[1] = b /\ m[2] = i + 1)
  BY <1>1 DEF Genuine
<1>3. <<b, i + 1, MarkOf(b, i + 1)>> # Cookie
  BY <1>1 DEF Cookie
<1> QED BY <1>2, <1>3

(* No step has a datagram in two places, unless it duplicates one. *)
LEMMA OnceStep == ASSUME IInv, [Next]_vars PROVE Once'
<1> USE DEF IInv
<1>1. CASE UNCHANGED vars
  BY <1>1 DEF vars, Once, Afoot, Ids, batchVars
<1> SUFFICES ASSUME Next, dups' = 0
             PROVE  /\ \A k, l \in DOMAIN inbox' : k # l => inbox'[k].id # inbox'[l].id
                    /\ \A k \in DOMAIN inbox' : inbox'[k].id \notin out'
                    /\ \A o \in own' : o[1] <= i' /\ \A m \in Afoot' : m # Cookie /\ m[1] = b' => m[2] # o[1]
  BY <1>1 DEF Once
<1>2. dups = 0
  BY Steps, ControlEffect, CondType
     DEF SendHello, EndHandshake, SendProbe, RecvEcho, RecvShort, NoEcho, Deliver, Lose, TypeOK
<1>3. /\ \A k, l \in DOMAIN inbox : k # l => inbox[k].id # inbox[l].id
      /\ \A k \in DOMAIN inbox : inbox[k].id \notin out
      /\ \A o \in own : o[1] <= i /\ \A m \in Afoot : m # Cookie /\ m[1] = b => m[2] # o[1]
  BY <1>2 DEF Once
<1>4. CASE Control
  BY <1>3, <1>4, ControlEffect, ControlAfoot DEF batchVars
<1>5. CASE SendHello \/ EndHandshake
  <2>1. b' = b /\ i' = i /\ own' = own /\ Afoot' \subseteq {Cookie}
    BY <1>5, HandshakeAfoot DEF SendHello, EndHandshake, batchVars
  <2>2. \A o \in own' : o[1] <= i' /\ \A m \in Afoot' : m # Cookie /\ m[1] = b' => m[2] # o[1]
    BY <1>3, <2>1
  <2>3. CASE SendHello
    <3>1. Ids = {} /\ inbox' = inbox
      BY <2>3 DEF SendHello, Goto, Placed, Afoot
    <3>2. DOMAIN inbox' = {}
      BY <3>1 DEF Ids
    <3> QED BY <2>2, <3>2
  <2>4. CASE EndHandshake
    <3>1. CASE inbox # <<>>
      <4>1. \A k \in DOMAIN inbox' : k \in Int /\ k + 1 \in DOMAIN inbox /\ inbox'[k] = inbox[k + 1]
        BY <2>4, <3>1, Popped, LenProperties DEF EndHandshake
      <4> QED BY <1>3, <2>2, <2>4, <4>1 DEF EndHandshake
    <3>2. CASE inbox = <<>>
      BY <1>3, <2>2, <2>4, <3>2 DEF EndHandshake
    <3> QED BY <3>1, <3>2
  <2> QED BY <1>5, <2>3, <2>4
<1>6. CASE SendProbe
  <2> DEFINE new == <<b, i + 1, MarkOf(b, i + 1)>>
  <2>1. inbox' = inbox /\ own' = own /\ b' = b /\ i' = i + 1 /\ out' = out \cup {new} /\ Afoot' = Afoot \cup {new}
    BY <1>6, SentAfoot DEF SendProbe, batchVars
  <2>2. \A k \in DOMAIN inbox : inbox[k].id \in Afoot
    BY DEF Afoot, Ids
  <2>3. \A k \in DOMAIN inbox' : inbox'[k].id \notin out'
    BY <1>3, <1>6, <2>1, <2>2, SentIsNew
  <2>4. \A o \in own : o[1] \in Nat /\ o[1] <= i + 1 /\ o[1] # i + 1
    BY <1>3 DEF TypeOK
  <2>5. \A o \in own, m \in Afoot' : m # Cookie /\ m[1] = b => m[2] # o[1]
    BY <1>3, <2>1, <2>4
  <2>6. \A k, l \in DOMAIN inbox' : k # l => inbox'[k].id # inbox'[l].id
    BY <1>3, <2>1
  <2> HIDE DEF new
  <2>7. \A o \in own' : o[1] <= i' /\ \A m \in Afoot' : m # Cookie /\ m[1] = b' => m[2] # o[1]
    BY <2>1, <2>4, <2>5
  <2> QED BY <2>3, <2>6, <2>7
<1>7. CASE RecvEcho \/ RecvShort
  <2> DEFINE e == Head(inbox)
  <2>1. inbox # <<>> /\ inbox' = Tail(inbox) /\ out' = out /\ b' = b /\ i' = i
    BY <1>7 DEF RecvEcho, RecvShort
  <2>2. \A k \in DOMAIN inbox' : inbox'[k].id # e.id /\ inbox'[k].id \notin out
    BY <1>3, <2>1, Popped
  <2>3. \A k, l \in DOMAIN inbox' : k # l => inbox'[k].id # inbox'[l].id
    <3>1. \A k \in DOMAIN inbox' : k \in Int
      BY <2>1, Popped, LenProperties
    <3> QED BY <1>3, <2>1, <3>1, Popped
  <2>4. e.id \notin Afoot'
    BY <1>3, <2>1, <2>2, Popped DEF Afoot, Ids
  <2>5. \A o \in own, m \in Afoot' : o[1] <= i /\ (m # Cookie /\ m[1] = b => m[2] # o[1])
    BY <1>3, <1>7, EchoAfoot
  <2>6. CASE RecvEcho /\ e.id[1] = b
    <3>1. own' = own \cup {<<e.id[2], e.tos>>} /\ at = "drain" /\ e.id # Cookie
      BY <2>6 DEF RecvEcho
    <3>2. e.id \in Afoot
      BY <2>6, EchoAfoot DEF Afoot
    <3>3. e.id[2] <= i /\ e.id[3] = MarkOf(b, e.id[2])
      BY <2>6, <3>1, <3>2 DEF Genuine
    <3>4. \A m \in Afoot' : m # Cookie /\ m[1] = b => m[2] # e.id[2]
      <4>1. \A m \in Afoot' : m \in Afoot /\ m # e.id
        BY <1>7, <2>4, EchoAfoot
      <4>2. \A m \in Afoot' : m # Cookie /\ m[1] = b => m[3] = MarkOf(b, m[2])
        BY <4>1 DEF Genuine
      <4>3. \A m \in Afoot : m = <<m[1], m[2], m[3]>>
        BY AfootType
      <4> QED BY <2>6, <3>2, <3>3, <4>1, <4>2, <4>3
    <3>5. \A o \in own' : o \in own \/ o[1] = e.id[2]
      BY <3>1
    <3>6. \A o \in own' : o[1] <= i' /\ \A m \in Afoot' : m # Cookie /\ m[1] = b' => m[2] # o[1]
      BY <1>3, <2>1, <2>5, <3>3, <3>4, <3>5
    <3>7. \A k \in DOMAIN inbox' : inbox'[k].id \notin out'
      BY <2>1, <2>2
    <3> QED BY <2>3, <3>6, <3>7
  <2>7. CASE ~(RecvEcho /\ e.id[1] = b)
    <3>1. own' = own
      BY <1>7, <2>7 DEF RecvEcho, RecvShort, batchVars
    <3>2. \A o \in own' : o[1] <= i' /\ \A m \in Afoot' : m # Cookie /\ m[1] = b' => m[2] # o[1]
      BY <2>1, <2>5, <3>1, <1>3
    <3>3. \A k \in DOMAIN inbox' : inbox'[k].id \notin out'
      BY <2>1, <2>2
    <3> QED BY <2>3, <3>2, <3>3
  <2> QED BY <2>6, <2>7
<1>8. CASE NoEcho
  <2>1. own' = {}
    BY <1>8 DEF NoEcho
  <2> QED BY <1>8, <2>1, DrainedAfoot
<1>9. ASSUME NEW m \in out, Deliver(m)
      PROVE  /\ \A k, l \in DOMAIN inbox' : k # l => inbox'[k].id # inbox'[l].id
             /\ \A k \in DOMAIN inbox' : inbox'[k].id \notin out'
             /\ \A o \in own' : o[1] <= i' /\ \A n \in Afoot' : n # Cookie /\ n[1] = b' => n[2] # o[1]
  <2>1. out' = out \ {m} /\ own' = own /\ b' = b /\ i' = i
    BY <1>2, <1>9 DEF Deliver, batchVars
  <2> DEFINE top == Len(inbox) + 1
  <2>2. /\ DOMAIN inbox' = DOMAIN inbox \cup {top} /\ inbox'[top].id = m /\ Afoot' = Afoot
        /\ \A k \in DOMAIN inbox : inbox'[k] = inbox[k]
    <3>1. PICK tos \in Observed(m[3]) :
             inbox'[Len(inbox) + 1] = [id |-> m, tos |-> tos, queue |-> queue]
      BY <1>9, DeliveredAfoot
    <3>2. inbox'[Len(inbox) + 1].id = m
      BY <3>1
    <3> QED BY <1>9, <3>2, DeliveredAfoot
  <2> HIDE DEF top
  <2>3. \A k \in DOMAIN inbox : inbox[k].id # m
    BY <1>3
  <2> QED BY <1>3, <2>1, <2>2, <2>3
<1>10. CASE \E m \in out : Lose(m)
  <2>1. PICK m \in out : Lose(m)
    BY <1>10
  <2>2. own' = own /\ b' = b /\ i' = i /\ inbox' = inbox
    BY <2>1 DEF Lose, batchVars
  <2> QED BY <1>3, <2>1, <2>2, LostAfoot
<1> QED BY <1>4, <1>5, <1>6, <1>7, <1>8, <1>9, <1>10, Steps

-----------------------------------------------------------------------------
(* What the program finds at the head of the buffer when it counts an echo. *)
LEMMA EchoFacts ==
    ASSUME IInv, RecvEcho, NEW e, e = Head(inbox)
    PROVE  /\ e \in Datagram /\ e = inbox[1] /\ 1 \in DOMAIN inbox
           /\ e.id \in Afoot /\ e.id # Cookie
           /\ e.id[1] \in 1 .. b /\ e.id[3] = MarkOf(e.id[1], e.id[2]) /\ e.tos \in Observed(e.id[3])
           /\ dups = 0 /\ e.id[1] = b => \A o \in own : o[1] # e.id[2]
<1> USE DEF IInv
<1>1. inbox # <<>> /\ inbox' = Tail(inbox) /\ e.id # Cookie
  BY DEF RecvEcho
<1>2. e \in Datagram /\ e = inbox[1] /\ 1 \in DOMAIN inbox
  BY <1>1, Popped
<1>3. e.id \in Afoot
  BY <1>2 DEF Afoot, Ids
<1>4. e.id[1] \in 1 .. b /\ e.id[3] = MarkOf(e.id[1], e.id[2]) /\ e.tos \in Observed(e.id[3])
  BY <1>1, <1>2, <1>3 DEF Genuine
<1>5. dups = 0 /\ e.id[1] = b => \A o \in own : o[1] # e.id[2]
  BY <1>1, <1>3 DEF Once
<1> QED BY <1>1, <1>2, <1>3, <1>4, <1>5

(* No step makes up for a read that timed out early, or for a duplicate. *)
LEMMA Untroubled ==
    ASSUME IInv, Next
    PROVE  /\ timely' => timely
           /\ prompt' => prompt
           /\ dups' = 0 => dups = 0
<1> USE DEF IInv
<1>1. CASE Control
  BY <1>1, ControlEffect DEF ghostVars
<1>2. CASE SendHello \/ EndHandshake
  <2>1. timely /\ dups' = dups /\ prompt' = prompt
    BY <1>2 DEF SendHello, EndHandshake, Goto, Placed, ghostVars
  <2> QED BY <2>1
<1>3. CASE SendProbe \/ RecvEcho \/ RecvShort \/ NoEcho
  <2>1. CASE SendProbe
    BY <2>1 DEF SendProbe, ghostVars
  <2>2. CASE RecvEcho
    BY <2>2 DEF RecvEcho
  <2>3. CASE RecvShort
    BY <2>3 DEF RecvShort, ghostVars
  <2>4. CASE NoEcho
    BY <2>4, DrainedAfoot DEF NoEcho
  <2> QED BY <1>3, <2>1, <2>2, <2>3, <2>4
<1>4. ASSUME NEW m \in out, Deliver(m) \/ Lose(m)
      PROVE  /\ timely' => timely
             /\ prompt' => prompt
             /\ dups' = 0 => dups = 0
  BY <1>4, CondType DEF Deliver, Lose, ghostVars, TypeOK
<1> QED BY <1>1, <1>2, <1>3, <1>4, Steps

(* A batch ends with nothing left, as long as no read times out early. *)
LEMMA CurrentStep == ASSUME IInv, [Next]_vars PROVE Current'
<1> USE DEF IInv
<1>1. CASE UNCHANGED vars
  BY <1>1 DEF vars, Current, Afoot, Ids, ghostVars
<1> SUFFICES ASSUME Next, timely', dups' = 0
             PROVE  /\ \A m \in Afoot' : m # Cookie => m[1] = b'
                    /\ tainted' = {} /\ ~crossed'
  BY <1>1 DEF Current
<1>2. timely /\ dups = 0
  BY Untroubled
<1>3. (\A m \in Afoot : m # Cookie => m[1] = b) /\ tainted = {} /\ ~crossed
  BY <1>2 DEF Current
<1>4. CASE Control
  BY <1>3, <1>4, ControlEffect, ControlAfoot DEF ghostVars
<1>5. CASE SendHello \/ EndHandshake
  <2>1. tainted' = tainted /\ crossed' = crossed
    BY <1>5 DEF SendHello, EndHandshake, ghostVars
  <2> QED BY <1>3, <1>5, <2>1, HandshakeAfoot
<1>6. CASE SendProbe
  <2>1. b' = b /\ tainted' = tainted /\ crossed' = crossed
    BY <1>6 DEF SendProbe, ghostVars
  <2>2. \A m \in Afoot' : m \in Afoot \/ m[1] = b
    BY <1>6, SentAfoot
  <2> QED BY <1>3, <2>1, <2>2
<1>7. CASE RecvEcho
  <2>1. PICK e : e = Head(inbox)
    OBVIOUS
  <2>2. e.id[1] = b /\ MarkOf(b, e.id[2]) = e.id[3] /\ ~(\E o \in own : o[1] = e.id[2])
    BY <1>2, <1>3, <1>7, <2>1, EchoFacts
  <2>3. tainted' = tainted /\ b' = b /\ Afoot' \subseteq Afoot
    BY <1>7, <2>1, <2>2, EchoAfoot DEF RecvEcho
  <2>4. crossed' = (crossed \/ MarkOf(b, e.id[2]) # e.id[3])
    BY <1>7, <2>1, Zenon DEF RecvEcho
  <2> QED BY <1>3, <2>2, <2>3, <2>4
<1>8. CASE RecvShort
  BY <1>3, <1>8, EchoAfoot DEF RecvShort, ghostVars
<1>9. CASE NoEcho
  <2>1. Afoot' = {}
    BY <1>9, DrainedAfoot
  <2> QED BY <1>3, <1>9, <2>1 DEF NoEcho
<1>10. ASSUME NEW m \in out, Deliver(m)
       PROVE  /\ \A n \in Afoot' : n # Cookie => n[1] = b'
              /\ tainted' = {} /\ ~crossed'
  BY <1>3, <1>10, DeliveredAfoot DEF Deliver, ghostVars
<1>11. ASSUME NEW m \in out, Lose(m)
       PROVE  /\ \A n \in Afoot' : n # Cookie => n[1] = b'
              /\ tainted' = {} /\ ~crossed'
  BY <1>3, <1>11, LostAfoot DEF Lose, ghostVars
<1> QED BY <1>4, <1>5, <1>6, <1>7, <1>8, <1>9, <1>10, <1>11, Steps

LEMMA ClassesStep == ASSUME IInv, [Next]_vars PROVE ClassesApart'
<1> USE DEF IInv
<1>1. CASE UNCHANGED vars
  BY <1>1 DEF vars, ClassesApart, ghostVars
<1> SUFFICES ASSUME Next PROVE ClassesApart'
  BY <1>1
<1>2. cond' = cond
  BY Steps
<1>3. CASE timely' /\ dups' = 0
  BY <1>3, CurrentStep DEF Current, ClassesApart
<1>4. CASE cond.prog = "latency" /\ RecvEcho
  <2>1. PICK e : e = Head(inbox)
    OBVIOUS
  <2>2. MarkOf(b, e.id[2]) = e.id[3]
    BY <1>4, <2>1, EchoFacts DEF MarkOf
  <2>3. crossed' = (crossed \/ MarkOf(b, e.id[2]) # e.id[3])
    BY <1>4, <2>1, Zenon DEF RecvEcho
  <2> QED BY <1>4, <2>2, <2>3 DEF ClassesApart
<1>5. CASE cond.prog = "latency" /\ ~RecvEcho
  <2>1. crossed' = crossed
    BY <1>5, Steps, ControlEffect
       DEF SendHello, EndHandshake, SendProbe, RecvShort, NoEcho, Deliver, Lose, ghostVars
  <2> QED BY <1>5, <2>1 DEF ClassesApart
<1>6. CASE ~(cond'.prog = "latency" \/ (timely' /\ dups' = 0))
  BY <1>6 DEF ClassesApart
<1> QED BY <1>2, <1>3, <1>4, <1>5, <1>6

-----------------------------------------------------------------------------
(* RecvEcho counts a mark just when it takes an echo of the batch that kept its own. *)
LEMMA CountedStep == ASSUME IInv, [Next]_vars PROVE Counted'
<1> USE DEF IInv
<1>1. CASE UNCHANGED vars
  BY <1>1 DEF vars, Counted, Kept, batchVars
<1> SUFFICES ASSUME Next PROVE Counted'
  BY <1>1
<1>2. cond' = cond /\ (dups' = 0 => dups = 0)
  BY Steps, Untroubled
<1>3. IsFiniteSet(own) /\ Kept \subseteq own /\ IsFiniteSet(Kept)
  BY FS_Subset DEF Counted, Kept
<1>4. Cardinality(own) \in Nat /\ Cardinality(Kept) \in Nat
  BY <1>3, FS_CardinalityType
<1>5. CASE RecvEcho
  <2>1. PICK e : e = Head(inbox)
    OBVIOUS
  <2> DEFINE new == <<e.id[2], e.tos>>
  <2>2. own' = IF e.id[1] = b THEN own \cup {new} ELSE own
    BY <1>5, <2>1 DEF RecvEcho
  <2>3. IsFiniteSet(own')
    BY <1>3, <2>2, FS_AddElement
  <2>4. ASSUME dups = 0, b = 2, cond.prog # "latency"
        PROVE  survived' = Cardinality(Kept') /\ Cardinality(own') <= total'
    <3>1. survived = Cardinality(Kept) /\ Cardinality(own) <= total /\ total \in Nat
      BY <2>4 DEF Counted, TypeOK
    <3>2. MarkOf(b, e.id[2]) = "ect1"
      BY <2>4 DEF MarkOf
    <3>3. /\ total' = total + 1
          /\ survived' = survived + (IF e.tos \in {"ect1", "ce"} THEN 1 ELSE 0)
      BY <1>5, <2>1, <3>2 DEF RecvEcho, MarkingSurvived
    <3>4. CASE e.id[1] = b
      <4>1. new \notin own
        BY <1>5, <2>1, <2>4, <3>4, EchoFacts
      <4>2. Cardinality(own') = Cardinality(own) + 1
        BY <1>3, <2>2, <3>4, <4>1, FS_AddElement
      <4>3. e.tos \in {"ect1", "ce", "notect"}
        BY <1>5, <2>1, EchoFacts DEF Observed
      <4>4. Kept' = IF e.tos = "notect" THEN Kept ELSE Kept \cup {new}
        BY <2>2, <3>4 DEF Kept
      <4>5. Cardinality(Kept \cup {new}) = Cardinality(Kept) + 1
        BY <1>3, <4>1, FS_AddElement
      <4> QED BY <1>4, <3>1, <3>3, <4>2, <4>3, <4>4, <4>5
    <3>5. CASE e.id[1] # b
      <4>1. e.id[1] = 1 /\ e.id[3] = MarkOf(e.id[1], e.id[2]) /\ e.tos \in Observed(e.id[3])
        BY <1>5, <2>1, <2>4, <3>5, EchoFacts
      <4>2. e.tos = "notect"
        BY <2>4, <4>1 DEF MarkOf, Observed
      <4>3. own' = own /\ Kept' = Kept
        BY <2>2, <3>5 DEF Kept
      <4> QED BY <1>4, <3>1, <3>3, <4>2, <4>3
    <3> QED BY <3>4, <3>5
  <2>5. b' = b
    BY <1>5 DEF RecvEcho
  <2> QED BY <1>2, <2>3, <2>4, <2>5 DEF Counted
<1>6. CASE NoEcho
  <2>1. own' = {} /\ survived' = 0 /\ total' = 0 /\ Kept' = {}
    BY <1>6 DEF NoEcho, Kept
  <2> QED BY <2>1, FS_EmptySet DEF Counted
<1>7. CASE ~RecvEcho /\ ~NoEcho
  <2>1. UNCHANGED batchVars /\ b' = b
    <3>1. CASE Control
      BY <3>1, ControlEffect
    <3>2. CASE SendHello \/ EndHandshake \/ SendProbe \/ RecvShort
      BY <3>2 DEF SendHello, EndHandshake, SendProbe, RecvShort
    <3>3. ASSUME NEW m \in out, Deliver(m) \/ Lose(m) PROVE UNCHANGED batchVars /\ b' = b
      BY <3>3 DEF Deliver, Lose
    <3> QED BY <1>7, <3>1, <3>2, <3>3, Steps
  <2>2. own' = own /\ Kept' = Kept /\ survived' = survived /\ total' = total
    BY <2>1 DEF batchVars, Kept
  <2> QED BY <1>2, <2>1, <2>2 DEF Counted
<1> QED BY <1>5, <1>6, <1>7

(* A share of the echoes counted is at most that of the batch's own, when fewer are its own. *)
LEMMA Share == \A k, n, t \in Nat : n <= t => k * n <= k * t
OBVIOUS

(* The low-latency batch's survival is reported once, from what was counted. *)
LEMMA SurvivalStep == ASSUME IInv, [Next]_vars PROVE SurvivalHonest'
<1> USE DEF IInv
<1>1. CASE UNCHANGED vars
  BY <1>1 DEF vars, SurvivalHonest, resultVars
<1> SUFFICES ASSUME Next, dups' = 0 PROVE SurvivalHonest'
  BY <1>1 DEF SurvivalHonest
<1>2. dups = 0
  BY Untroubled
<1>3. CASE llResult' = llResult
  BY <1>2, <1>3 DEF SurvivalHonest
<1>4. CASE NoEcho /\ b = 2 /\ cond.prog # "latency"
  <2>1. llResult'.total = total /\ llResult'.survived = survived /\ llResult'.own = own
    BY <1>4 DEF NoEcho
  <2>2. IsFiniteSet(own) /\ Kept \subseteq own /\ IsFiniteSet(Kept)
    BY FS_Subset DEF Counted, Kept
  <2>3. Cardinality(own) \in Nat /\ Cardinality(Kept) \in Nat /\ total \in Nat
    BY <2>2, FS_CardinalityType DEF TypeOK
  <2>4. survived = Cardinality(Kept) /\ Cardinality(own) <= total
    BY <1>2, <1>4 DEF Counted
  <2>5. survived * Cardinality(own) <= Cardinality(Kept) * total
    BY <2>3, <2>4, Share
  <2>6. Kept = {o \in llResult'.own : o[2] # "notect"}
    BY <2>1 DEF Kept
  <2> QED BY <2>1, <2>5, <2>6 DEF SurvivalHonest
<1>5. CASE ~(NoEcho /\ b = 2 /\ cond.prog # "latency")
  <2>1. llResult' = llResult
    <3>1. CASE Control
      BY <3>1, ControlEffect
    <3>2. CASE SendHello \/ EndHandshake \/ SendProbe \/ RecvEcho \/ RecvShort
      BY <3>2 DEF SendHello, EndHandshake, SendProbe, RecvEcho, RecvShort, resultVars
    <3>3. CASE NoEcho
      BY <1>5, <3>3 DEF NoEcho
    <3>4. ASSUME NEW m \in out, Deliver(m) \/ Lose(m) PROVE llResult' = llResult
      BY <3>4 DEF Deliver, Lose, resultVars
    <3> QED BY <3>1, <3>2, <3>3, <3>4, Steps
  <2> QED BY <1>3, <2>1
<1> QED BY <1>4, <1>5

-----------------------------------------------------------------------------
(* The base line is taken once, when the baseline ends. *)
LEMMA BasedStep == ASSUME IInv, [Next]_vars PROVE Based'
<1> USE DEF IInv
<1>1. CASE UNCHANGED vars
  BY <1>1 DEF vars, Based, resultVars, ghostVars
<1> SUFFICES ASSUME Next PROVE Based'
  BY <1>1
<1>2. CASE ~NoEcho
  <2>1. UNCHANGED <<b, base, baseFull, queueOK>>
    <3>1. CASE Control
      BY <3>1, ControlEffect
    <3>2. CASE SendHello \/ EndHandshake \/ SendProbe \/ RecvEcho \/ RecvShort
      BY <3>2 DEF SendHello, EndHandshake, SendProbe, RecvEcho, RecvShort, resultVars, ghostVars
    <3>3. ASSUME NEW m \in out, Deliver(m) \/ Lose(m) PROVE UNCHANGED <<b, base, baseFull, queueOK>>
      BY <3>3 DEF Deliver, Lose, resultVars, ghostVars
    <3> QED BY <1>2, <3>1, <3>2, <3>3, Steps
  <2> QED BY <2>1 DEF Based
<1>3. CASE NoEcho
  <2>1. b \in 1 .. 5 /\ b' = (IF b < Last THEN b + 1 ELSE b) /\ Last \in {3, 5}
    <3>1. Last \in {3, 5} /\ b \in 1 .. Last
      BY <1>3, DrainedAfoot, CondType, LastValue
    <3> QED BY <1>3, <3>1, DrainedAfoot
  <2>2. /\ base' \in (IF b = 1 THEN BaseRTT ELSE {base})
        /\ baseFull' = IF b = 1 THEN total > 0 /\ full = total ELSE baseFull
        /\ queueOK' = IF b = 3 THEN StandingQueue ELSE queueOK
    BY <1>3 DEF NoEcho
  <2>3. CASE b = 1
    <3>1. base' \in BaseRTT /\ b' = 2
      BY <2>1, <2>2, <2>3
    <3>2. PICK d \in BaseRTT : d = base'
      BY <3>1
    <3>3. /\ d = 0 \/ d >= Propagation
          /\ total > 0 /\ full = total => d = Propagation + 2
      BY BaseRange
    <3>4. baseFull' = (total > 0 /\ full = total)
      BY <2>2, <2>3
    <3>5. /\ base' = 0 \/ base' >= Propagation
          /\ baseFull' => base' = Propagation + 2
      BY <3>2, <3>3, <3>4
    <3>6. b' # 1 /\ ~(b' >= 4)
      BY <3>1
    <3> QED BY <3>5, <3>6, Zenon DEF Based
  <2>4. CASE b # 1
    <3>1. base' = base /\ baseFull' = baseFull /\ b' # 1
      BY <2>1, <2>2, <2>4
    <3>2. b = 3 /\ baseFull => ~queueOK'
      BY <2>2, NoStandingQueue, DelayAssumption DEF Based
    <3>3. b' >= 4 => b = 3 \/ b >= 4
      BY <2>1
    <3>4. b >= 4 => queueOK' = queueOK
      BY <2>1, <2>2
    <3> QED BY <3>1, <3>2, <3>3, <3>4 DEF Based
  <2> QED BY <2>3, <2>4
<1> QED BY <1>2, <1>3

(* A queue that is gone stays gone until RunFull sets a new rate, or a late Start is handled. *)
LEMMA WitnessedStep == ASSUME IInv, [Next]_vars PROVE Witnessed'
<1> USE DEF IInv
<1>1. CASE UNCHANGED vars
  BY <1>1 DEF vars, Witnessed, Afoot, Ids, batchVars, loadVars, resultVars, ghostVars
<1> DEFINE W == /\ b = 1 => underLoad
                /\ b = 2 /\ at \in {"setTier", "readTier", "setOver"} => underLoad /\ Afoot = {}
                /\ b = 2 /\ at \in {"send", "drain"} /\ queue # "none" =>
                      underLoad /\ \A k \in DOMAIN inbox : inbox[k].queue # "none"
                /\ b = 3 /\ at \in {"send", "drain"} /\ ~underLoad =>
                      queue = "none" /\ queued = 0 /\ \A k \in DOMAIN inbox : inbox[k].queue = "none"
                /\ b >= 4 /\ ~underLoad => ~queueOK \/ base = 0
<1> SUFFICES ASSUME Next, cond'.prog = "validate", timely', dups' = 0, prompt' PROVE W'
  BY <1>1 DEF Witnessed
<1>2. cond' = cond /\ cond.prog = "validate" /\ timely /\ dups = 0 /\ prompt
  BY Steps, Untroubled
<1>3. W
  BY <1>2 DEF Witnessed
<1>4. CASE Control
  <2>1. UNCHANGED <<b, inbox, queued, queueOK, base, underLoad, Afoot>>
    BY <1>4, ControlEffect, ControlAfoot DEF batchVars
  <2>2. /\ at = "init" => b = 1
        /\ at # "stop" /\ (at \in {"setTier", "readTier", "setOver"} => b = 2)
        /\ at \in {"finish", "done"} => b = 5
    BY <1>2, CondType, LastValue DEF Placed
  <2>3. Afoot = {} => DOMAIN inbox = {}
    BY DEF Afoot, Ids
  <2> QED BY <1>2, <1>3, <1>4, <2>1, <2>2, <2>3, ControlEffect
<1>5. CASE SendHello \/ EndHandshake
  <2>1. b = 1 /\ b' = b /\ underLoad' = underLoad
    BY <1>5, HandshakeAfoot DEF SendHello, EndHandshake, ghostVars
  <2> QED BY <1>3, <2>1
<1>6. CASE SendProbe
  <2>1. UNCHANGED <<at, b, inbox, queued, queueOK, base, underLoad, queue>> /\ at = "send"
    BY <1>6 DEF SendProbe, batchVars, loadVars, resultVars, ghostVars
  <2> QED BY <1>3, <2>1
<1>7. CASE RecvEcho
  <2>1. PICK e : e = Head(inbox)
    OBVIOUS
  <2>2. e = inbox[1] /\ 1 \in DOMAIN inbox
    BY <1>7, <2>1, EchoFacts
  <2>3. UNCHANGED <<at, b, queueOK, base, queue>> /\ at = "drain"
    BY <1>7 DEF RecvEcho, loadVars, resultVars
  <2>4. \A k \in DOMAIN inbox' : k + 1 \in DOMAIN inbox /\ inbox'[k] = inbox[k + 1]
    BY <1>7, Popped DEF RecvEcho
  <2>5. underLoad' = (underLoad /\ (b = 2 => e.queue # "none"))
    BY <1>7, <2>1 DEF RecvEcho
  <2>6. e.queue = "none" => queued' = queued
    BY <1>7, <2>1 DEF RecvEcho, TypeOK
  <2>7. CASE b = 2
    <3>1. queue # "none" => /\ e.queue # "none" /\ underLoad
                              /\ \A k \in DOMAIN inbox' : inbox'[k].queue # "none"
      BY <1>3, <2>2, <2>3, <2>4, <2>7
    <3>2. queue # "none" => underLoad'
      BY <2>5, <3>1
    <3> QED BY <2>3, <2>7, <3>1, <3>2
  <2>8. CASE b = 3
    <3>1. underLoad' = underLoad
      BY <2>5, <2>8 DEF TypeOK
    <3>2. ~underLoad => /\ queue = "none" /\ queued' = 0
                          /\ \A k \in DOMAIN inbox' : inbox'[k].queue = "none"
      BY <1>3, <2>2, <2>3, <2>4, <2>6, <2>8
    <3> QED BY <2>3, <2>8, <3>1, <3>2
  <2>9. CASE b \notin {2, 3}
    BY <1>3, <2>3, <2>5, <2>9
  <2> QED BY <2>7, <2>8, <2>9
<1>8. CASE RecvShort
  <2>1. UNCHANGED <<b, queueOK, base, underLoad>> /\ at' = "failed"
    BY <1>8 DEF RecvShort, Goto, resultVars, ghostVars
  <2> QED BY <1>3, <2>1
<1>9. CASE NoEcho
  <2>1. /\ out = {} /\ Afoot' = {} /\ DOMAIN inbox' = {} /\ at = "drain"
        /\ underLoad' = underLoad /\ queue' = queue /\ queued' = 0 /\ (b # 1 => base' = base)
        /\ queueOK' = IF b = 3 THEN StandingQueue ELSE queueOK
    BY <1>9, DrainedAfoot DEF NoEcho, loadVars
  <2>2. b \in 1 .. 5 /\ b' = (IF b < 5 THEN b + 1 ELSE b)
        /\ at' = IF b = 1 THEN "setTier" ELSE IF b < 5 THEN "send" ELSE "finish"
    <3>1. Last = 5 /\ cond.prog \in Program /\ b \in 1 .. 5
      BY <1>2, <1>9, DrainedAfoot, CondType, LastValue
    <3>2. b' = (IF b < 5 THEN b + 1 ELSE b)
      BY <1>9, <3>1, DrainedAfoot
    <3>3. at' = AfterBatch[cond.prog][b]
      BY <1>9 DEF NoEcho
    <3> QED BY <1>2, <3>1, <3>2, <3>3, NextPlace
  <2>3. queued = 0 => ~StandingQueue \/ base = 0
    BY NoStandingQueue DEF Based
  <2>4. CASE b = 1
    BY <1>3, <2>1, <2>2, <2>4
  <2>5. CASE b = 2
    BY <1>3, <2>1, <2>2, <2>5
  <2>6. CASE b = 3
    BY <1>3, <2>1, <2>2, <2>3, <2>6
  <2>7. CASE b \in {4, 5}
    BY <1>3, <2>1, <2>2, <2>7
  <2> QED BY <2>2, <2>4, <2>5, <2>6, <2>7
<1>10. ASSUME NEW m \in out, Deliver(m) PROVE W'
  <2>1. UNCHANGED <<at, b, queued, queueOK, base, underLoad, queue>> /\ Afoot' = Afoot
    BY <1>10, DeliveredAfoot DEF Deliver, loadVars, batchVars, resultVars, ghostVars
  <2>2. PICK tos \in Observed(m[3]) :
           inbox'[Len(inbox) + 1] = [id |-> m, tos |-> tos, queue |-> queue]
    BY <1>10, DeliveredAfoot
  <2>3. inbox'[Len(inbox) + 1].queue = queue
    BY <2>2
  <2>4. \A k \in DOMAIN inbox' : k = Len(inbox) + 1 \/ (k \in DOMAIN inbox /\ inbox'[k] = inbox[k])
    BY <1>10, DeliveredAfoot
  <2> QED BY <1>3, <2>1, <2>3, <2>4
<1>11. ASSUME NEW m \in out, Lose(m) PROVE W'
  <2>1. UNCHANGED <<at, b, inbox, queued, queueOK, base, underLoad, queue>> /\ Afoot' \subseteq Afoot
    BY <1>11, LostAfoot DEF Lose, loadVars, batchVars, resultVars, ghostVars
  <2> QED BY <1>3, <2>1
<1> QED BY <1>4, <1>5, <1>6, <1>7, <1>8, <1>9, <1>10, <1>11, Steps

-----------------------------------------------------------------------------
(* Every step keeps every part of the invariant. *)
LEMMA NextIInv == ASSUME IInv, [Next]_vars PROVE IInv'
BY TypeStep, PlacedStep, GenuineStep, OnceStep, CurrentStep, ClassesStep, CountedStep, SurvivalStep,
   BasedStep, WitnessedStep DEF IInv

(* In every run of every program: what arrives is genuine and in one place, batches    *)
(* start clean while reads are in time, and neither a base line taken in the standing   *)
(* queue nor a low-latency batch outside it passes the gate.                            *)
THEOREM Invariance == Spec => []IInv
<1>1. Init => IInv
  BY InitIInv
<1>2. IInv /\ [Next]_vars => IInv'
  BY NextIInv
<1> QED BY <1>1, <1>2, PTL DEF Spec

(* The program's counters, marks and places keep their types, for every number of probes *)
(* and every combination of faults; survived and queued never exceed the samples.        *)
THEOREM TypeCorrect == Spec => []TypeOK
<1>1. IInv => TypeOK
  BY DEF IInv
<1> QED BY <1>1, Invariance, PTL

(* With reads that time out only when nothing is under way, and nothing duplicated, a    *)
(* batch counts its own probes' echoes only, each once (engine.go:192-208).              *)
THEOREM BatchOwn == Spec => []SamplesOwn
<1>1. IInv => SamplesOwn
  BY DEF IInv, Current, SamplesOwn
<1> QED BY <1>1, Invariance, PTL

(* A sample is counted in the class its probe was sent in, by qoe-latency always, by the *)
(* other programs as long as no echo is late or duplicated (cmd/qoe-latency/main.go:57). *)
THEOREM ClassesKept == Spec => []ClassesApart
<1>1. IInv => ClassesApart
  BY DEF IInv
<1> QED BY <1>1, Invariance, PTL

(* Echoes of other batches, however late, never raise the reported marking survival      *)
(* above the share that survived among the low-latency batch's own (engine.go:196-206).  *)
THEOREM SurvivalNotRaised == Spec => []SurvivalHonest
<1>1. IInv => SurvivalHonest
  BY DEF IInv
<1> QED BY <1>1, Invariance, PTL

(* A run whose whole baseline was taken in the standing queue, because the one Stop      *)
(* before it was lost, late, or followed by a late Start, is not judged: whatever the    *)
(* classic batch saw, its delays over that base line fail the gate (engine.go:111-143).  *)
THEOREM LoadedBaselineFails == Spec => []JudgedFromIdle
<1>1. ASSUME IInv, Judged PROVE ~baseFull
  <2>1. cond.prog = "validate" /\ at = "done" /\ queueOK
    BY <1>1 DEF Judged
  <2>2. b = 5
    BY <1>1, <2>1, CondType, LastValue DEF IInv, Placed
  <2> QED BY <1>1, <2>1, <2>2 DEF IInv, Based
<1>2. IInv => JudgedFromIdle
  BY <1>1 DEF JudgedFromIdle
<1> QED BY <1>2, Invariance, PTL

(* Low latency is judged only if every sample of it met the load's queue, no matter when  *)
(* the load ended or whether its Start was lost: the gate on the classic batch sees it,   *)
(* unless a Start is late or the baseline has no sample (engine.go:111-143).              *)
THEOREM GateWitnesses == Spec => []JudgedUnderLoad
<1>1. ASSUME IInv, Judged, timely, dups = 0, prompt, base > 0 PROVE underLoad
  <2>1. cond.prog = "validate" /\ at = "done" /\ queueOK
    BY <1>1 DEF Judged
  <2>2. b = 5
    BY <1>1, <2>1, CondType, LastValue DEF IInv, Placed
  <2>3. base # 0
    BY <1>1
  <2> QED BY <1>1, <2>1, <2>2, <2>3 DEF IInv, Witnessed
<1>2. IInv => JudgedUnderLoad
  BY <1>1 DEF JudgedUnderLoad
<1> QED BY <1>2, Invariance, PTL
=============================================================================
