------------------------------ MODULE ProbeRun ------------------------------
(***************************************************************************)
(* A run of one of the client's three programs: the handshake, then batches  *)
(* of probes that are sent and drained in turn, with steps of the load       *)
(* controllers in between, over the probe socket UDPConn (udpconn.go) and    *)
(* the network between it and the echoing server.                            *)
(*   validate: qoe-cli -run, Engine.RunFull and BatchProbe (engine.go)       *)
(*   diagnose: qoe-cli without -run (cmd/qoe-cli/main.go)                    *)
(*   latency:  qoe-latency, whose batches mix both markings                  *)
(* Datagrams may be lost; the cookie and the echoes may be late, that is,    *)
(* still under way when the read timeout passes; echoes may be duplicated.   *)
(* What arrives waits in the socket's buffer, across batches.                *)
(*                                                                          *)
(* A load controller is seen as the program sees it: calls that write one    *)
(* unacknowledged Start or Stop each, a reading of the achieved rate, and the *)
(* queue that the flow behind it keeps at the bottleneck. A Start or a Stop   *)
(* may be handled late or never, a flow may end on its own (its deadline, a   *)
(* server restart), and its queue takes its time to drain; the program gets   *)
(* no sign of any of it. DownFlows, DownLoad, PacedFlow and UpLoad model what *)
(* is behind the controller.                                                  *)
(***************************************************************************)
EXTENDS Integers, Sequences, FiniteSets

CONSTANTS
    BaselineProbes,  \* probes of the idle batch
    LoadedProbes,    \* probes of each loaded batch
    ProbesPerClass,  \* probes of each marking in a batch of qoe-latency
    Propagation,     \* RTT of a path without a queue; a draining queue adds 1, a standing one 2
    StandingQueueMin,  \* the least median delay of the classic batch that tells of a queue
    Conditions       \* bound: what may go wrong together in one run, see Condition

(* validate: baseline, low-latency, classic, solo, with-LL; diagnose: the first three; *)
(* latency: idle, and two kinds of load in each direction.                             *)
Batch == 1 .. 5
Program == {"validate", "diagnose", "latency"}

ASSUME ProbesAssumption == {BaselineProbes, LoadedProbes, ProbesPerClass} \subseteq Nat \ {0}
ASSUME DelayAssumption == {Propagation, StandingQueueMin} \subseteq Nat \ {0}
(* late: the batches whose echoes may still be under way when a read times out (0     *)
(* stands for the handshake and its cookie); dup: how many echoes are duplicated; die: *)
(* the batches during which the load's flow may die by itself; start: whether a Start  *)
(* may be lost or handled late; io: whether a send, a read or a load request may fail.  *)
Condition == [prog : Program, late : SUBSET ({0} \cup Batch), dup : Nat,
              die : SUBSET Batch, start : BOOLEAN, io : BOOLEAN]
ASSUME ConditionsAssumption == Conditions \subseteq Condition

VARIABLES
    cond,      \* the conditions of this run
    at,        \* where the run is, see Places
    b,         \* the batch being run or about to be run
    i,         \* probes of it sent so far
    lastTOS,   \* the TOS the probe socket was last set to; "unset" is -1
    out,       \* probes <<batch, number, TOS>> whose echo is under way; Cookie for the cookie
    inbox,     \* the socket's receive buffer
    dups,      \* echoes duplicated so far
    total, survived,  \* BatchProbe's counters for the batch
    queued, full,  \* classic samples of the batch that saw a queue, and a standing one
    own,       \* the batch's own echoes counted so far: number and observed mark
    tainted,   \* batches that counted another batch's echo, or one echo twice
    crossed,   \* an echo was counted in a class whose mark its probe did not carry
    timely,    \* no read has timed out with something still under way
    rate,      \* the load: the rate last asked for
    queue,     \* its queue at the bottleneck: "standing" while its flow is alive, then "draining"
    starting,  \* a Start of it may still be under way, after the pause meant for it
    base,      \* the base line, baseRTT
    capOK, queueOK,  \* the validity gates
    llResult,  \* total and survived of the low-latency batch, and its own echoes
    underLoad, \* every sample of the low-latency batch saw a queue of the load
    baseFull,  \* the baseline had samples, and every one saw a standing queue
    prompt     \* no Start was handled after the pause meant for it

batchVars == <<total, survived, queued, full, own>>
loadVars == <<rate, queue, starting>>
resultVars == <<base, capOK, queueOK, llResult>>
ghostVars == <<tainted, crossed, timely, underLoad, baseFull, prompt>>
vars == <<cond, at, b, i, lastTOS, out, inbox, dups, batchVars, loadVars, resultVars, ghostVars>>

Places == {"hello", "handshake", "init", "send", "drain", "setTier", "readTier",
           "setOver", "stop", "finish", "done", "failed"}

Marking == {"notect", "ect1"}
Tos == Marking \cup {"ce"}
Cookie == <<0, 0, "notect">>  \* what belongs to no batch
Queue == {"none", "draining", "standing"}

(* A datagram received, and the queue of the load it met at the bottleneck. *)
Datagram == [id : Nat \X Nat \X Marking, tos : Tos, queue : Queue]

TypeOK ==
    /\ cond \in Conditions
    /\ at \in Places /\ b \in Batch /\ i \in Nat /\ dups \in Nat /\ dups <= cond.dup
    /\ lastTOS \in Marking \cup {"unset"}
    /\ out \subseteq Nat \X Nat \X Marking
    /\ inbox \in Seq(Datagram)
    /\ total \in Nat /\ survived \in 0 .. total
    /\ queued \in 0 .. total /\ full \in 0 .. queued
    /\ own \subseteq (Nat \X Tos) /\ tainted \subseteq Batch
    /\ {crossed, timely, underLoad, baseFull, prompt} \subseteq BOOLEAN
    /\ rate \in {"zero", "tier", "over"} /\ queue \in Queue /\ starting \in BOOLEAN
    /\ base \in Nat /\ {capOK, queueOK} \subseteq BOOLEAN
    /\ llResult \in [total : Nat, survived : Nat, own : SUBSET (Nat \X Tos)]

(* Before a validation an earlier run may have left the load on, or its Start under way. *)
Init ==
    /\ cond \in Conditions
    /\ at = "hello" /\ b = 1 /\ i = 0 /\ lastTOS = "unset" /\ out = {} /\ inbox = <<>> /\ dups = 0
    /\ total = 0 /\ survived = 0 /\ queued = 0 /\ full = 0 /\ own = {}
    /\ tainted = {} /\ crossed = FALSE /\ timely = TRUE
    /\ underLoad = TRUE /\ baseFull = FALSE /\ prompt = TRUE
    /\ rate \in IF cond.prog = "validate" THEN {"zero", "over"} ELSE {"zero"}
    /\ queue \in IF rate = "over" THEN {"none", "standing"} ELSE {"none"}
    /\ starting \in IF rate = "over" THEN {FALSE, cond.start} ELSE {FALSE}
    /\ base = 0 /\ capOK = FALSE /\ queueOK = FALSE
    /\ llResult = [total |-> 0, survived |-> 0, own |-> {}]

-----------------------------------------------------------------------------
(* <definition>_<fault>: faulty variants, which the properties must tell apart. *)

(* qoe-latency mixes the classes: odd numbers low-latency, even ones classic. *)
LatencyMark(n) == IF n % 2 = 1 THEN "ect1" ELSE "notect"

(* The marking a program gives the n-th probe of a batch, and takes an echo of that number *)
(* for: elsewhere only the second batch carries LLMark, ECT(1) and NQB.                    *)
MarkOf(batch, n) ==
    IF cond.prog = "latency" THEN LatencyMark(n)
    ELSE IF batch = 2 THEN "ect1" ELSE "notect"

Probes(batch) == IF cond.prog = "latency" THEN 2 * ProbesPerClass
                 ELSE IF batch = 1 THEN BaselineProbes ELSE LoadedProbes

(* What the path may make of a mark: keep it, signal congestion on it, bleach it. *)
Observed(mark) == IF mark = "ect1" THEN {"ect1", "ce", "notect"} ELSE {"notect"}

MarkingSurvived_Any(mark, tos) == TRUE

(* The ECT(1) bit is there; CE, 0b11, has it too. *)
MarkingSurvived(mark, tos) == mark = "notect" \/ tos \in {"ect1", "ce"}

(* The network delivers an echo or the cookie, once or (dups) again, or loses it. *)
Deliver(m) ==
    /\ \/ out' = out \ {m} /\ dups' = dups
       \/ m # Cookie /\ dups < cond.dup /\ dups' = dups + 1 /\ out' = out
    /\ \E tos \in Observed(m[3]) :
          inbox' = Append(inbox, [id |-> m, tos |-> tos, queue |-> queue])
    /\ UNCHANGED <<at, b, i, lastTOS, batchVars, loadVars, resultVars, ghostVars>>

Lose(m) ==
    /\ out' = out \ {m}
    /\ UNCHANGED <<at, b, i, lastTOS, inbox, dups, batchVars, loadVars, resultVars, ghostVars>>

(* The flow behind the load controller ends: its Stop is handled, it meets its deadline, *)
(* it dies on its own, or an old Start replaces it. The program has no sign of it.        *)
LoadEnds ==
    /\ queue = "standing" /\ queue' = "draining"
    /\ rate = "zero" \/ starting \/ (at \in {"send", "drain"} /\ b \in cond.die)
    /\ UNCHANGED <<at, b, i, lastTOS, out, inbox, dups, batchVars, rate, starting, resultVars, ghostVars>>

QueueDrains ==
    /\ queue = "draining" /\ queue' = "none"
    /\ UNCHANGED <<at, b, i, lastTOS, out, inbox, dups, batchVars, rate, starting, resultVars, ghostVars>>

(* A late Start is handled, perhaps after the Stop that was written after it. *)
LoadBegins ==
    /\ starting /\ starting' = FALSE
    /\ queue # "standing" /\ queue' = "standing"
    /\ prompt' = FALSE
    /\ UNCHANGED <<at, b, i, lastTOS, out, inbox, dups, batchVars, rate, resultVars,
                   tainted, crossed, timely, underLoad, baseFull>>

-----------------------------------------------------------------------------
(* A socket error, or a SetRateBps that could stop the old flow but not start the new, *)
(* ends the run; RunFull returns without stopping the load.                           *)
Fail(here) ==
    /\ cond.io
    /\ at = here
    /\ at' = "failed"
    /\ rate' = IF here \in {"setTier", "setOver"} THEN "zero" ELSE rate
    /\ UNCHANGED <<b, i, lastTOS, out, inbox, dups, batchVars, queue, starting, resultVars, ghostVars>>

Goto(here, there) == at = here /\ at' = there

(* UDPConn.Handshake: send the Hello ... *)
SendHello ==
    /\ Goto("hello", "handshake")
    /\ out' = {Cookie}
    /\ UNCHANGED <<b, i, lastTOS, inbox, dups, batchVars, loadVars, resultVars, ghostVars>>

(* ... and read the cookie, or time out; the client continues with probes anyway. *)
EndHandshake ==
    /\ Goto("handshake", IF cond.prog = "validate" THEN "init" ELSE "send")
    /\ \/ inbox # <<>> /\ inbox' = Tail(inbox)
       \/ inbox = <<>> /\ inbox' = inbox /\ (Cookie \in out => 0 \in cond.late)
    /\ timely' = (inbox # <<>> \/ out = {})
    /\ UNCHANGED <<b, i, lastTOS, out, dups, batchVars, loadVars, resultVars,
                   tainted, crossed, underLoad, baseFull, prompt>>

(* Stop writes one datagram and waits for no answer: the flow and its queue live on until *)
(* it is handled, LoadEnds.                                                               *)
Stop(here, there) ==
    /\ Goto(here, there)
    /\ rate' = "zero"
    /\ UNCHANGED <<b, i, lastTOS, out, inbox, dups, batchVars, queue, starting, resultVars, ghostVars>>

(* RunFull begins with Load.Stop(): an earlier run may have left the load on. *)
StopLoad == Stop("init", "send")

SetTOS_Once(mark) == IF lastTOS = "unset" THEN mark ELSE lastTOS

(* The socket's TOS is set when it is not yet the probe's. *)
SetTOS(mark) == IF mark # lastTOS THEN mark ELSE lastTOS

(* BatchProbe or probe sends the batch in one go, each probe with the socket's TOS ... *)
SendProbe ==
    /\ at = "send" /\ i < Probes(b)
    /\ i' = i + 1
    /\ lastTOS' = SetTOS(MarkOf(b, i + 1))
    /\ out' = out \cup {<<b, i + 1, lastTOS'>>}
    /\ UNCHANGED <<at, b, inbox, dups, batchVars, loadVars, resultVars, ghostVars>>

BeginDrain ==
    /\ i = Probes(b)
    /\ Goto("send", "drain")
    /\ UNCHANGED <<b, i, lastTOS, out, inbox, dups, batchVars, loadVars, resultVars, ghostVars>>

(* ... and then counts every echo it reads, whichever probe it answers. *)
RecvEcho ==
    /\ at = "drain" /\ inbox # <<>> /\ Head(inbox).id # Cookie
    /\ LET e == Head(inbox)
           class == MarkOf(b, e.id[2])
       IN
       /\ inbox' = Tail(inbox)
       /\ total' = total + 1
       /\ survived' = survived + (IF MarkingSurvived(class, e.tos) THEN 1 ELSE 0)
       /\ queued' = queued + (IF e.queue # "none" /\ e.id[3] = "notect" THEN 1 ELSE 0)
       /\ full' = full + (IF e.queue = "standing" /\ e.id[3] = "notect" THEN 1 ELSE 0)
       /\ crossed' = (crossed \/ class # e.id[3])
       /\ own' = IF e.id[1] = b THEN own \cup {<<e.id[2], e.tos>>} ELSE own
       /\ tainted' = IF e.id[1] # b \/ \E o \in own : o[1] = e.id[2]
                     THEN tainted \cup {b} ELSE tainted
       /\ underLoad' = (underLoad /\ (b = 2 => e.queue # "none"))
    /\ UNCHANGED <<at, b, i, lastTOS, out, dups, loadVars, resultVars, timely, baseFull, prompt>>

(* The late cookie is too short for an echo: an error, which ends the run. *)
RecvShort ==
    /\ inbox # <<>> /\ Head(inbox).id = Cookie
    /\ Goto("drain", "failed")
    /\ inbox' = Tail(inbox)
    /\ UNCHANGED <<b, i, lastTOS, out, dups, batchVars, loadVars, resultVars, ghostVars>>

(* BaseRTT is a low percentile: between the lowest and the highest sample, and 0 for none. *)
BaseRTT ==
    LET lowest == Propagation + (IF queued < total THEN 0 ELSE IF full < total THEN 1 ELSE 2)
        highest == Propagation + (IF full > 0 THEN 2 ELSE IF queued > 0 THEN 1 ELSE 0)
    IN IF total = 0 THEN {0} ELSE lowest .. highest

(* How many samples of the batch have at least this RTT. *)
RTTAtLeast(d) ==
    IF d <= Propagation THEN total
    ELSE IF d <= Propagation + 1 THEN queued
    ELSE IF d <= Propagation + 2 THEN full ELSE 0

StandingQueue_Assumed == TRUE

StandingQueue_Raw == 2 * (total - RTTAtLeast(StandingQueueMin)) < total

(* The median of the classic batch's delays over the base line shows the queue (an empty *)
(* histogram's is 0).                                                                     *)
StandingQueue == 2 * (total - RTTAtLeast(base + StandingQueueMin)) < total

ValidateSteps_Again == <<"setTier", "send", "send", "send", "send">>

(* What follows each batch of a program. Readings of the achieved rate that only end up *)
(* in a ratio or in the output are left out: no property depends on them.               *)
ValidateSteps == <<"setTier", "send", "send", "send", "finish">>

DiagnoseSteps == <<"setOver", "send", "finish">>

LatencySteps == <<"setOver", "stop", "stop", "stop", "finish">>

AfterBatch == [validate |-> ValidateSteps, diagnose |-> DiagnoseSteps, latency |-> LatencySteps]

Last == Len(AfterBatch[cond.prog])

NextBatch_PastEnd == b + 1

NextBatch == IF b < Last THEN b + 1 ELSE b

Drained_Early == \A m \in out : m[1] \in cond.late

(* The read timed out: nothing has arrived, and what is under way is late. *)
Drained == inbox = <<>> /\ \A m \in out : m[1] \in cond.late

(* RecvEcho returns ErrNoEcho: the batch is taken to be drained. *)
NoEcho ==
    /\ at = "drain" /\ Drained
    /\ at' = AfterBatch[cond.prog][b]
    /\ b' = NextBatch
    /\ i' = 0 /\ total' = 0 /\ survived' = 0 /\ queued' = 0 /\ full' = 0 /\ own' = {}
    /\ llResult' = IF b = 2 /\ cond.prog # "latency"
                   THEN [total |-> total, survived |-> survived, own |-> own]
                   ELSE llResult
    /\ base' \in IF b = 1 THEN BaseRTT ELSE {base}
    /\ baseFull' = IF b = 1 THEN total > 0 /\ full = total ELSE baseFull
    /\ queueOK' = IF b = 3 THEN StandingQueue ELSE queueOK
    /\ timely' = (timely /\ out = {})
    /\ UNCHANGED <<lastTOS, out, inbox, dups, loadVars, capOK, tainted, crossed, underLoad, prompt>>

(* SetRateBps stops the old flow and starts the new one, and the program pauses for it to *)
(* build its queue; but what it writes is not acknowledged, and may be handled later.     *)
SetRate(here, r, there) ==
    /\ Goto(here, there)
    /\ rate' = r
    /\ \/ queue' = "standing" /\ starting' = starting
       \/ cond.start /\ queue' = queue /\ starting' = TRUE
    /\ UNCHANGED <<b, i, lastTOS, out, inbox, dups, batchVars, resultVars, ghostVars>>

(* A diagnosis without load. *)
SkipLoad ==
    /\ cond.prog = "diagnose"
    /\ Goto("setOver", "send")
    /\ UNCHANGED <<b, i, lastTOS, out, inbox, dups, batchVars, loadVars, resultVars, ghostVars>>

(* qoe-latency stops each load and pauses before the next. *)
StopScenario == Stop("stop", "setOver")

(* After LoadSettle the achieved rate is read, whatever the path has made of it. *)
ReadTier ==
    /\ Goto("readTier", "setOver")
    /\ capOK' \in BOOLEAN
    /\ UNCHANGED <<b, i, lastTOS, out, inbox, dups, batchVars, loadVars, base, queueOK, llResult, ghostVars>>

(* The load is stopped; the verdict or the output follows. *)
Finish == Stop("finish", "done")

(* Evaluate judges the numbers only when both gates hold (verdict.go:57-83). *)
Judged == cond.prog = "validate" /\ at = "done" /\ capOK /\ queueOK

-----------------------------------------------------------------------------
Over == at \in {"done", "failed"}

(* Nobody reads the socket once the run is over. *)
Network == ~Over /\ (LoadEnds \/ QueueDrains \/ LoadBegins \/ \E m \in out : Deliver(m) \/ Lose(m))

Run ==
    \/ SendHello \/ EndHandshake \/ StopLoad
    \/ SendProbe \/ BeginDrain \/ RecvEcho \/ RecvShort \/ NoEcho
    \/ SetRate("setTier", "tier", "readTier") \/ ReadTier
    \/ SetRate("setOver", "over", "send") \/ SkipLoad \/ StopScenario
    \/ Finish
    \/ \E here \in {"send", "drain", "setTier", "setOver"} : Fail(here)

Next == (Network \/ Run) /\ UNCHANGED cond

Spec == Init /\ [][Next]_vars

(* The client's one goroutine runs; every datagram is delivered or lost in the end. *)
Fairness == /\ WF_vars(Run /\ UNCHANGED cond)
            /\ WF_vars(~Over /\ (\E m \in out : Deliver(m) \/ Lose(m)) /\ UNCHANGED cond)

FairSpec == Spec /\ Fairness

-----------------------------------------------------------------------------
(* With reads that time out only when nothing is under way any more, and nothing     *)
(* duplicated, a batch counts its own probes' echoes only, each once: reading them   *)
(* without a look at their numbers is right so far (engine.go:192-208).              *)
SamplesOwn == timely /\ dups = 0 => tainted = {}

(* A sample is counted in the class its probe was sent in: qoe-latency, which tells    *)
(* them apart by number (main.go:57), keeps this also for echoes of other batches;     *)
(* BatchProbe, which takes every echo for one of its own, as long as none is late or    *)
(* duplicated. That a probe carries its mark at all rests on the cached TOS of the     *)
(* socket (udpconn.go:128-133), which qoe-latency changes with every probe.            *)
ClassesApart == cond.prog = "latency" \/ (timely /\ dups = 0) => ~crossed

(* Late echoes of other batches can only lower the reported marking survival: when   *)
(* none is duplicated it never exceeds the share of marks that survived among the    *)
(* low-latency batch's own echoes.                                                  *)
SurvivalHonest ==
    LET kept == {o \in llResult.own : o[2] # "notect"}
    IN dups = 0 =>
        llResult.survived * Cardinality(llResult.own) <= Cardinality(kept) * llResult.total

(* "Any condition that makes the measurement untrustworthy MUST surface as           *)
(* inconclusive" (ENGINEERING.md:75-78), as far as the gate on the classic batch      *)
(* carries: low latency is judged only if all its samples met the load's queue, no     *)
(* matter when the load ended or whether its Start was lost. Left out are runs in      *)
(* which late or duplicated echoes fill the classic batch, a Start is handled only     *)
(* after its pause, between the two batches, or every baseline sample was lost, when   *)
(* the base line is 0 and propagation passes for a queue (stats.go:11-13). The no-harm *)
(* batches come after the gate, and are not covered (engine.go:143-160).               *)
JudgedUnderLoad == Judged /\ timely /\ dups = 0 /\ prompt /\ base > 0 => underLoad

(* RunFull goes on to the baseline without a sign that the load it stopped is gone     *)
(* (engine.go:111-114): its one Stop may be lost or late, and the queue takes time to   *)
(* drain. A run whose whole baseline was taken in the standing queue is not judged: its *)
(* base line hides the queue from the classic batch, and the gate fails.               *)
JudgedFromIdle == Judged /\ timely /\ dups = 0 => ~baseFull

(* "Per-seq matching with max-wait; [...] reorders handled" (spec.md:74): a batch   *)
(* counts its own probes' echoes only, each once, late or not.                      *)
SamplesMatched == tainted = {}

(* "handshake failed (continuing with probes)" (main.go:73-75): a run without I/O    *)
(* errors is not aborted.                                                            *)
NotAborted == at # "failed"

(* A run ends, with a verdict or an error. *)
Terminates == <>Over
=============================================================================
