# QoE test harness: TLA+ specifications

This directory holds a formal model of the QoE test harness: TLA+ modules for the
UDP measurement server, the client's load controllers and programs, the verdict,
and the dashboard with its run stores; TLC configurations that check them on small instances;
and proofs, checked by TLAPS, of the safety properties that matter most.

`tlc -config X.cfg M` runs a check, `tlapm M_proofs.tla` checks a proof module.
`PROJECT.json` is the index: components, runs, the source lines behind every
definition, the hazards of the code and the properties that cover them.

## 1. Inventory

| Component | State it keeps | Operations | Talks to |
|---|---|---|---|
| Server, downstream (`server/server.go`) | `downs`: one flow per source ip:port under `dmu`; a context, timer and goroutine per flow | `handle` → `sendCookie`, `onStart`, `onStop`; `downLoop`; `Serve`, `Close` | clients by UDP; `Pacer` |
| Server, upstream | `loads`: bytes and last report time per source under `lmu` | `onLoad` | `UDPLoad` by UDP |
| Server, probes | none | `echoProbe`: echo with observed TOS | `UDPConn` by UDP |
| `UDPDownLoad` (`core/net/udpdown.go`) | cached cookie, cancel function, achieved rate, one goroutine | `SetRateBps`, `Stop`, `Close`, `AchievedBps`, `handshake`, `recvLoop` | engine (calls), server (UDP) |
| `UDPLoad` (`core/net/udpload.go`) | cancel function, achieved rate, two goroutines | `SetRateBps`, `Stop`, `Close`, `AchievedBps`, `sendLoop`, `recvLoop` | engine, server |
| `UDPConn` (`core/net/udpconn.go`) | socket, its buffer, last TOS | `Handshake`, `SendProbe`, `RecvEcho` | engine, server |
| `Pacer`, `Meter` (`core/net/pace.go`) | start time, packets sent / bytes | `Due`, `MarkSent` / `Add`, `Bps`, `Reset` | both sending loops / `UDPDownLoad` |
| Engine (`core/engine`) | one run's locals | `RunFull`, `BatchProbe`, `histBatch` | the two interfaces of `core/net/conn.go`, `compute` |
| Compute (`core/compute`) | histograms | `Observe`, `Merge`, `Quantile`, `CDF`, `BaseRTT`, `WorkingDelta`, `Evaluate` | pure |
| Protocol (`core/protocol`) | none | codecs, `MakeCookie`, `VerifyCookie` | pure |
| Loopback (`core/net/loopback.go`) | queue of echoes, load | a test double of socket and load | engine tests |
| Report, storage (`storage/`) | run id → report, in a map or in rows with columns | `Save`, `List` with a `Filter` | dashboard; PostgreSQL |
| Dashboard (`dashboard/`) | none but the store | `ingest`, `apiRuns`, `apiCDF`; in the page `refresh()` | clients and browsers by HTTP |
| Command line clients, render | none | three programs: `-run`, a diagnosis, `qoe-latency`; `submit`; text or JSON | all of the above |

Clients and server meet only in datagrams: HELLO/COOKIE (return routability),
START/STOP (a downstream flow), LOAD/LOADSTAT (upstream load and its tally),
PROBE/ECHO. Nothing is acknowledged or retransmitted. Inside the server, `Serve`
handles datagrams one at a time, one goroutine per flow sends, timers cancel
contexts and `Close` may come from any goroutine. Inside a client the engine is
sequential; each controller adds goroutines that `Stop` cancels and waits for.

What is hard, and what makes each part correct:

* **Flow registry.** Replacement, Stop, expiry and the deferred clean-up of an old
  flow interleave. *A live flow is always reachable through the registry; the
  registry has no dead entries; no flow without a cookie; every flow ends.*
* **Pacing.** Ticks are dropped, goroutines stall, writes fail. *Never more than
  the granted rate; one Start is bounded; lost time is made up for.*
* **Upstream measurement.** The rate is the difference of two reports that may be
  lost, late, repeated, overtaken, or separated by a restart. *It never claims
  bytes that did not arrive; reports are rate-limited; Stop is final.*
* **Downstream control.** START and STOP may be lost, repeated or overtaken.
  *Client and server agree once the latest datagram got through; a stopped client
  is not sent a flow for ever; calls return.*
* **A run.** A batch is drained until a read times out; late echoes and a late
  cookie stay in the socket; the load is started and stopped by single datagrams that may
  be lost or late, may die on its own, and its queue takes time to drain. *Samples belong to
  their batch; a judged run was under load, and its baseline was not; runs end.*
* **The fleet.** Submissions break off after they were stored, processes restart, and a
  page asks twice while others submit and its user types. *What was acknowledged stays;
  both stores answer alike; the two halves of a page belong together.*
* **The verdict.** Binned counts stand for samples. *The estimate is in the bin of
  the true quantile; a pass is true of the samples; a worse delay never earns one.*

## 2. Modules

| Module | Models | Proofs |
|---|---|---|
| `FlowGrants` | abstract promise: a source holds at most one flow, only for a proven address, and a flow that is over never returns | `FlowGrants_proofs` |
| `DownFlows` | cookie gate, `downs`, flow goroutines, `Serve`, `Close`; refines `FlowGrants` | `DownFlows_proofs` |
| `PacedFlow` | one sending goroutine (`downLoop`, `sendLoop`) over `Pacer` | `PacedFlow_proofs` |
| `UpLoad` | `UDPLoad`, `onLoad`, the network between them | `UpLoad_proofs` |
| `DownLoad` | `UDPDownLoad` with its meter, the network, the server's registry for one source | `DownLoad_proofs` |
| `ProbeRun` | the three client programs over `BatchProbe`, `UDPConn` and the network | `ProbeRun_proofs` |
| `Histogram` | pure: bins, merge, quantile, CDF, base line, working delta | `Verdict_proofs` |
| `Verdict` | histograms fed sample by sample, `Evaluate`, and the technician's checklist | `Verdict_proofs` |
| `RunFilter` | pure: `Filter` | – |
| `RunList` | abstract promise: what a run store is | `Dashboard_proofs` |
| `RunStore` | `Memory` and `Postgres`: `Save`, `List` | `Dashboard_proofs` |
| `Dashboard` | `submit`, the handlers over `RunStore`, the page; refines `RunList` | `Dashboard_proofs` |
| `MCDownFlows`, `MCProbeRun`, `MCVerdict`, `MCDashboard` | values of constants for TLC | |

In every module an operator `Name_Fault` is a faulty variant of `Name` (a dropped
guard, a missing reset, an off-by-one); it is not part of the specification and
documents which mistake each property can see.

**DownFlows.** `downs` is the map; `ctx[f]` the context of flow `f` (none, live,
done); `pc[f]` the place of its goroutine. `RecvStart`, `Register`, `Spawn` are the
three steps of a Start that other goroutines can see between: `WithTimeout` and
`onStart`'s checks, the `dmu` section of `startDown`, and the `go` statement. `AtRead` says
that `Serve` is between datagrams. `Retire` is the deferred function of
`downLoop`, `Unlinked` its identity check. `CloseSweep` and `CloseConn` are the two
steps of `Close`. A datagram that fails a check changes nothing and has no action.
The keyed hash of the cookie is taken to be injective, and a client presents only
a cookie that was issued or bytes that are nobody's.

**PacedFlow.** Time is counted in ticks and passes at any point. `Target` is the
integer division of `Pacer.Due`; `EndBatch` is `MarkSent(due)`, also after the
`break` of a failed write. A server flow has a deadline, a client flow has none.

**UpLoad.** Any report ever sent may be delivered at any time and any number of
times, which covers loss, delay, duplication and reordering. Each report carries,
for the specification only, the true number of packets received until then.
A load packet counts as one unit. `ServerRestart` drops the tally.

**DownLoad.** Starts and Stops are numbered, for the specification only, in
sending order. The network is a set: datagrams are handled in any order, lost, or
handled twice (`MaxDup`). `Expire` is the deadline of the flow or a restart of the
server. The server side is the single-source view of what `DownFlows` implements.
`data` holds the flows of which packets are under way or in the socket buffer, however
many; `win` is what the meter has counted in its window, `rate` what `achieved` was
computed from, both by flow. `Count` leaves open whether the 200 ms are over, so the
window ends at any packet. A cookie that comes late is counted as well, as flow 0.

**ProbeRun.** `cond.prog` is the program: `validate` (`qoe-cli -run`), `diagnose` (`qoe-cli`)
or `latency` (`qoe-latency`); `ValidateSteps`, `DiagnoseSteps` and `LatencySteps` say what follows
each batch. `MarkOf` is the marking a program asks for and counts an echo as; `lastTOS` is
what the socket really sends with, and a probe carries that. `inbox` is the socket's buffer and survives from batch to batch.
A run takes place under a `Condition`, which (beside the program) bounds what may go wrong together in
it: `late` names the batches whose echoes (0: the cookie) may still be under way when
a read times out (elsewhere a timeout means that what was sent has arrived or is
lost), `dup` how many echoes are duplicated, `die` the batches during which the flow
may die, `start` whether a Start may be lost or handled late, `io` whether system calls may fail.
The load is what the engine sees of it: `rate` is what it last asked for, `queue` what the flow
behind the controller makes of the bottleneck. A `Stop` changes the rate only; the flow ends
(`LoadEnds`) when the Stop is handled, at its deadline or never within the run, and its queue
drains after that (`QueueDrains`). `SetRate` finds the new flow's queue built up after the pause,
or leaves a Start under way (`starting`), which `LoadBegins` handles at any later time, also after a
Stop that was written after it, or which stays lost. An earlier run may have left either behind
(`Init`). A datagram carries the queue it met where it crossed, and its RTT is `Propagation` plus
1 in a draining queue and plus 2 in a standing one. `BaseRTT` is some value between the lowest
and the highest sample of the baseline, as a low percentile is (0 for none), and
`StandingQueue` the median of the classic batch over it. So a standing queue is taken to be as long under
the baseline as under the classic batch: a queue of another length is a value of
neither. The achieved rate matters only for the capacity gate, where it may turn out either way.

**Histogram, Verdict.** Estimates are exact fractions; `float64` rounding is not
modelled. `Rtt` is in ms, the histogram's unit is ms divided by `PctD`, so that
interpolated base lines stay integers. `deltas` keeps the samples beside the counts.
`BinIndex` is the code's binary search, as a recursive function of the pair `<<lo, hi>>`. `Ascending` says
which samples a sort puts where, not how it sorts.
A low-latency echo is observed and, in the same step, counted with the mark it kept or lost, as
`BatchProbe` does (`marks`); the gate on the standing queue is computed from the classic
histogram, the other gates are free.
`Field` is the checklist of `render.go`, line by line, as a status for each glyph.

**RunStore, Dashboard.** `data` maps a run id to the run (`Memory`) or to its row (`Postgres`:
the columns that queries look at, and the payload they return). `Lists` is the set of
answers a query may get: ties in time come out in any order. `SaveFails` is an error of
the database, before or after the commit. `posts[n]` is one submission, with the state
of its client and of its handler; `refresh[k]` one call of `refresh()`, between whose two
answers anything may happen. A run in the store remembers, for the specification, which
submission it is. The dashboard's binary uses `Memory` only; `Postgres` is checked beside it.

## 3. Runs

| Run | Question | Result |
|---|---|---|
| `flows` | the registry under all interleavings, Close included; flows end, the registry drains, `FlowGrants` is implemented | holds |
| `paced` | rate and bounds with stalls and failing writes; lost time made up for | holds |
| `up` | measurement under an arbitrary network and restarts; Stop returns | holds |
| `down` | client and server agree on the flow; calls return, ghost flows end; readings are of the own flow and rest after Stop | holds |
| `run` | samples, classes, gates and load of the three programs; a run under load from its baseline on is not judged; runs end | holds |
| `verdict` | quantile, CDF and merge against the samples; passes are earned, not by worse delays, and shown as they are | holds |
| `fleet` | acknowledged runs stay, stores implement `RunList`, pages are of one filter, submissions and refreshes end | holds |
| `flows_close` | does Close cancel any in-flight flow | **violated** |
| `paced_catchup` | does the pacer make up for a failed write | **violated** |
| `down_renew` | does a long run renew its flow | **violated** |
| `run_stray` | does a batch count only its own echoes | **violated** |
| `run_cookie` | does a failed handshake leave the run alone | **violated** |

What the violated ones show, each a statement of the repository that its code does
not keep:

* `flows_close` – `server.go:104`. `Serve` has made a flow's context; `Close` sweeps
  the registry; the flow registers. It ends by its own deadline, up to 30 s later.
  The binary closes only after `Serve` has returned and is not exposed; the tests,
  which close while serving, are.
* `paced_catchup` – `udpload.go:89`. `MarkSent(due)` counts packets that a failed
  write gave up. Without a failed write the flow does catch up (`CatchesUp`).
* `down_renew` – `udpdown.go:22`, `server.go:36`. No code renews a flow.
* `run_stray` – `docs/spec.md:74`. Echoes are not matched by sequence number; also,
  sequence numbers restart at 1 in each batch. The properties of `run` say what holds
  nonetheless: `SamplesOwn` while no read has timed out early, and `SurvivalHonest`
  with late echoes of any batch.
* `run_cookie` – `main.go:73,184`. The late cookie is an error to `RecvEcho`.

### Observations

Seen in the model, each by a behaviour it has, and not the subject of a run:

* `udpload.go:130` calls the achieved rate "the most recent". `recvLoop` takes an
  overtaken report as the start of its next window, whose rate is then older than one
  already published (though, by `NeverOverstates`, still true of its own window).
* `docs/ENGINEERING.md:74` wants every untrustworthy condition to surface as
  inconclusive. Both gates are taken before the no-harm batches: a load that dies
  after the classic batch leaves them unloaded and the run is judged all the same
  (`JudgedUnderLoad` therefore speaks of the low-latency batch). `down_renew` is one way
  to get there. A Start that is handled only after its pause, between the low-latency and the
  classic batch, is another way: the gate then sees a queue that the low-latency batch did not
  (`JudgedUnderLoad` requires `prompt`). The same line lists stripped marks, for which `verdict.go:93` has no
  gate: they fail the run.
* `histogram.go:84` says that the estimate is within less than a millisecond where the
  verdict is decided. Just below the 10 ms limit bins are 2.5 ms wide. `QuantileInBin` shows
  that the bin is always right, and `PassIsEarned` that a pass is never due to rounding.
* The leg "with LL present" sends no low-latency probes (`engine.go:152`), and its
  throughput is read before it begins (`engine.go:151`).
* A new downstream flow starts its reading from 0, but on a socket that was not emptied: what
  is left of an earlier flow, or of a late cookie, is counted in (`udpdown.go:140`). `RateIsOwn`
  holds only of a Start that found nothing left, and of the rest of the flow then.
* `main.go:203` ends the process with `log.Fatalf`, which skips the deferred `Close`: the flow goes
  on for up to 20 s, and the next process cannot stop it, having another port.
  `JudgedFromIdle` is about the program's own load.
* `RunFull` writes one Stop and goes on to the baseline at once (`engine.go:111-114`). A lost or late
  Stop, a late Start of the run before, or a queue still draining is then under the baseline. If all of it
  was in the standing queue the gate refuses the run (`JudgedFromIdle`); if only part of it was,
  the percentile falls anywhere between the samples, and all later delays come out too low.
* A baseline without a single echo gives a base line of 0 (`stats.go:11-13`) and no error. Propagation
  then passes for a queue, in the gate as in the delays (`JudgedUnderLoad` requires `base > 0`).
* A low-latency echo counts for the delay and for the survival (`engine.go:200-204, 217-226`). One more slow
  echo that kept its mark can lift the survival over its limit, say from 98/99 to 99/100, while the
  p99 stays below its own, and turn a fail into a pass. `NoRewardForWorse` excepts just that.
* `docs/spec.md:185-186` has fleet charts exclude inconclusive runs by default; `apiCDF` merges
  whatever the filter lets through.
* `dashboard.go:125` says that the CDF "aggregates the whole cohort". `List` cuts both queries off
  at 1000 runs, and runs without histograms, or with other edges, are passed over,
  though the page counts them as "merged".
* Two overlapping calls of `refresh()` (`html.go:90`) can leave the curves of one filter above
  the list of another, or an earlier filter on the page: nothing cancels the first.
* A submission that failed for the client may have been stored, and one that was broken
  off may replace a later one with the same run id.
* `submit` (`main.go:255`) has no timeout: it waits as long as the connection stands.
* Marking survival looks at the ECT(1) bit alone (`engine.go:229-236`); `docs/protocol.md:44-45`
  speaks of ECT(1)/NQB. A probe whose DSCP was bleached on the way counts as survived.
* `EchoSize` is larger than `ProbeSize` although `server.go:329` says otherwise.

### Bounds

* `flows`: three sources at two addresses (two ports of one host, which share a
  cookie, and another host) and three flows are what replacement needs: an old flow
  still retiring, its successor, and a flow of someone else. No symmetry is used,
  since the run checks liveness.
* `paced`: `Horizon` periods, with rates below, at and above one packet per period
  and above the ceilings. Stalls as long as the horizon occur.
* `up`: enough packets and clock for three reports, which reordering needs, and
  a restart among them.
* `down`: `MaxSerial` 4 is two Starts and two Stops: an old flow, its end, a new flow and its
  end, each of whose datagrams may be lost or late. One datagram is
  duplicated. Packets of all flows may be under way at once.
* `run`: two probes per loaded batch: the median of the queue gate needs two samples,
  `SurvivalHonest` two marks, one kept and one lost, and reordering two echoes. Mixing of
  batches needs one late echo. The faults of `validate` come in five
  combinations (`MCProbeRun`): a late cookie or baseline with failing calls; late low-latency
  echoes with a load that dies under that batch; a load that dies at any time, with
  failing calls; a duplicate; Starts that are lost or late. (Stops may be lost or late in all of
  them.) `diagnose` has the first with a dying load, `latency` a late batch with a dying load
  and failing calls, or a duplicate. More of them together adds no new order of events, only more
  of the same, and the proofs cover all. The baseline has one probe, so that a base line between
  different samples is covered by the proof only; propagation and threshold are 1, half of what
  a standing queue adds.
* `verdict`: six edges instead of 23 and the quantile 2/3 instead of 0.99, so
  that ranks fall on, below and above bin edges with three samples; thresholds stay on
  edges, as in the code: `LLMax`, `QueueMin` and `ClassicMin` stand for the 10, 30 and 50 ms,
  in units of half a millisecond. The survival needed is 2/3, which one lost mark in three
  meets. A run has many samples of the two judged legs or one of each leg, and at most one
  scalar that is not good.
* `fleet`: two submissions, a refresh and a restart, or one submission and two refreshes, over
  three valid reports and an invalid one: a run in two versions of different cohorts, and
  another that ties with one of them in time. The limit is 2 instead of 1000, and one of
  the two queries has a limit of 1, so answers are cut off at a tie. The filter fields
  matter during a refresh only, and are edited only then.

### Fairness

Weak fairness stands for the Go scheduler (a goroutine that can run does), for
timers (a deadline fires) and for read deadlines (a read returns). The `select` of
`downLoop` picks a ready case at random, so taking `Done` has strong fairness:
it cannot be passed over for ever while the ticker keeps firing. In `DownLoad` and
`ProbeRun` a datagram is delivered or lost in the end. In `Dashboard` handlers return and
their answers arrive unless the connection breaks, which the client notices. Nobody is obliged to send,
to call Stop or to call Close, and no datagram is obliged to arrive.

Deadlock is not checked where the system may stop by itself: all flows used up,
all datagrams sent, a finished run, a page nobody clicks on.

## 4. Proofs

All for arbitrary values of the constants, from the `ASSUME`s of the modules (and the
hypothesis that `Freshness` states): any number of flows, reports, probes, submissions, refreshes, samples and
bins. Every safety invariant and every action property that a run checks is also a theorem, and so are both
refinements.

* `DownFlows_proofs`. `NoOrphan` is not inductive: a step of `Retire` could unlink a live
  flow if a goroutine could leave its loop with a live context, and `Register` could
  orphan one if `Serve` were in two Starts at once. `IInv` adds `OneStart` (Serve is in
  at most one Start), `ContextSound` (no goroutine leaves its loop while its context
  is live) and `RegistrySound`. From it follow `TypeCorrect`, `NoOrphans`, `RegistryIsSound`,
  `GateAlwaysHolds`, the action property `UnlinksOnlyDone` and `Refinement`: every step is a
  `Prove`, `Begin`, `End` or `Discard` of `FlowGrants`, or a stutter. `Register` maps to
  `Begin` when the new flow's context is still live; when its deadline has passed
  before it registered, it maps to the `End` of the flow it replaces. `GrantsStayFresh` carries
  `Freshness` through the refinement: it is about the server's own flows then.
* `FlowGrants_proofs`. `Freshness` is inductive together with the types, for a `NoFlow` that
  is no flow. The module is checked by TLC as the abstract side of `KeepsPromise`.
* `PacedFlow_proofs`. `PacerSound` relates the pacer's count, the batch being written and
  what was written: counts never exceed the target, and what was written never exceeds
  the counts. `NoOversending` and `BoundedStart` follow by arithmetic on the integer
  division and monotonicity of products. `UpToDate` says that a tick pends whenever the
  target may have moved on since the last one was taken; with it a loop that has drained
  its ticks is at its target (`StallsAreMadeUp`), unless a write has failed.
* `UpLoad_proofs`. `TallySound` orders the reports: a later one counts more packets
  and rests on a later tally, `Base` being the packets received before the present
  tally began. Two reports with a growing tally therefore differ by no more than what
  arrived between them, also over a restart: `RateNeverOverstates`, `RepliesAreSpaced`.
  `NoReader`, that `recvLoop` is over when Stop is, gives `StopEndsUpdates`.
* `DownLoad_proofs`. `NumberingSound`: a Start under way with the latest number means
  that the client is on, a Stop that it is not. Handling it then makes the server's flow
  the wanted one: `ClientAndServerConverge`. For the meter, `StaysAlone` says that while a flow
  which started alone is on, nothing of another flow can come into being, be it a Start
  under way, a flow at the server or a packet (`RateOfOneFlow`); `NoneBeforeCookie` that there
  is nothing of any flow before the first cookie, which is only fetched once, so the
  handshake's single read meets no packet (`HandshakeAlone`); and `OneReceiver` that a
  `recvLoop` lives only between Start and the end of Stop (`StopEndsReadings`).

* `ProbeRun_proofs`. The properties speak of counters, but are true because of what is under way, so
  the invariant follows every datagram: whatever is afoot answers a probe that was sent, with the mark
  the program gave it (`Genuine`), and is in one place only unless it was duplicated (`Once`). `Current`
  says that nothing of an earlier batch is left as long as no read timed out early (`BatchOwn`,
  `ClassesKept`). `Counted` ties the survived marks of the low-latency batch to echoes of its own, so late
  ones only add to the total (`SurvivalNotRaised`). `Based` says what a base line can be: 0 or at least the propagation, and as long as the standing
  queue makes it if all samples met that, from which no delay of the classic batch reaches the threshold
  (`NoStandingQueue`), so the gate fails (`LoadedBaselineFails`). `Witnessed` is the argument of the queue gate: a
  queue that is gone under the low-latency batch does not come back but by a late Start, so the classic batch after it
  meets none, and over a base line of at least the propagation the gate fails, after which
  nothing is judged (`GateWitnesses`). One theorem covers the three
  programs, since each step's lemma asks only what may follow a batch (`NextPlace`).
* `Dashboard_proofs`. `AckedStored` is not inductive: a save overwrites whatever has the run's id, so `Acks` relates
  the run that is kept to what had been acknowledged when it was submitted. `Alone` says that nothing
  else touches the page beside a refresh that is clean (`CohortIsOne`); `Covered` traces each run in the
  curves, or in an answer on its way, to the store, to a run that replaced it or to a restart, so that
  the list that is asked for next has it or is cut off (`ListHasCurves`). `RowsAgree`, that the columns repeat
  what is in the payload, makes both stores answer alike: `StoreImplementsList`, by one
  lemma for each action of `RunList`. `AnswerRight` shows that a sorted prefix of the matching rows is an answer.
* `Verdict_proofs`. The invariant `Tallied` says that every bin counts exactly the samples that belong there. Its step
  needs that `BinIndex` finds the right bin, which is an induction over the range of the search
  (`SearchFindsBin`: whatever function solves the equation of the search clamps the bin to its range). The
  prover has no induction over predicates; `NatInduct` and `SetInduct` do it over sets, from the library's
  well-founded orders. A fold is shown to count units (`FoldCounts`), which turns facts about sums into facts
  about cardinalities of finite sets. From the invariant, cumulative counts and numbers of samples agree at every edge
  (`LegFacts`); `Marked` says that the survival is counted over the same echoes. `QuantileBin` finds the bin of a quantile, `InPlace` its place among the edges, `QuantileAtEdge` when it is
  above an edge, `QuantilePassed` what lies before an edge it has passed; `DistributionAgrees`, `PassesAreEarned` and
  `EstimateInBin` follow, the thresholds being edges. `WorseNeverRewarded` needs what one more sample does to an estimate
  (`SlowSample`, `FastSample`, `FastSampleStays`); a lost mark more lowers the survival. `MergeIsBetween` needs more, since it compares interpolated values:
  `LeqInBin` says that an estimate is at most a value z just when the count below z, its own bin
  taken as evenly filled, reaches the rank. That is linear in the histogram, hence adds up in a merge
  (`MergedLeq`), except on the last edge, where the overflow bin has no width and which every estimate is at most.

Two proof attempts changed the model. `SaveRun` of `RunStore` and `Probes` of `ProbeRun` had a `CASE` whose arms
overlapped, which leaves the choice open for a reader and a prover, though not for TLC; they say now
which arm comes first, as the code does. The binary search was a function of two arguments, which no backend
reasons about, and became one of a pair.

Only model-checked: liveness under fairness (`FlowEnds`, `RegistryDrains`,
`StopReturns`, `CallsReturn`, `GhostsEnd`, `Terminates`, `RequestsEnd`), which the prover
cannot do.

## 5. Not modelled

Byte layouts, socket options, text output other than the checklist, JSON, HTTP and SQL as
such, drawing, and floating point. The `loads` map over many sources. `Loopback`, the
simulator of the engine's tests: to `ProbeRun` it is a network that delivers an echo at once or never.
The marks an echo returns with, the CE flag, and DSCP apart from ECN: a mark is kept,
marked CE or bleached. What documents promise and no code does has no model: the one-slot
serialization with a lease (`README.md:33`, `docs/spec.md:217`), drift, wrong-link and noise
detection (`verdict.go:38-43` has the gates, `RunFull` never sets them), upstream runs.

## 6. Plan

Written, in this order: `FlowGrants`, `DownFlows`, `PacedFlow`, `UpLoad`, `DownLoad`, `ProbeRun`,
`Histogram`, `Verdict`, the proofs of the first five, then `RunFilter`, `RunList`, `RunStore`,
`Dashboard`, the meter of `DownLoad` with its proofs, the three programs of `ProbeRun`, and the proofs of
`ProbeRun`, `Dashboard` and `Verdict`.

Next, most important first:

1. Marks with DSCP and ECN apart, the CE rate, marks of the way back.
2. `DownLoad` behind the load controller of `ProbeRun`, in place of `LoadEnds` and `LoadBegins`; or that the meter and registry of
   `DownLoad` implement what `ProbeRun` assumes of a load.
3. `DownLoad`'s server side as a refinement of `DownFlows` restricted to one source.
4. Proofs: how far the working delta and the base line follow the samples (an interpolated percentile
   lies between the two samples next to it).
