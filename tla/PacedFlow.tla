----------------------------- MODULE PacedFlow ------------------------------
(***************************************************************************)
(* One paced sending goroutine: the server's downLoop (server.go:210-275)   *)
(* or the client's sendLoop (udpload.go:57-95), which share the Pacer of    *)
(* pace.go.  Every millisecond tick the loop asks the pacer how many        *)
(* packets are due, writes them, and marks all of them as sent - also when  *)
(* a write failed and the rest of the batch was given up.                   *)
(*                                                                          *)
(* Time is counted in ticker periods and passes at any point, so that the   *)
(* goroutine may be descheduled for any number of periods, before it starts *)
(* or in the middle of a batch; the ticker then holds one tick.  Rates are  *)
(* in bytes per period.                                                     *)
(***************************************************************************)
EXTENDS Integers

CONSTANTS
    ReqRate,        \* rates a Start or SetRateBps may ask for
    ReqDur,         \* durations a Start may ask for
    MaxRate,        \* maxDownRateBps
    MaxDur,         \* maxDownDurationMs
    PktSize,        \* downPktSize, LoadPktSize
    Horizon         \* bound: the periods a behaviour may last

ASSUME RateAssumption == ReqRate \subseteq Nat /\ MaxRate \in Nat \ {0}
ASSUME DurAssumption == ReqDur \subseteq Nat /\ MaxDur \in Nat \ {0}
ASSUME PktAssumption == PktSize \in Nat \ {0}
ASSUME BoundAssumption == Horizon \in Nat

VARIABLES
    kind,       \* "server": downLoop, under a deadline; "client": sendLoop, without
    rate, dur,  \* what was granted
    age,        \* time since the flow's context was made
    born,       \* age at which the goroutine made its pacer
    pc,         \* "start", "select", "write" or "done"
    tick,       \* the ticker's channel holds a tick
    cancelled,  \* the context was cancelled
    sent,       \* Pacer.sent
    due, i,     \* the batch being written, and the packets of it written so far
    written,    \* packets written to the socket since the flow began
    failed      \* some batch was cut short by a write error

vars == <<kind, rate, dur, age, born, pc, tick, cancelled, sent, due, i, written, failed>>

TypeOK ==
    /\ kind \in {"server", "client"}
    /\ rate \in Nat /\ dur \in Nat /\ age \in Nat /\ born \in Nat /\ born <= age
    /\ pc \in {"start", "select", "write", "done"}
    /\ tick \in BOOLEAN /\ cancelled \in BOOLEAN /\ failed \in BOOLEAN
    /\ sent \in Nat /\ due \in Nat /\ i \in Nat /\ written \in Nat

-----------------------------------------------------------------------------
(* <definition>_<fault>: faulty variants, which the properties must tell apart. *)

ClampRate_None(r) == r

(* onStart's ceilings on what a Start asks for. *)
ClampRate(r) == IF r > MaxRate THEN MaxRate ELSE r
ClampDur(d) == IF d <= 0 \/ d > MaxDur THEN MaxDur ELSE d

Init ==
    /\ \/ kind = "server" /\ \E r \in ReqRate, d \in ReqDur :
             rate = ClampRate(r) /\ dur = ClampDur(d)
       \/ kind = "client" /\ rate \in ReqRate \ {0} /\ dur = 0
    /\ pc = "start" /\ tick = FALSE /\ cancelled = FALSE /\ failed = FALSE
    /\ age = 0 /\ born = 0 /\ sent = 0 /\ due = 0 /\ i = 0 /\ written = 0

(* The flow's context is done: cancelled, or past the deadline of WithTimeout. *)
CtxDone == cancelled \/ (kind = "server" /\ age >= dur)

Elapsed == age - born

(* Whole packets that the rate calls for in the time since NewPacer. *)
Target == (rate * Elapsed) \div PktSize

Due_Forgetful == Target
Due_OnePerTick == IF Target <= sent THEN 0 ELSE 1

(* Pacer.Due: what is missing to the target, never negative. *)
Due == IF Target <= sent THEN 0 ELSE Target - sent

-----------------------------------------------------------------------------
(* The goroutine starts: NewPacer, NewTicker. *)
Begin ==
    /\ pc = "start"
    /\ pc' = "select"
    /\ born' = age
    /\ UNCHANGED <<kind, rate, dur, age, tick, cancelled, sent, due, i, written, failed>>

(* select takes the tick (it may, also when the context is done). *)
TakeTick ==
    /\ pc = "select"
    /\ tick
    /\ tick' = FALSE
    /\ pc' = "write"
    /\ due' = Due
    /\ i' = 0
    /\ UNCHANGED <<kind, rate, dur, age, born, cancelled, sent, written, failed>>

WriteOne ==
    /\ pc = "write"
    /\ i < due
    /\ i' = i + 1
    /\ written' = written + 1
    /\ UNCHANGED <<kind, rate, dur, age, born, pc, tick, cancelled, sent, due, failed>>

(* MarkSent(due) follows the batch, whole or cut short by `break`. *)
EndBatch ==
    /\ pc = "write"
    /\ failed' = (failed \/ i < due)
    /\ sent' = sent + due
    /\ pc' = "select"
    /\ UNCHANGED <<kind, rate, dur, age, born, tick, cancelled, due, i, written>>

(* select takes ctx.Done(). *)
TakeDone ==
    /\ pc = "select"
    /\ CtxDone
    /\ pc' = "done"
    /\ UNCHANGED <<kind, rate, dur, age, born, tick, cancelled, sent, due, i, written, failed>>

(* A Stop, a replacement or Close cancels the context. *)
Cancel ==
    /\ ~cancelled
    /\ cancelled' = TRUE
    /\ UNCHANGED <<kind, rate, dur, age, born, pc, tick, sent, due, i, written, failed>>

(* A period passes; the ticker drops a tick when one is still pending. *)
Elapse ==
    /\ age < Horizon
    /\ age' = age + 1
    /\ tick' = (pc \in {"select", "write"})
    /\ UNCHANGED <<kind, rate, dur, born, pc, cancelled, sent, due, i, written, failed>>

Next == Begin \/ TakeTick \/ WriteOne \/ EndBatch \/ TakeDone \/ Cancel \/ Elapse

Spec == Init /\ [][Next]_vars

-----------------------------------------------------------------------------
(* Whatever stalls, failed writes and lost ticks there were, a flow never has   *)
(* more bytes on the wire than its rate allows for the time since it began.     *)
NeverOversends == written * PktSize <= rate * Elapsed

(* One Start cannot be turned into an unbounded flow (server.go:32-34): until    *)
(* its context is done a server flow has written no more than the ceilings allow. *)
StartIsBounded == kind = "server" /\ ~CtxDone => written * PktSize <= MaxRate * MaxDur

(* Whenever the loop has drained its ticks the flow is exactly at its target, however *)
(* long it was stalled, as long as no write has failed (pace.go: "catches up").      *)
CatchesUp == pc = "select" /\ ~tick /\ ~failed => written = Target

(* "the pacer catches up next tick" (udpload.go:89), said of a batch cut short by a   *)
(* write error: after a batch that went through, and no tick since, all is made up.   *)
CatchesUpAlways == pc = "select" /\ ~tick /\ i = due => written = Target

(* The granted bounds, and what the batches add up to: the pacer never counts more *)
(* than its target, and what was written never exceeds what the pacer counts or is *)
(* writing now.                                                                   *)
PacerSound ==
    /\ kind = "server" => rate <= MaxRate /\ dur <= MaxDur
    /\ pc = "start" => sent = 0 /\ written = 0
    /\ sent * PktSize <= rate * Elapsed
    /\ pc = "write" => (sent + due) * PktSize <= rate * Elapsed /\ i <= due
    /\ written <= IF pc = "write" THEN sent + i ELSE sent
=============================================================================
