------------------------------- MODULE UpLoad -------------------------------
(***************************************************************************)
(* Upstream load and how its rate is measured: the client's UDPLoad         *)
(* (src/core/net/udpload.go), the server's running tally of what it         *)
(* received from that client (onLoad, src/server/server.go:277-305), and    *)
(* the datagrams between them, which may be lost, delayed and reordered;    *)
(* reports may be duplicated too.  The server may restart, which loses the  *)
(* tally; the client's reading of its rate is made of two reports.          *)
(*                                                                          *)
(* One source is modelled: the server keeps its tallies apart by source.    *)
(* A load packet counts as one unit of bytes.                               *)
(***************************************************************************)
EXTENDS Integers

CONSTANTS
    Interval,    \* loadReportInterval
    MaxNow,      \* bound: last instant of the server's clock
    MaxSent,     \* bound: load packets a behaviour may send
    NoStat       \* "no report yet"

ASSUME IntervalAssumption == Interval \in Nat \ {0}
ASSUME BoundAssumption == MaxNow \in Nat /\ MaxSent \in Nat

(* A LoadStat on the wire, with the true count of packets the server had received  *)
(* from this client by then, restarts or not, beside the tally it reports.         *)
Stat == [bytes : Nat, t : Nat, total : Nat]
ASSUME NoStatAssumption == NoStat \notin Stat

VARIABLES
    now,       \* the server's clock (TServerNanos)
    known,     \* the server has a loadCounter for the client
    bytes,     \* loadCounter.bytes
    last,      \* loadCounter.last
    arrived,   \* load packets the server has really received
    sent,      \* load packets the client has really sent
    stats,     \* every report sent; any may reach the client, any number of times
    flow,      \* the caller's side: "off", "on", "stopping" (Stop waits for the goroutines)
    snd,       \* sendLoop is running
    rd,        \* recvLoop: "off", "top" (checks ctx), "read" (waits for a datagram)
    prev,      \* recvLoop's lastBytes, lastNanos
    pub        \* achieved: NoStat for 0, else the two reports it was computed from

server == <<now, known, bytes, last, arrived, stats>>
client == <<flow, snd, rd, prev, pub>>
vars == <<server, client, sent>>

TypeOK ==
    /\ now \in Nat /\ known \in BOOLEAN /\ bytes \in Nat /\ last \in Nat
    /\ arrived \in Nat /\ sent \in Nat /\ arrived <= sent
    /\ stats \subseteq Stat
    /\ flow \in {"off", "on", "stopping"} /\ snd \in BOOLEAN
    /\ rd \in {"off", "top", "read"}
    /\ prev \in stats \cup {NoStat}
    /\ pub \in [from : stats, to : stats] \cup {NoStat}

Init ==
    /\ now = 1 /\ known = FALSE /\ bytes = 0 /\ last = 0 /\ arrived = 0 /\ sent = 0
    /\ stats = {} /\ flow = "off" /\ snd = FALSE /\ rd = "off"
    /\ prev = NoStat /\ pub = NoStat

-----------------------------------------------------------------------------
(* <definition>_<fault>: faulty variants, which the properties must tell apart. *)

ReportDue_Early == known /\ now - last >= Interval - 1

(* A source's first packet makes its counter, with `last` now: no report for it. *)
ReportDue == known /\ now - last >= Interval

OnLoad_LastKept ==
    /\ arrived < sent
    /\ arrived' = arrived + 1
    /\ known' = TRUE
    /\ bytes' = IF known THEN bytes + 1 ELSE 1
    /\ last' = IF known THEN last ELSE now
    /\ stats' = IF ReportDue THEN stats \cup {[bytes |-> bytes', t |-> now, total |-> arrived']}
                             ELSE stats
    /\ UNCHANGED <<now, client, sent>>

(* A load packet reaches the server: tally it and report at most once per interval. *)
OnLoad ==
    /\ arrived < sent
    /\ arrived' = arrived + 1
    /\ known' = TRUE
    /\ bytes' = IF known THEN bytes + 1 ELSE 1
    /\ last' = IF known /\ ~ReportDue THEN last ELSE now
    /\ stats' = IF ReportDue THEN stats \cup {[bytes |-> bytes', t |-> now, total |-> arrived']}
                             ELSE stats
    /\ UNCHANGED <<now, client, sent>>

(* The server process is replaced: its tallies are gone. *)
ServerRestart ==
    /\ known
    /\ known' = FALSE
    /\ bytes' = 0
    /\ UNCHANGED <<now, last, arrived, stats, client, sent>>

ClockTick ==
    /\ now < MaxNow
    /\ now' = now + 1
    /\ UNCHANGED <<known, bytes, last, arrived, stats, client, sent>>

-----------------------------------------------------------------------------
(* SetRateBps with a positive rate, after its Stop has returned. *)
Start ==
    /\ flow = "off"
    /\ flow' = "on"
    /\ pub' = NoStat
    /\ prev' = NoStat
    /\ snd' = TRUE
    /\ rd' = "top"
    /\ UNCHANGED <<server, sent>>

(* Stop (also the first step of SetRateBps and Close) cancels the context ... *)
StopCall ==
    /\ flow = "on"
    /\ flow' = "stopping"
    /\ UNCHANGED <<server, sent, snd, rd, prev, pub>>

StopDone_NoWait ==
    /\ flow = "stopping"
    /\ flow' = "off"
    /\ UNCHANGED <<server, sent, snd, rd, prev, pub>>

(* ... and waits for both goroutines. *)
StopDone ==
    /\ flow = "stopping"
    /\ ~snd /\ rd = "off"
    /\ flow' = "off"
    /\ UNCHANGED <<server, sent, snd, rd, prev, pub>>

(* sendLoop, paced by PacedFlow: a packet goes out ... *)
SendPkt ==
    /\ snd
    /\ sent < MaxSent
    /\ sent' = sent + 1
    /\ UNCHANGED <<server, client>>

(* ... or the loop sees the cancelled context. *)
SendExit ==
    /\ snd /\ flow # "on"
    /\ snd' = FALSE
    /\ UNCHANGED <<server, sent, flow, rd, prev, pub>>

RecvTop_NoCheck ==
    /\ rd = "top"
    /\ rd' = "read"
    /\ UNCHANGED <<server, sent, flow, snd, prev, pub>>

(* recvLoop's check at the top of the loop. *)
RecvTop ==
    /\ rd = "top"
    /\ rd' = IF flow = "on" THEN "read" ELSE "off"
    /\ UNCHANGED <<server, sent, flow, snd, prev, pub>>

(* The read times out, or yields something that is not a report. *)
RecvNothing ==
    /\ rd = "read"
    /\ rd' = "top"
    /\ UNCHANGED <<server, sent, flow, snd, prev, pub>>

Usable_AnyOrder(st) == prev # NoStat /\ st.t # prev.t

(* Two reports make a rate when they are in order and the tally did not go back. *)
Usable(st) == prev # NoStat /\ st.t > prev.t /\ st.bytes >= prev.bytes

(* A report is read, possibly one left over from an earlier flow of this socket. *)
RecvStat(st) ==
    /\ rd = "read"
    /\ pub' = IF Usable(st) THEN [from |-> prev, to |-> st] ELSE pub
    /\ prev' = st
    /\ rd' = "top"
    /\ UNCHANGED <<server, sent, flow, snd>>

-----------------------------------------------------------------------------
Recv == RecvTop \/ RecvNothing \/ \E st \in stats : RecvStat(st)

Next == OnLoad \/ ServerRestart \/ ClockTick \/ Start \/ StopCall \/ StopDone
        \/ SendPkt \/ SendExit \/ Recv

Spec == Init /\ [][Next]_vars

(* The goroutines of the client run: reads have a deadline, and a select with both *)
(* cases ready takes ctx.Done() in the end.  The network owes nothing.             *)
Fairness == WF_vars(Recv) /\ WF_vars(SendExit) /\ WF_vars(StopDone)

FairSpec == Spec /\ Fairness

-----------------------------------------------------------------------------
(* The published rate never overstates: over its window, on the server's clock, the *)
(* server really received at least the bytes the rate is computed from - across      *)
(* losses, reordered and duplicated reports, flows sharing the tally, and restarts.  *)
NeverOverstates ==
    pub # NoStat => /\ pub.from.t < pub.to.t
                    /\ pub.from.bytes <= pub.to.bytes
                    /\ pub.to.bytes - pub.from.bytes <= pub.to.total - pub.from.total

(* Replies to a source are at least an interval apart (server.go:26-30), also over  *)
(* a restart.                                                                       *)
ReportsSpaced ==
    \A a, b \in stats : a # b => a.t + Interval <= b.t \/ b.t + Interval <= a.t

(* Once Stop has returned, no late report changes the reading any more. *)
QuietWhenOff == [][flow = "off" /\ flow' = "off" => pub' = pub]_vars

(* Stop returns, whatever the network does. *)
StopReturns == (flow = "stopping") ~> (flow = "off")

-----------------------------------------------------------------------------
(* Packets received before the server's present tally began. *)
Base == IF known THEN arrived - bytes ELSE arrived

(* Later reports count more packets, and rest on a later, never an earlier, restart; *)
(* the counter's `last` is the time of the last report or later.                     *)
TallySound ==
    /\ known => last <= now /\ bytes <= arrived
    /\ ~known => bytes = 0
    /\ \A a \in stats :
          /\ a.bytes <= a.total /\ a.total <= arrived /\ a.total - a.bytes <= Base
          /\ a.t <= IF known THEN last ELSE now
          /\ \A b \in stats : a.t <= b.t => /\ a.total <= b.total
                                            /\ a.total - a.bytes <= b.total - b.bytes

(* The inductive invariant of the measurement. *)
IInv == TypeOK /\ TallySound /\ ReportsSpaced /\ NeverOverstates
=============================================================================
