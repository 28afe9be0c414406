------------------------------ MODULE DownLoad ------------------------------
(***************************************************************************)
(* The client of a downstream flow, UDPDownLoad (src/core/net/udpdown.go),  *)
(* the network, and the server as its registry shows it to one source (what *)
(* DownFlows implements).  Stop and Start are single datagrams without a    *)
(* number or an acknowledgement, and any datagram may be lost, reordered or *)
(* duplicated; a failed write is a lost datagram.  Numbering them here, in   *)
(* the order they are sent, is the specification's own: the code sees only  *)
(* their kind.                                                              *)
(***************************************************************************)
EXTENDS Integers

CONSTANTS
    MaxSerial,   \* bound: Starts and Stops a behaviour may send
    MaxDup       \* bound: client datagrams the network may duplicate

ASSUME BoundAssumption == MaxSerial \in Nat /\ MaxDup \in Nat

VARIABLES
    pc,       \* the caller: "off", "begin", "hello", "on", "stopping"; see the actions
    next,     \* what a Stop under way is part of: "off", or "begin" for SetRateBps
    token,    \* haveToken
    rd,       \* recvLoop: "off", "top" (checks ctx), "read" (reads with a deadline)
    serial,   \* Starts and Stops sent so far
    net,      \* client datagrams under way
    dups,     \* how many were duplicated
    cookie,   \* a cookie is under way or in the client's buffer
    flow,     \* the server's flow for this source: the number of its Start, or 0
    handled,  \* number of the last Start or Stop the server handled
    data,     \* flows with packets under way or in the client's socket buffer
    win,      \* what recvLoop's meter has counted since its last reset: packets of these flows
    rate,     \* achieved: what it was computed from; {} is a rate of 0
    alone     \* for the specification: nothing of another flow was left at the last Start

meter == <<data, win, rate, alone>>
vars == <<pc, next, token, rd, serial, net, dups, cookie, flow, handled, meter>>

Msg == [type : {"hello", "start", "stop"}, n : Nat]

TypeOK ==
    /\ pc \in {"off", "begin", "hello", "on", "stopping"} /\ next \in {"off", "begin"}
    /\ token \in BOOLEAN /\ rd \in {"off", "top", "read"}
    /\ serial \in Nat /\ net \subseteq Msg /\ dups \in Nat /\ cookie \in BOOLEAN
    /\ flow \in Nat /\ handled \in Nat
    /\ data \subseteq Nat /\ win \subseteq Nat /\ rate \subseteq Nat /\ alone \in BOOLEAN

Init ==
    /\ pc = "off" /\ next = "off" /\ token = FALSE /\ rd = "off"
    /\ serial = 0 /\ net = {} /\ dups = 0 /\ cookie = FALSE /\ flow = 0 /\ handled = 0
    /\ data = {} /\ win = {} /\ rate = {} /\ alone = TRUE

-----------------------------------------------------------------------------
(* <definition>_<fault>: faulty variants, which the properties must tell apart. *)

(* SetRateBps without a flow: its Stop finds nothing to cancel and returns. *)
SetRate ==
    /\ pc = "off"
    /\ serial < MaxSerial
    /\ pc' = "begin"
    /\ UNCHANGED <<next, token, rd, serial, net, dups, cookie, flow, handled, meter>>

StopCall_Silent(then) ==
    /\ pc = "on"
    /\ serial < (IF then = "off" THEN MaxSerial ELSE MaxSerial - 1)
    /\ pc' = "stopping"
    /\ next' = then
    /\ UNCHANGED <<token, rd, serial, net, dups, cookie, flow, handled, meter>>

(* Stop, SetRateBps(0) or, with more to come, SetRateBps: send a Stop, cancel ... *)
StopCall(then) ==
    /\ pc = "on"
    /\ serial < (IF then = "off" THEN MaxSerial ELSE MaxSerial - 1)
    /\ pc' = "stopping"
    /\ next' = then
    /\ serial' = serial + 1
    /\ net' = net \cup {[type |-> "stop", n |-> serial + 1]}
    /\ UNCHANGED <<token, rd, dups, cookie, flow, handled, meter>>

StopDone_NoWait ==
    /\ pc = "stopping"
    /\ pc' = next
    /\ UNCHANGED <<next, token, rd, serial, net, dups, cookie, flow, handled, meter>>

(* ... and wait for recvLoop. *)
StopDone ==
    /\ pc = "stopping"
    /\ rd = "off"
    /\ pc' = next
    /\ UNCHANGED <<next, token, rd, serial, net, dups, cookie, flow, handled, meter>>

SendHello_NoCache ==
    /\ pc = "begin"
    /\ pc' = "hello"
    /\ net' = net \cup {[type |-> "hello", n |-> 0]}
    /\ UNCHANGED <<next, token, rd, serial, dups, cookie, flow, handled, meter>>

(* handshake, unless a cookie is at hand: send a Hello ... *)
SendHello ==
    /\ pc = "begin" /\ ~token
    /\ pc' = "hello"
    /\ net' = net \cup {[type |-> "hello", n |-> 0]}
    /\ UNCHANGED <<next, token, rd, serial, dups, cookie, flow, handled, meter>>

(* ... and read a cookie, be it a late one of an earlier Hello (a packet of a flow would be  *)
(* an error, but HandshakeUndisturbed) ...                                                 *)
GetCookie ==
    /\ pc = "hello" /\ cookie
    /\ pc' = "begin"
    /\ token' = TRUE
    /\ cookie' = FALSE
    /\ UNCHANGED <<next, rd, serial, net, dups, flow, handled, meter>>

(* A wait without a deadline ends only while the Hello or its answer is still around. *)
HelloTimeout_None ==
    /\ pc = "hello" /\ \E m \in net : m.type = "hello"
    /\ pc' = "off"
    /\ UNCHANGED <<next, token, rd, serial, net, dups, cookie, flow, handled, meter>>

(* ... or time out: SetRateBps returns the error. *)
HelloTimeout ==
    /\ pc = "hello"
    /\ pc' = "off"
    /\ UNCHANGED <<next, token, rd, serial, net, dups, cookie, flow, handled, meter>>

SendStart_KeepRate ==
    /\ pc = "begin" /\ token
    /\ pc' = "on"
    /\ rd' = "top"
    /\ serial' = serial + 1
    /\ net' = net \cup {[type |-> "start", n |-> serial + 1]}
    /\ win' = {}
    /\ alone' = (flow = 0 /\ data = {} /\ \A m \in net : m.type # "start")
    /\ UNCHANGED <<next, token, dups, cookie, flow, handled, data, rate>>

(* Send the Start, and begin to measure from nothing. *)
SendStart ==
    /\ pc = "begin" /\ token
    /\ pc' = "on"
    /\ rd' = "top"
    /\ serial' = serial + 1
    /\ net' = net \cup {[type |-> "start", n |-> serial + 1]}
    /\ win' = {} /\ rate' = {}
    /\ alone' = (flow = 0 /\ data = {} /\ \A m \in net : m.type # "start")
    /\ UNCHANGED <<next, token, dups, cookie, flow, handled, data>>

(* A write error of the Hello or the Start: SetRateBps returns it. *)
WriteFails ==
    /\ pc = "begin"
    /\ pc' = "off"
    /\ UNCHANGED <<next, token, rd, serial, net, dups, cookie, flow, handled, meter>>

(* recvLoop checks its context, then reads until a datagram or the deadline comes. *)
RecvTop ==
    /\ rd = "top"
    /\ rd' = IF pc = "on" THEN "read" ELSE "off"
    /\ UNCHANGED <<pc, next, token, serial, net, dups, cookie, flow, handled, meter>>

RecvTimeout ==
    /\ rd = "read"
    /\ rd' = "top"
    /\ UNCHANGED <<pc, next, token, serial, net, dups, cookie, flow, handled, meter>>

(* The meter adds what was read and, when the window is over, publishes and is reset. *)
Count(n) ==
    \/ win' = win \cup {n} /\ rate' = rate
    \/ win' = {} /\ rate' = win \cup {n}

(* A packet is read, of whichever flow, the last of it or not. *)
RecvData(n) ==
    /\ rd = "read"
    /\ rd' = "top"
    /\ Count(n)
    /\ data' \in {data, data \ {n}}
    /\ UNCHANGED <<pc, next, token, serial, net, dups, cookie, flow, handled, alone>>

(* A cookie that comes late is no packet, but counts like one. *)
RecvCookie ==
    /\ rd = "read" /\ cookie
    /\ rd' = "top" /\ cookie' = FALSE
    /\ Count(0)
    /\ UNCHANGED <<pc, next, token, serial, net, dups, flow, handled, data, alone>>

-----------------------------------------------------------------------------
FlowAfter_KeepOld(m) == CASE m.type = "start" -> IF flow = 0 THEN m.n ELSE flow
                          [] m.type = "stop" -> 0
                          [] OTHER -> flow

(* onStart replaces the source's flow, onStop ends it; the cookies verify. *)
FlowAfter(m) == CASE m.type = "start" -> m.n
                  [] m.type = "stop" -> 0
                  [] OTHER -> flow

(* The server handles a datagram; the network may have kept a copy. *)
Deliver(m) ==
    /\ \/ net' = net \ {m} /\ dups' = dups
       \/ dups < MaxDup /\ dups' = dups + 1 /\ net' = net
    /\ flow' = FlowAfter(m)
    /\ handled' = IF m.type = "hello" THEN handled ELSE m.n
    /\ cookie' = (cookie \/ m.type = "hello")
    /\ UNCHANGED <<pc, next, token, rd, serial, meter>>

Lose(m) ==
    /\ net' = net \ {m}
    /\ UNCHANGED <<pc, next, token, rd, serial, dups, cookie, flow, handled, meter>>

LoseCookie ==
    /\ cookie /\ cookie' = FALSE
    /\ UNCHANGED <<pc, next, token, rd, serial, net, dups, flow, handled, meter>>

(* The server sends packets of its flow; the last of those under way may be lost. *)
SendData ==
    /\ flow # 0
    /\ data' = data \cup {flow}
    /\ UNCHANGED <<pc, next, token, rd, serial, net, dups, cookie, flow, handled, win, rate, alone>>

LoseData(n) ==
    /\ data' = data \ {n}
    /\ UNCHANGED <<pc, next, token, rd, serial, net, dups, cookie, flow, handled, win, rate, alone>>

Expire_Never == FALSE

(* The flow's deadline passes, or the server restarts. *)
Expire ==
    /\ flow # 0
    /\ flow' = 0
    /\ UNCHANGED <<pc, next, token, rd, serial, net, dups, cookie, handled, meter>>

-----------------------------------------------------------------------------
Caller == SetRate \/ StopCall("off") \/ StopCall("begin")

Handshake == SendHello \/ GetCookie \/ HelloTimeout \/ SendStart \/ WriteFails

Recv == RecvTop \/ RecvTimeout \/ RecvCookie \/ \E n \in data : RecvData(n)

Network ==
    \/ \E m \in net : Deliver(m) \/ Lose(m)
    \/ LoseCookie \/ SendData \/ \E n \in data : LoseData(n)

Next == Caller \/ StopDone \/ Handshake \/ Recv \/ Network \/ Expire

Spec == Init /\ [][Next]_vars

(* The client's goroutines run and reads have deadlines; a datagram is handled or lost *)
(* in the end; timers fire. Nobody has to call anything.                              *)
Fairness ==
    /\ WF_vars(StopDone) /\ WF_vars(Handshake) /\ WF_vars(Recv)
    /\ WF_vars(\E m \in net : Deliver(m) \/ Lose(m)) /\ WF_vars(Expire)

FairSpec == Spec /\ Fairness

-----------------------------------------------------------------------------
(* The flow the client believes it has: that of its last Start, or none. *)
Wanted == IF pc = "on" THEN serial ELSE 0

(* Whatever was lost, duplicated or overtaken before: while the last datagram the    *)
(* server handled is the last one the client sent, the server's flow is the one the   *)
(* client wants, or has expired - never another one, and none when it wants none.     *)
Converges == handled = serial => flow \in {0, Wanted}

(* Every call of SetRateBps and Stop returns, whatever the network does.             *)
CallsReturn == (pc \in {"begin", "hello", "stopping"}) ~> (pc \in {"off", "on"})

(* Once the client has stopped for good no flow is sent to it for good, although its *)
(* Stop may be lost or be overtaken by its Start.                                    *)
GhostsEnd == <>[](pc = "off") => <>[](flow = 0)

(* "The server caps it, and a long run renews" (udpdown.go:22-23): a client that      *)
(* stays on after its Start was handled does not remain without its flow.             *)
LongRunRenews == (pc = "on" /\ handled = serial /\ flow = 0) ~> (pc # "on" \/ flow # 0)

(* The reading starts from 0 with every flow (udpdown.go:119) and, if nothing of an   *)
(* earlier flow was left at its Start, counts packets of this flow only - and a late  *)
(* cookie. Without that condition it does not: the socket buffer is not emptied.      *)
RateIsOwn == pc = "on" /\ alone => rate \subseteq {0, serial}

(* handshake reads one datagram and takes anything but a cookie for an error          *)
(* (udpdown.go:75-85). It never meets a packet of a flow, because flows need a cookie *)
(* and a cookie is fetched once.                                                      *)
HandshakeUndisturbed == pc = "hello" => data = {}

(* Once Stop has returned, AchievedBps does not change until the next flow is started, *)
(* although packets keep arriving (udpdown.go:158, "stops measuring").                 *)
QuietWhenStopped == [][rate' # rate => pc \in {"on", "stopping"} \/ pc' = "on"]_vars

-----------------------------------------------------------------------------
(* The last datagram sent says what the client wants, and no other has its number. *)
NumberingSound ==
    /\ handled <= serial
    /\ pc = "on" => serial > 0
    /\ \A m \in net : /\ m.n <= serial
                      /\ m.type # "hello" => m.n > 0
                      /\ m.type = "start" /\ m.n = serial => pc = "on"
                      /\ m.type = "stop" /\ m.n = serial => pc # "on"

(* There is one recvLoop, and only for the flow the caller has. *)
OneReceiver == rd # "off" => pc \in {"on", "stopping"}

(* Before the first cookie there is no flow, no packet of one, and no Start. *)
NoneBeforeCookie ==
    /\ pc = "hello" => ~token
    /\ ~token => flow = 0 /\ data = {} /\ \A m \in net : m.type # "start"

(* A flow that started alone stays alone. *)
StaysAlone ==
    pc = "on" /\ alone =>
        /\ win \cup rate \cup data \cup {flow} \subseteq {0, serial}
        /\ \A m \in net : m.type = "start" => m.n = serial

(* The inductive invariant. *)
IInv == TypeOK /\ NumberingSound /\ Converges /\ OneReceiver /\ NoneBeforeCookie /\ StaysAlone
=============================================================================
