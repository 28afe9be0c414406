----------------------------- MODULE DownFlows ------------------------------
(***************************************************************************)
(* The downstream half of the server (src/server/server.go): the cookie     *)
(* gate, the per-source registry `downs` under the mutex `dmu`, one         *)
(* downLoop goroutine per flow, the single Serve goroutine that handles     *)
(* datagrams, and Close, which any other goroutine may call.                *)
(*                                                                          *)
(* Serve handles one datagram at a time, but a Start is handled in three    *)
(* steps that other goroutines interleave with: the flow's context is       *)
(* created (its timer runs from there), the flow is registered under dmu,   *)
(* and its goroutine is started.  Datagrams that fail a check change        *)
(* nothing.  A deadline may pass at any time after the context is created;  *)
(* what a flow sends while it runs is the subject of PacedFlow.             *)
(***************************************************************************)
CONSTANTS Source,    \* source addresses as UDPAddr.String() prints them: ip:port
          Ip,        \* IP addresses
          IpOf,      \* IpOf[s]: src.IP of source s
          Session,   \* session identifiers
          Flow,      \* identities of downFlow objects, each used at most once
          NoFlow,    \* the nil entry of downs
          NoCookie   \* bytes that are nobody's cookie

ASSUME IpOfAssumption == IpOf \in [Source -> Ip]
ASSUME NoFlowAssumption == NoFlow \notin Flow
ASSUME NoCookieAssumption == NoCookie \notin [session : Session, ip : Ip]

VARIABLES
    issued,    \* cookies sendCookie has sent; each goes to its own ip only
    downs,     \* Server.downs: the registered flow of each source
    owner,     \* the source a flow was started for
    ctx,       \* its context: "none", "live" or "done" (cancelled or past its deadline)
    pc,        \* where the flow is, see Place
    serving,   \* the Serve goroutine is running
    conn       \* the socket and Close: "open", "swept" (flows cancelled), "closed"

vars == <<issued, downs, owner, ctx, pc, serving, conn>>

(* none: not started; created: context made, dmu not yet taken; registered: in   *)
(* downs, goroutine not yet started; select/batch: downLoop waits/writes;        *)
(* exiting: the loop has returned, its deferred function has not run; retired.   *)
Place == {"none", "created", "registered", "select", "batch", "exiting", "retired"}
Cookie == [session : Session, ip : Ip]

TypeOK ==
    /\ issued \subseteq Cookie
    /\ downs \in [Source -> Flow \cup {NoFlow}]
    /\ owner \in [Flow -> Source]
    /\ ctx \in [Flow -> {"none", "live", "done"}]
    /\ pc \in [Flow -> Place]
    /\ serving \in BOOLEAN
    /\ conn \in {"open", "swept", "closed"}

Init ==
    /\ issued = {}
    /\ downs = [s \in Source |-> NoFlow]
    /\ owner \in {[f \in Flow |-> s] : s \in Source}   \* of no consequence until a Start
    /\ ctx = [f \in Flow |-> "none"]
    /\ pc = [f \in Flow |-> "none"]
    /\ serving = TRUE
    /\ conn = "open"

-----------------------------------------------------------------------------
(* An operator named <definition>_<fault> is a faulty variant of the definition   *)
(* that follows it: the properties are shown to tell it from the code.            *)

MakeCookie_Swapped(session, ip) == [session |-> ip, ip |-> session]

(* The cookie of (session, ip); the keyed hash is taken to be injective. *)
MakeCookie(session, ip) == [session |-> session, ip |-> ip]

VerifyCookie_AnyIp(session, ip, got) == got # NoCookie /\ got.session = session

VerifyCookie(session, ip, got) == got = MakeCookie(session, ip)

(* Serve is between two datagrams. *)
AtRead == serving /\ \A f \in Flow : pc[f] \notin {"created", "registered"}

CanRead == AtRead /\ conn # "closed"

(* cancel() of a context: final, and harmless when the context is already done. *)
Cancelled(F) == [f \in Flow |-> IF f \in F THEN "done" ELSE ctx[f]]

(* A Hello from s: its cookie goes back to s. *)
RecvHello(s, session) ==
    /\ CanRead
    /\ issued' = issued \cup {MakeCookie(session, IpOf[s])}
    /\ UNCHANGED <<downs, owner, ctx, pc, serving, conn>>

(* A Start from s passes the cookie check: a flow and its context are made. *)
RecvStart(s, session, cookie, f) ==
    /\ CanRead
    /\ VerifyCookie(session, IpOf[s], cookie)
    /\ pc[f] = "none"
    /\ pc' = [pc EXCEPT ![f] = "created"]
    /\ ctx' = [ctx EXCEPT ![f] = "live"]
    /\ owner' = [owner EXCEPT ![f] = s]
    /\ UNCHANGED <<issued, downs, serving, conn>>

Register_KeepOld(f) ==
    /\ pc[f] = "created"
    /\ downs' = [downs EXCEPT ![owner[f]] = f]
    /\ pc' = [pc EXCEPT ![f] = "registered"]
    /\ UNCHANGED <<issued, owner, ctx, serving, conn>>

(* Under dmu: cancel the source's flow, if any, and take its place. *)
Register(f) ==
    /\ pc[f] = "created"
    /\ ctx' = Cancelled({downs[owner[f]]})
    /\ downs' = [downs EXCEPT ![owner[f]] = f]
    /\ pc' = [pc EXCEPT ![f] = "registered"]
    /\ UNCHANGED <<issued, owner, serving, conn>>

(* go downLoop(...): Serve goes back to reading. *)
Spawn(f) ==
    /\ pc[f] = "registered"
    /\ pc' = [pc EXCEPT ![f] = "select"]
    /\ UNCHANGED <<issued, downs, owner, ctx, serving, conn>>

(* A Stop from s passes the cookie check: cancel and unlink under dmu. *)
RecvStop(s, session, cookie) ==
    /\ CanRead
    /\ VerifyCookie(session, IpOf[s], cookie)
    /\ ctx' = Cancelled({downs[s]})
    /\ downs' = [downs EXCEPT ![s] = NoFlow]
    /\ UNCHANGED <<issued, owner, pc, serving, conn>>

(* The context was cancelled, or the read failed on a closed socket. *)
ServeReturn ==
    /\ AtRead
    /\ serving' = FALSE
    /\ UNCHANGED <<issued, downs, owner, ctx, pc, conn>>

-----------------------------------------------------------------------------
Expire_Never(f) == FALSE

(* The deadline of f's context passes. *)
Expire(f) ==
    /\ ctx[f] = "live"
    /\ ctx' = Cancelled({f})
    /\ UNCHANGED <<issued, downs, owner, pc, serving, conn>>

(* downLoop's select takes the ticker, also when ctx.Done() is ready too... *)
Tick(f) ==
    /\ pc[f] = "select"
    /\ pc' = [pc EXCEPT ![f] = "batch"]
    /\ UNCHANGED <<issued, downs, owner, ctx, serving, conn>>

(* ... writes what is due, or gives up at a write error, and selects again ... *)
EndBatch(f) ==
    /\ pc[f] = "batch"
    /\ pc' = [pc EXCEPT ![f] = "select"]
    /\ UNCHANGED <<issued, downs, owner, ctx, serving, conn>>

(* ... or takes ctx.Done() and returns. *)
SeeDone(f) ==
    /\ pc[f] = "select"
    /\ ctx[f] = "done"
    /\ pc' = [pc EXCEPT ![f] = "exiting"]
    /\ UNCHANGED <<issued, downs, owner, ctx, serving, conn>>

Unlinked_Always(f) == [downs EXCEPT ![owner[f]] = NoFlow]
Unlinked_Never(f) == downs

(* The registry without f, whose place a newer flow may have taken. *)
Unlinked(f) == IF downs[owner[f]] = f THEN [downs EXCEPT ![owner[f]] = NoFlow] ELSE downs

(* downLoop's deferred function, under dmu. *)
Retire(f) ==
    /\ pc[f] = "exiting"
    /\ pc' = [pc EXCEPT ![f] = "retired"]
    /\ downs' = Unlinked(f)
    /\ UNCHANGED <<issued, owner, ctx, serving, conn>>

(* Close, under dmu: cancel and unlink every flow ... *)
CloseSweep ==
    /\ conn = "open"
    /\ ctx' = Cancelled({downs[s] : s \in Source})
    /\ downs' = [s \in Source |-> NoFlow]
    /\ conn' = "swept"
    /\ UNCHANGED <<issued, owner, pc, serving>>

(* ... then close the socket. *)
CloseConn ==
    /\ conn = "swept"
    /\ conn' = "closed"
    /\ UNCHANGED <<issued, downs, owner, ctx, pc, serving>>

-----------------------------------------------------------------------------
Serve ==
    \/ \E s \in Source, session \in Session :
          \/ RecvHello(s, session)
          \/ \E cookie \in issued \cup {NoCookie} :
                \/ RecvStop(s, session, cookie)
                \/ \E f \in Flow : RecvStart(s, session, cookie, f)
    \/ \E f \in Flow : Register(f) \/ Spawn(f)
    \/ ServeReturn

DownLoop(f) == Tick(f) \/ EndBatch(f) \/ SeeDone(f) \/ Retire(f)

Close == CloseSweep \/ CloseConn

Next == Serve \/ Close \/ \E f \in Flow : DownLoop(f) \/ Expire(f)

Spec == Init /\ [][Next]_vars

(* A started handler finishes, timers fire, a running goroutine is scheduled, and  *)
(* Go's select, which picks a ready case at random, takes Done in the end. Nobody  *)
(* has to send a datagram, stop the server or call Close.                          *)
Fairness ==
    \A f \in Flow :
        /\ WF_vars(Register(f)) /\ WF_vars(Spawn(f)) /\ WF_vars(Expire(f))
        /\ WF_vars(EndBatch(f)) /\ WF_vars(Retire(f)) /\ SF_vars(SeeDone(f))

FairSpec == Spec /\ Fairness

-----------------------------------------------------------------------------
(* The flow's goroutine is running, or about to. *)
Running(f) == pc[f] \in {"registered", "select", "batch", "exiting"}

(* No orphan: a running flow whose context is live is the one its source has    *)
(* registered, so a Stop, a replacement or Close can still reach it, and no      *)
(* source has two live flows. The deferred clean-up of a replaced flow must not  *)
(* unlink its successor (server.go:237-245).                                     *)
NoOrphan == \A f \in Flow : Running(f) /\ ctx[f] = "live" => downs[owner[f]] = f

(* The registry holds no dead entry: what it names is a flow of that very        *)
(* source whose goroutine has not finished (no leak in downs).                   *)
RegistrySound ==
    \A s \in Source : downs[s] # NoFlow => Running(downs[s]) /\ owner[downs[s]] = s

(* The gate: every flow ever started is for an address the server has sent a     *)
(* cookie to before (server.go:175-178).                                         *)
GateHolds == \A f \in Flow : pc[f] # "none" => \E c \in issued : c.ip = IpOf[owner[f]]

(* What holds the three together: Serve is inside at most one Start; no context  *)
(* exists before a Start; no goroutine leaves its loop while its context is live. *)
OneStart ==
    \A f, g \in Flow : {pc[f], pc[g]} \subseteq {"created", "registered"} => f = g
ContextSound ==
    \A f \in Flow : /\ ctx[f] = "none" <=> pc[f] = "none"
                    /\ pc[f] \in {"exiting", "retired"} => ctx[f] = "done"

(* The inductive invariant of the registry. *)
IInv == TypeOK /\ NoOrphan /\ RegistrySound /\ GateHolds /\ OneStart /\ ContextSound

(* An entry of the registry is given up or replaced only when its flow is done:  *)
(* no step of any goroutine unlinks a live flow.                                 *)
UnlinkOnlyDone ==
    [][\A s \in Source : downs[s] # NoFlow /\ downs'[s] # downs[s] => ctx'[downs[s]] = "done"]_vars

(* Every started flow comes to an end, whatever its clients do or fail to do.    *)
FlowEnds == \A f \in Flow : (pc[f] = "created") ~> (pc[f] = "retired")

(* Once Serve has returned, the registry drains even if Close is never called.   *)
RegistryDrains == (~serving) ~> (\A s \in Source : downs[s] = NoFlow)

(* "Close cancels any in-flight downstream flows" (server.go:104): once Close    *)
(* has returned, no flow goroutine still has a live context.                     *)
CloseQuiesces == conn = "closed" => \A f \in Flow : Running(f) => ctx[f] = "done"

-----------------------------------------------------------------------------
(* The promise: a source holds its registered flow while that flow's context is live. *)
Granted == [s \in Source |->
              IF downs[s] # NoFlow /\ ctx[downs[s]] = "live" THEN downs[s] ELSE NoFlow]

Promise == INSTANCE FlowGrants WITH
              proven <- {c.ip : c \in issued},
              grant  <- Granted,
              over   <- {f \in Flow : ctx[f] = "done"}

(* The registry implements FlowGrants. *)
KeepsPromise == Promise!Spec
=============================================================================
