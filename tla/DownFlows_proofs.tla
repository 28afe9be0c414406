-------------------------- MODULE DownFlows_proofs --------------------------
(***************************************************************************)
(* Proofs about the downstream registry, for any set of sources, addresses, *)
(* sessions and flows: the inductive invariant IInv, the safety properties  *)
(* that follow from it, and that DownFlows implements FlowGrants.           *)
(***************************************************************************)
EXTENDS DownFlows, TLAPS

(* The inductive invariant holds initially. *)
LEMMA InitIInv == Init => IInv
BY NoFlowAssumption DEF Init, IInv, TypeOK, Place, NoOrphan, RegistrySound, GateHolds,
   OneStart, ContextSound, Running, Cookie

(* A handshake only adds a cookie. *)
LEMMA HelloIInv ==
    ASSUME IInv, NEW s \in Source, NEW session \in Session, RecvHello(s, session)
    PROVE  IInv'
<1>1. MakeCookie(session, IpOf[s]) \in Cookie
  BY IpOfAssumption DEF MakeCookie, Cookie
<1> QED
  BY <1>1 DEF IInv, TypeOK, NoOrphan, RegistrySound, GateHolds, OneStart, ContextSound,
     Running, RecvHello

(* A Start creates a flow that nothing names yet. *)
LEMMA StartIInv ==
    ASSUME IInv, NEW s \in Source, NEW session \in Session,
           NEW cookie \in issued \cup {NoCookie}, NEW f \in Flow,
           RecvStart(s, session, cookie, f)
    PROVE  IInv'
<1> USE DEF IInv, RecvStart, CanRead, AtRead
<1>1. TypeOK'
  BY DEF TypeOK, Place
<1>2. cookie \in issued /\ cookie.ip = IpOf[s]
  BY NoCookieAssumption, IpOfAssumption DEF VerifyCookie, MakeCookie
<1>3. NoOrphan' /\ RegistrySound'
  BY DEF NoOrphan, RegistrySound, TypeOK, Running
<1>4. GateHolds'
  BY <1>2 DEF GateHolds, TypeOK
<1>5. OneStart'
  BY DEF OneStart, TypeOK
<1>6. ContextSound'
  BY DEF ContextSound, TypeOK
<1> QED BY <1>1, <1>3, <1>4, <1>5, <1>6

(* Registration cancels exactly the flow it displaces. *)
LEMMA RegisterIInv ==
    ASSUME IInv, NEW f \in Flow, Register(f)
    PROVE  IInv'
<1> USE DEF IInv, Register, Cancelled
<1>1. TypeOK'
  BY DEF TypeOK, Place
<1>2. NoOrphan'
  <2> SUFFICES ASSUME NEW g \in Flow, Running(g)', ctx'[g] = "live"
               PROVE  downs'[owner'[g]] = g
    BY DEF NoOrphan
  <2>1. CASE g = f
    BY <2>1 DEF TypeOK
  <2>2. CASE g # f
    <3>1. Running(g) /\ ctx[g] = "live" /\ g # downs[owner[f]]
      BY <2>2 DEF Running, TypeOK
    <3>2. downs[owner[g]] = g
      BY <3>1 DEF NoOrphan
    <3> QED BY <3>1, <3>2, <2>2 DEF TypeOK
  <2> QED BY <2>1, <2>2
<1>3. RegistrySound'
  BY NoFlowAssumption DEF RegistrySound, TypeOK, Running
<1>4. GateHolds'
  BY DEF GateHolds, TypeOK
<1>5. OneStart'
  BY DEF OneStart, TypeOK
<1>6. ContextSound'
  <2>1. downs[owner[f]] \in Flow => pc[downs[owner[f]]] # "none"
    BY NoFlowAssumption DEF RegistrySound, Running, TypeOK
  <2> QED BY <2>1 DEF ContextSound, TypeOK
<1> QED BY <1>1, <1>2, <1>3, <1>4, <1>5, <1>6

(* A Stop cancels the flow it unlinks. *)
LEMMA StopIInv ==
    ASSUME IInv, NEW s \in Source, NEW session \in Session,
           NEW cookie \in issued \cup {NoCookie}, RecvStop(s, session, cookie)
    PROVE  IInv'
<1> USE DEF IInv, RecvStop, Cancelled
<1>1. TypeOK'
  BY DEF TypeOK, Place
<1>2. NoOrphan'
  <2> SUFFICES ASSUME NEW g \in Flow, Running(g)', ctx'[g] = "live"
               PROVE  downs'[owner'[g]] = g
    BY DEF NoOrphan
  <2>1. Running(g) /\ ctx[g] = "live" /\ g # downs[s]
    BY DEF Running, TypeOK
  <2> QED BY <2>1 DEF NoOrphan, TypeOK
<1>3. RegistrySound'
  BY DEF RegistrySound, TypeOK, Running
<1>4. GateHolds' /\ OneStart'
  BY DEF GateHolds, OneStart, TypeOK
<1>5. ContextSound'
  <2>1. downs[s] \in Flow => pc[downs[s]] # "none"
    BY NoFlowAssumption DEF RegistrySound, Running, TypeOK
  <2> QED BY <2>1 DEF ContextSound, TypeOK
<1> QED BY <1>1, <1>2, <1>3, <1>4, <1>5

(* Close cancels all it unlinks. *)
LEMMA SweepIInv ==
    ASSUME IInv, CloseSweep
    PROVE  IInv'
<1> USE DEF IInv, CloseSweep, Cancelled
<1>1. TypeOK'
  BY DEF TypeOK, Place
<1>2. NoOrphan'
  <2> SUFFICES ASSUME NEW g \in Flow, Running(g)', ctx'[g] = "live" PROVE FALSE
    BY DEF NoOrphan
  <2>1. Running(g) /\ ctx[g] = "live" /\ \A s \in Source : g # downs[s]
    BY DEF Running, TypeOK
  <2>2. downs[owner[g]] = g /\ owner[g] \in Source
    BY <2>1 DEF NoOrphan, TypeOK
  <2> QED BY <2>1, <2>2
<1>3. RegistrySound'
  BY DEF RegistrySound
<1>4. GateHolds' /\ OneStart'
  BY DEF GateHolds, OneStart, TypeOK
<1>5. ContextSound'
  <2>1. \A s \in Source : downs[s] \in Flow => pc[downs[s]] # "none"
    BY NoFlowAssumption DEF RegistrySound, Running, TypeOK
  <2> QED BY <2>1 DEF ContextSound, TypeOK
<1> QED BY <1>1, <1>2, <1>3, <1>4, <1>5

(* A flow's own steps and its deadline. *)
LEMMA FlowIInv ==
    ASSUME IInv, NEW f \in Flow, Spawn(f) \/ DownLoop(f) \/ Expire(f)
    PROVE  IInv'
<1> USE DEF IInv
<1>1. CASE Spawn(f)
  BY <1>1 DEF Spawn, TypeOK, Place, NoOrphan, RegistrySound, GateHolds, OneStart,
     ContextSound, Running
<1>2. CASE Tick(f)
  BY <1>2 DEF Tick, TypeOK, Place, NoOrphan, RegistrySound, GateHolds, OneStart,
     ContextSound, Running
<1>3. CASE EndBatch(f)
  BY <1>3 DEF EndBatch, TypeOK, Place, NoOrphan, RegistrySound, GateHolds, OneStart,
     ContextSound, Running
<1>4. CASE SeeDone(f)
  BY <1>4 DEF SeeDone, TypeOK, Place, NoOrphan, RegistrySound, GateHolds, OneStart,
     ContextSound, Running
<1>5. CASE Expire(f)
  BY <1>5 DEF Expire, Cancelled, TypeOK, Place, NoOrphan, RegistrySound, GateHolds,
     OneStart, ContextSound, Running
<1>6. CASE Retire(f)
  <2> USE <1>6 DEF Retire, Unlinked
  <2>1. TypeOK'
    BY DEF TypeOK, Place
  <2>2. ctx[f] = "done"
    BY DEF ContextSound
  <2>3. NoOrphan'
    BY <2>2 DEF NoOrphan, Running, TypeOK
  <2>4. RegistrySound'
    BY DEF RegistrySound, Running, TypeOK
  <2>5. GateHolds' /\ OneStart' /\ ContextSound'
    BY <2>2 DEF GateHolds, OneStart, ContextSound, TypeOK
  <2> QED BY <2>1, <2>3, <2>4, <2>5
<1> QED BY <1>1, <1>2, <1>3, <1>4, <1>5, <1>6 DEF DownLoop

(* Every step keeps the inductive invariant. *)
LEMMA NextIInv == IInv /\ [Next]_vars => IInv'
<1> SUFFICES ASSUME IInv, [Next]_vars PROVE IInv'
  OBVIOUS
<1>1. CASE UNCHANGED vars
  BY <1>1 DEF vars, IInv, TypeOK, NoOrphan, RegistrySound, GateHolds, OneStart,
     ContextSound, Running
<1>2. ASSUME ServeReturn \/ CloseConn PROVE IInv'
  <2> USE <1>2 DEF ServeReturn, CloseConn, IInv
  <2>1. UNCHANGED <<issued, downs, owner, ctx, pc>>
    OBVIOUS
  <2>2. TypeOK'
    BY DEF TypeOK, Place, Cookie
  <2>3. NoOrphan' /\ RegistrySound' /\ GateHolds' /\ OneStart' /\ ContextSound'
    BY <2>1 DEF NoOrphan, RegistrySound, GateHolds, OneStart, ContextSound, Running
  <2> QED BY <2>2, <2>3
<1>3. CASE Serve
  BY <1>2, <1>3, HelloIInv, StartIInv, StopIInv, RegisterIInv, FlowIInv DEF Serve
<1>4. CASE Close
  BY <1>2, <1>4, SweepIInv DEF Close
<1>5. CASE \E f \in Flow : DownLoop(f) \/ Expire(f)
  BY <1>5, FlowIInv
<1> QED BY <1>1, <1>3, <1>4, <1>5 DEF Next

-----------------------------------------------------------------------------
(* The inductive invariant holds in every reachable state of the registry. *)
THEOREM Invariance == Spec => []IInv
BY InitIInv, NextIInv, PTL DEF Spec

(* Type correctness of the registry. *)
THEOREM TypeCorrect == Spec => []TypeOK
BY Invariance, PTL DEF IInv

(* A live flow is always the one its source has registered: replacement, Stop,  *)
(* Close and the deferred clean-ups never leave an orphan, in any interleaving.  *)
THEOREM NoOrphans == Spec => []NoOrphan
BY Invariance, PTL DEF IInv

(* The registry never names a finished flow or another source's. *)
THEOREM RegistryIsSound == Spec => []RegistrySound
BY Invariance, PTL DEF IInv

(* No flow is ever started for an address that no cookie was sent to. *)
THEOREM GateAlwaysHolds == Spec => []GateHolds
BY Invariance, PTL DEF IInv

-----------------------------------------------------------------------------
(* No step of any goroutine unlinks a live flow. *)
THEOREM UnlinksOnlyDone == Spec => UnlinkOnlyDone
<1> DEFINE Step == \A s \in Source : downs[s] # NoFlow /\ downs'[s] # downs[s]
                                       => ctx'[downs[s]] = "done"
<1>1. IInv /\ [Next]_vars => [Step]_vars
  <2> SUFFICES ASSUME IInv, Next, NEW s \in Source, downs[s] # NoFlow, downs'[s] # downs[s]
               PROVE  ctx'[downs[s]] = "done"
    BY DEF vars
  <2> USE DEF IInv, TypeOK
  <2>0. downs[s] \in Flow /\ ctx \in [Flow -> {"none", "live", "done"}]
    OBVIOUS
  <2>1. ASSUME NEW f \in Flow, Register(f) PROVE ctx'[downs[s]] = "done"
    BY <2>0, <2>1 DEF Register, Cancelled
  <2>2. ASSUME NEW f \in Flow, Retire(f) PROVE ctx'[downs[s]] = "done"
    BY <2>0, <2>2 DEF Retire, Unlinked, ContextSound
  <2>3. ASSUME NEW t \in Source, NEW session \in Session, NEW cookie, RecvStop(t, session, cookie)
        PROVE  ctx'[downs[s]] = "done"
    BY <2>0, <2>3 DEF RecvStop, Cancelled
  <2>4. CASE CloseSweep
    BY <2>0, <2>4 DEF CloseSweep, Cancelled
  <2>5. ASSUME NEW f \in Flow, Spawn(f) \/ Tick(f) \/ EndBatch(f) \/ SeeDone(f) \/ Expire(f)
        PROVE  FALSE
    BY <2>5 DEF Spawn, Tick, EndBatch, SeeDone, Expire
  <2>6. ASSUME NEW t \in Source, NEW session \in Session, NEW cookie, NEW f \in Flow,
               RecvHello(t, session) \/ RecvStart(t, session, cookie, f)
        PROVE  FALSE
    BY <2>6 DEF RecvHello, RecvStart
  <2>7. CASE ServeReturn \/ CloseConn
    BY <2>7 DEF ServeReturn, CloseConn
  <2> QED
    BY <2>1, <2>2, <2>3, <2>4, <2>5, <2>6, <2>7 DEF Next, Serve, Close, DownLoop
<1>2. UnlinkOnlyDone <=> [][Step]_vars
  BY PTL DEF UnlinkOnlyDone
<1> QED
  BY <1>1, <1>2, Invariance, PTL DEF Spec

-----------------------------------------------------------------------------
(* Refinement. Proven and Over are what `proven` and `over` of FlowGrants map to. *)
Proven == {c.ip : c \in issued}
Over == {f \in Flow : ctx[f] = "done"}

(* Cancelling what the sources in S have registered, and unlinking it, ends the  *)
(* grants of those in S that held one and no other.                              *)
LEMMA CancelEnds ==
    ASSUME IInv, NEW S \in SUBSET Source,
           ctx' = Cancelled({downs[s] : s \in S}),
           downs' = [s \in Source |-> IF s \in S THEN NoFlow ELSE downs[s]],
           UNCHANGED issued
    PROVE  Promise!Next
<1>0. PICK T \in SUBSET Source : T = {s \in S : Granted[s] # NoFlow}
  OBVIOUS
<1> USE <1>0 DEF IInv, TypeOK
<1>1. Granted' = [s \in Source |-> IF s \in T THEN NoFlow ELSE Granted[s]]
  <2> SUFFICES ASSUME NEW s \in Source
               PROVE Granted'[s] = IF s \in T THEN NoFlow ELSE Granted[s]
    BY DEF Granted
  <2>1. CASE s \in S
    BY <2>1 DEF Granted
  <2>2. CASE s \notin S
    <3>1. ASSUME downs[s] # NoFlow PROVE \A t \in S : downs[t] # downs[s]
      BY <2>2, <3>1 DEF RegistrySound
    <3>2. downs[s] # NoFlow => downs[s] \in Flow /\ ctx'[downs[s]] = ctx[downs[s]]
      BY <3>1 DEF Cancelled
    <3> QED BY <2>2, <3>2 DEF Granted
  <2> QED BY <2>1, <2>2
<1>2. Over' = Over \cup {Granted[s] : s \in T}
  <2>1. ASSUME NEW f \in Over' PROVE f \in Over \cup {Granted[s] : s \in T}
    <3>1. CASE ctx[f] = "done"
      BY <2>1, <3>1 DEF Over
    <3>2. CASE ctx[f] # "done"
      <4>1. PICK s \in S : downs[s] = f
        BY <2>1, <3>2 DEF Over, Cancelled
      <4>2. ctx[f] = "live" /\ f # NoFlow
        BY <2>1, <3>2, <4>1, NoFlowAssumption DEF Over, RegistrySound, Running, ContextSound
      <4> QED BY <4>1, <4>2 DEF Granted
    <3> QED BY <3>1, <3>2
  <2>2. ASSUME NEW f \in Over PROVE f \in Over'
    BY <2>2 DEF Over, Cancelled
  <2>3. ASSUME NEW s \in T PROVE Granted[s] \in Over'
    BY <2>3 DEF Over, Cancelled, Granted
  <2> QED BY <2>1, <2>2, <2>3
<1>3. Promise!End(T)
  BY <1>1, <1>2 DEF Promise!End, Over, Proven
<1> QED
  BY <1>3 DEF Promise!Next

(* A registration begins the new flow, or, if that flow is already done, just ends the old. *)
LEMMA RegisterKeepsPromise ==
    ASSUME IInv, NEW f \in Flow, Register(f)
    PROVE  [Promise!Next]_(Promise!vars)
<1> USE DEF IInv, TypeOK, Register
<1>s. PICK s \in Source : s = owner[f]
  OBVIOUS
<1> USE <1>s
<1>a. /\ Granted = [t \in Source |-> Granted[t]]
      /\ Granted' = [t \in Source |-> Granted'[t]]
  BY DEF Granted
<1>0. s \in Source /\ f # NoFlow /\ \A t \in Source : downs[t] # f
  BY NoFlowAssumption DEF RegistrySound, Running
<1>1. PICK c \in issued : c.ip = IpOf[s]
  BY DEF GateHolds
<1>2. \A t \in Source \ {s} : Granted'[t] = Granted[t]
  <2> SUFFICES ASSUME NEW t \in Source \ {s} PROVE Granted'[t] = Granted[t]
    OBVIOUS
  <2>1. downs'[t] = downs[t]
    OBVIOUS
  <2>2. downs[t] # NoFlow => downs[t] \in Flow /\ downs[t] # downs[s]
    BY <1>0 DEF RegistrySound
  <2>3. downs[t] # NoFlow => ctx'[downs[t]] = ctx[downs[t]]
    BY <2>2 DEF Cancelled
  <2> QED BY <2>1, <2>3 DEF Granted
<1>3. Over' = Over \cup ({Granted[s]} \ {NoFlow})
  <2>1. \A g \in Flow : g = downs[s] => ctx[g] \in {"live", "done"}
    BY <1>0, NoFlowAssumption DEF RegistrySound, Running, ContextSound
  <2> QED BY <1>0, <2>1, NoFlowAssumption DEF Over, Cancelled, Granted
<1>4. CASE ctx[f] = "live"
  <2>1. Granted' = [Granted EXCEPT ![s] = f]
    <3>1. Granted'[s] = f
      BY <1>0, <1>4 DEF Granted, Cancelled
    <3> QED BY <1>0, <1>2, <3>1 DEF Granted
  <2>2. f \notin Over /\ \A t \in Source : Granted[t] # f
    BY <1>0, <1>4 DEF Over, Granted
  <2>3. Promise!Begin(s, f)
    BY <1>0, <1>1, <1>3, <2>1, <2>2 DEF Promise!Begin, Over, Proven
  <2> QED BY <1>0, <2>3 DEF Promise!Next
<1>5. CASE ctx[f] # "live"
  <2>1. Granted'[s] = NoFlow
    BY <1>0, <1>5 DEF Granted, Cancelled
  <2>2. CASE Granted[s] = NoFlow
    <3>1. Granted' = Granted
      BY <1>a, <1>2, <2>1, <2>2
    <3> QED BY <3>1, <1>3, <2>2 DEF Promise!vars, Over
  <2>3. CASE Granted[s] # NoFlow
    <3>1. Granted' = [t \in Source |-> IF t \in {s} THEN NoFlow ELSE Granted[t]]
      BY <1>a, <1>2, <2>1
    <3>2. Over' = Over \cup {Granted[t] : t \in {s}} /\ UNCHANGED Proven
      BY <1>3, <2>3 DEF Proven
    <3>3. Promise!End({s})
      BY <2>3, <3>1, <3>2 DEF Promise!End, Over, Proven
    <3> QED BY <3>3 DEF Promise!Next
  <2> QED BY <2>2, <2>3
<1> QED BY <1>4, <1>5

(* Every step of the server maps to a step of FlowGrants or to a stutter. *)
LEMMA NextKeepsPromise == IInv /\ [Next]_vars => [Promise!Next]_(Promise!vars)
<1> SUFFICES ASSUME IInv, [Next]_vars PROVE [Promise!Next]_(Promise!vars)
  OBVIOUS
<1> USE DEF IInv, TypeOK
<1>1. ASSUME NEW s \in Source, NEW session \in Session, RecvHello(s, session)
      PROVE  [Promise!Next]_(Promise!vars)
  <2>1. Proven' = Proven \cup {IpOf[s]}
    <3>1. PICK c : /\ c = MakeCookie(session, IpOf[s])
                   /\ c.ip = IpOf[s]
                   /\ issued' = issued \cup {c}
      BY <1>1 DEF RecvHello, MakeCookie
    <3> QED BY <3>1 DEF Proven
  <2>2. Granted' = Granted /\ Over' = Over
    BY <1>1 DEF RecvHello, Granted, Over
  <2>3. Promise!Prove(IpOf[s])
    BY <2>1, <2>2 DEF Promise!Prove, Proven, Over
  <2> QED BY <2>3, IpOfAssumption DEF Promise!Next
<1>2. ASSUME NEW s \in Source, NEW session \in Session, NEW cookie, NEW f \in Flow,
             RecvStart(s, session, cookie, f)
      PROVE  [Promise!Next]_(Promise!vars)
  <2>1. Granted' = Granted
    BY <1>2, NoFlowAssumption DEF RecvStart, Granted, RegistrySound, Running
  <2>2. Over' = Over
    BY <1>2 DEF RecvStart, Over, ContextSound
  <2> QED BY <1>2, <2>1, <2>2 DEF RecvStart, Promise!vars, Over
<1>3. ASSUME NEW s \in Source, NEW session \in Session, NEW cookie,
             RecvStop(s, session, cookie)
      PROVE  [Promise!Next]_(Promise!vars)
  <2>1. {downs[t] : t \in {s}} = {downs[s]}
    OBVIOUS
  <2>2. downs' = [t \in Source |-> IF t \in {s} THEN NoFlow ELSE downs[t]]
    BY <1>3 DEF RecvStop
  <2>3. ctx' = Cancelled({downs[t] : t \in {s}}) /\ UNCHANGED issued
    BY <1>3, <2>1 DEF RecvStop
  <2>4. {s} \in SUBSET Source
    OBVIOUS
  <2> QED BY <2>2, <2>3, <2>4, CancelEnds
<1>4. CASE CloseSweep
  <2>1. /\ Source \in SUBSET Source
        /\ downs' = [t \in Source |-> IF t \in Source THEN NoFlow ELSE downs[t]]
        /\ ctx' = Cancelled({downs[t] : t \in Source}) /\ UNCHANGED issued
    BY <1>4 DEF CloseSweep
  <2> QED BY <2>1, CancelEnds
<1>5. ASSUME NEW f \in Flow, Expire(f) PROVE [Promise!Next]_(Promise!vars)
  <2>1. CASE Running(f)
    <3>s. PICK s \in Source : s = owner[f]
      OBVIOUS
    <3> USE <3>s
    <3>1. downs[s] = f /\ s \in Source /\ f # NoFlow
      BY <1>5, <2>1, NoFlowAssumption DEF Expire, NoOrphan
    <3>2. Granted[s] = f /\ Granted'[s] = NoFlow
      BY <1>5, <3>1 DEF Expire, Cancelled, Granted
    <3>3. \A t \in Source \ {s} : Granted'[t] = Granted[t]
      BY <1>5, <3>1 DEF Expire, Cancelled, Granted, RegistrySound
    <3>4. Granted' = [t \in Source |-> IF t \in {s} THEN NoFlow ELSE Granted[t]]
      BY <3>1, <3>2, <3>3 DEF Granted
    <3>5. Over' = Over \cup {f}
      BY <1>5 DEF Expire, Cancelled, Over
    <3>6. Promise!End({s})
      BY <1>5, <3>1, <3>2, <3>4, <3>5 DEF Expire, Promise!End, Over, Proven
    <3> QED BY <3>1, <3>6 DEF Promise!Next
  <2>2. CASE ~Running(f)
    <3>1. \A t \in Source : downs[t] # f
      BY <2>2, NoFlowAssumption DEF RegistrySound
    <3>2. Granted' = Granted /\ \A t \in Source : Granted[t] # f
      BY <1>5, <3>1, NoFlowAssumption DEF Expire, Cancelled, Granted
    <3>3. Over' = Over \cup {f}
      BY <1>5 DEF Expire, Cancelled, Over
    <3>4. Promise!Discard(f)
      BY <1>5, <3>2, <3>3 DEF Expire, Promise!Discard, Over, Proven
    <3> QED BY <3>4 DEF Promise!Next
  <2> QED BY <2>1, <2>2
<1>6. ASSUME NEW f \in Flow, Retire(f) PROVE [Promise!Next]_(Promise!vars)
  <2>1. ctx[f] = "done"
    BY <1>6 DEF Retire, ContextSound
  <2>2. Granted' = Granted
    BY <1>6, <2>1 DEF Retire, Unlinked, Granted
  <2> QED BY <1>6, <2>2 DEF Retire, Promise!vars
<1>7. ASSUME UNCHANGED <<issued, downs, ctx>> PROVE [Promise!Next]_(Promise!vars)
  BY <1>7 DEF Promise!vars, Granted
<1>8. ASSUME NEW f \in Flow, Spawn(f) \/ Tick(f) \/ EndBatch(f) \/ SeeDone(f)
      PROVE  UNCHANGED <<issued, downs, ctx>>
  BY <1>8 DEF Spawn, Tick, EndBatch, SeeDone
<1>9. ASSUME ServeReturn \/ CloseConn \/ UNCHANGED vars
      PROVE  UNCHANGED <<issued, downs, ctx>>
  BY <1>9 DEF ServeReturn, CloseConn, vars
<1> QED
  BY <1>1, <1>2, <1>3, <1>4, <1>5, <1>6, <1>7, <1>8, <1>9, RegisterKeepsPromise
     DEF Next, Serve, Close, DownLoop

(* The registry of goroutines, contexts and locks implements FlowGrants: one flow *)
(* per source, for proven addresses only, and none that comes back.               *)
THEOREM Refinement == Spec => KeepsPromise
<1>1. Init => Promise!Init
  BY DEF Init, Promise!Init, Granted
<1> QED
  BY <1>1, NextKeepsPromise, Invariance, PTL DEF Spec, KeepsPromise, Promise!Spec

-----------------------------------------------------------------------------
(* What holds of the promise holds of the server. *)
Kept == INSTANCE FlowGrants_proofs WITH
           proven <- {c.ip : c \in issued},
           grant  <- Granted,
           over   <- {f \in Flow : ctx[f] = "done"}

(* A flow that a source is sent has not ended, and no two sources are sent the same one,  *)
(* whatever Starts, Stops, deadlines and Close come together (server.go:217-324).         *)
THEOREM GrantsStayFresh == Spec => []Promise!GrantsAreFresh
<1>1. Kept!NoFlowIsNone
  BY NoFlowAssumption DEF Kept!NoFlowIsNone
<1>2. Promise!Init => Kept!IInv
  BY <1>1, Kept!InitLemma DEF Promise!Init, Kept!Init
<1>3. Kept!IInv /\ [Promise!Next]_(Promise!vars) => Kept!IInv'
  <2>1. [Promise!Next]_(Promise!vars) => [Kept!Next]_(Kept!vars)
    BY DEF Promise!Next, Promise!Prove, Promise!Begin, Promise!End, Promise!Discard, Promise!vars,
           Kept!Next, Kept!Prove, Kept!Begin, Kept!End, Kept!Discard, Kept!vars
  <2> QED BY <1>1, <2>1, Kept!NextLemma
<1>4. Kept!IInv => Promise!GrantsAreFresh
  BY DEF Kept!IInv, Kept!GrantsAreFresh, Promise!GrantsAreFresh
<1> QED
  BY <1>2, <1>3, <1>4, Refinement, PTL DEF KeepsPromise, Promise!Spec
=============================================================================
