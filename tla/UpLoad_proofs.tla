---------------------------- MODULE UpLoad_proofs ---------------------------
(***************************************************************************)
(* Proofs about the upstream measurement, for any report interval and any   *)
(* number of packets: the published rate never overstates what the server   *)
(* received, and the server's replies stay an interval apart.               *)
(***************************************************************************)
EXTENDS UpLoad, TLAPS

(* The invariant holds before the first report. *)
LEMMA InitIInv == Init => IInv
<1> SUFFICES ASSUME Init PROVE IInv
  OBVIOUS
<1> USE DEF Init
<1>1. /\ now \in Nat /\ bytes \in Nat /\ last \in Nat /\ arrived \in Nat /\ sent \in Nat
      /\ arrived <= sent
  OBVIOUS
<1>2. known \in BOOLEAN /\ snd \in BOOLEAN
  BY Zenon
<1>3. TypeOK
  BY <1>1, <1>2, Zenon DEF TypeOK
<1>4. TallySound /\ ReportsSpaced /\ NeverOverstates
  BY DEF TallySound, ReportsSpaced, NeverOverstates
<1> QED BY <1>3, <1>4 DEF IInv

(* A tallied packet: a report it triggers is later and larger than all before it. *)
LEMMA OnLoadIInv == ASSUME IInv, OnLoad PROVE IInv'
<1> USE IntervalAssumption DEF IInv
<1> DEFINE st == [bytes |-> bytes', t |-> now, total |-> arrived']
<1>0. /\ now \in Nat /\ bytes \in Nat /\ last \in Nat /\ arrived \in Nat /\ sent \in Nat
      /\ arrived' = arrived + 1 /\ arrived' <= sent /\ known' /\ now' = now
      /\ bytes' = IF known THEN bytes + 1 ELSE 1
      /\ UNCHANGED <<sent, flow, snd, rd, prev, pub>>
  BY DEF TypeOK, OnLoad, client
<1>1. bytes' \in Nat /\ st \in Stat
  BY <1>0 DEF Stat
<1>2. last' = (IF known /\ ~ReportDue THEN last ELSE now)
  BY DEF OnLoad
<1>3. CASE ~ReportDue
  <2>1. stats' = stats
    BY <1>3 DEF OnLoad
  <2>2. last' \in Nat /\ last' <= now /\ Base' = Base
    BY <1>0, <1>2, <1>3 DEF TallySound, Base
  <2>3. known' \in BOOLEAN
    BY DEF OnLoad
  <2>4. TypeOK'
    BY <1>0, <1>1, <2>1, <2>2, <2>3 DEF TypeOK
  <2>5. bytes' <= arrived'
    BY <1>0 DEF TallySound
  <2>6. \A a \in stats : /\ a.t <= last' /\ a.bytes <= a.total /\ a.total <= arrived'
                         /\ a.total - a.bytes <= Base'
    BY <1>0, <1>2, <1>3, <2>2 DEF TallySound, TypeOK, Stat
  <2>7. TallySound'
    BY <1>0, <2>1, <2>2, <2>5, <2>6 DEF TallySound
  <2>8. ReportsSpaced' /\ NeverOverstates'
    BY <1>0, <2>1 DEF ReportsSpaced, NeverOverstates
  <2> QED BY <2>4, <2>7, <2>8
<1>4. CASE ReportDue
  <2>1. stats' = stats \cup {st} /\ last' = now /\ known /\ last + Interval <= now
    BY <1>0, <1>2, <1>4 DEF OnLoad, ReportDue
  <2>2. bytes' = bytes + 1 /\ bytes <= arrived /\ Base = arrived - bytes
        /\ Base' = Base /\ st.total - st.bytes = Base
    BY <1>0, <2>1 DEF TallySound, Base
  <2>3. \A a \in stats : /\ a \in Stat /\ a.t + Interval <= st.t /\ a.bytes <= a.total
                         /\ a.total <= arrived /\ a.total - a.bytes <= Base
    BY <1>0, <2>1 DEF TallySound, TypeOK, Stat
  <2>4. known' \in BOOLEAN
    BY DEF OnLoad
  <2>5. TypeOK'
    BY <1>0, <1>1, <2>1, <2>4 DEF TypeOK
  <2>6. ASSUME NEW a \in stats', NEW b \in stats', a.t <= b.t
        PROVE  a.total <= b.total /\ a.total - a.bytes <= b.total - b.bytes
    <3>1. CASE a \in stats /\ b \in stats
      <4>1. \A c, d \in stats : c.t <= d.t => /\ c.total <= d.total
                                              /\ c.total - c.bytes <= d.total - d.bytes
        BY DEF TallySound
      <4> QED BY <3>1, <2>6, <4>1
    <3>2. CASE a = st
      <4>1. b = st
        BY <1>0, <2>1, <2>3, <2>6, <3>2 DEF Stat
      <4> QED BY <3>2, <4>1, <1>0, <1>1
    <3>3. CASE a \in stats /\ b = st
      BY <3>3, <2>2, <2>3, <1>0, <1>1 DEF Stat
    <3> QED BY <2>1, <3>1, <3>2, <3>3
  <2>7. \A a \in stats' : /\ a.bytes <= a.total /\ a.total <= arrived'
                          /\ a.total - a.bytes <= Base' /\ a.t <= last'
    BY <1>0, <2>1, <2>2, <2>3 DEF Stat
  <2>8. TallySound'
    BY <1>0, <2>1, <2>2, <2>6, <2>7 DEF TallySound
  <2>9. ReportsSpaced'
    BY <1>0, <2>1, <2>3 DEF ReportsSpaced, Stat
  <2>10. NeverOverstates'
    BY <1>0 DEF NeverOverstates
  <2> QED BY <2>5, <2>8, <2>9, <2>10
<1> QED BY <1>3, <1>4

(* A restart forgets the tally but not the order of what was reported. *)
LEMMA RestartIInv == ASSUME IInv, ServerRestart PROVE IInv'
<1> USE DEF IInv, ServerRestart, client
<1>1. TypeOK'
  BY DEF TypeOK
<1>2. \A a \in stats : a.t <= now /\ a.total - a.bytes <= arrived
  BY DEF TallySound, TypeOK, Stat
<1>3. TallySound'
  BY <1>2 DEF TallySound, Base
<1>4. ReportsSpaced' /\ NeverOverstates'
  BY DEF ReportsSpaced, NeverOverstates
<1> QED BY <1>1, <1>3, <1>4

(* A report read by the client is one the server sent; a published window is ordered. *)
LEMMA RecvIInv == ASSUME IInv, NEW st \in stats, RecvStat(st) PROVE IInv'
<1> USE DEF IInv, RecvStat, server
<1>1. TypeOK'
  BY DEF TypeOK, Usable
<1>2. TallySound' /\ ReportsSpaced'
  BY DEF TallySound, Base, ReportsSpaced
<1>3. NeverOverstates'
  <2>1. CASE Usable(st)
    <3>1. prev \in stats /\ prev.t < st.t /\ prev.bytes <= st.bytes
      BY <2>1 DEF Usable, TypeOK, Stat
    <3>2. prev \in Stat /\ st \in Stat /\ prev.t <= st.t
      BY <3>1 DEF TypeOK, Stat
    <3>3. prev.total - prev.bytes <= st.total - st.bytes
      BY <3>1, <3>2 DEF TallySound
    <3>4. st.bytes - prev.bytes <= st.total - prev.total
      BY <3>2, <3>3 DEF Stat
    <3>5. pub'.from = prev /\ pub'.to = st
      BY <2>1
    <3> QED BY <3>1, <3>4, <3>5 DEF NeverOverstates
  <2>2. CASE ~Usable(st)
    BY <2>2 DEF NeverOverstates
  <2> QED BY <2>1, <2>2
<1> QED BY <1>1, <1>2, <1>3

(* Sending, reporting, restarting and reading keep it. *)
LEMMA NextIInv == IInv /\ [Next]_vars => IInv'
<1> SUFFICES ASSUME IInv, [Next]_vars PROVE IInv'
  OBVIOUS
<1>1. CASE ClockTick
  BY <1>1 DEF ClockTick, client, IInv, TypeOK, TallySound, Base, ReportsSpaced, NeverOverstates, Stat
<1>2. CASE Start
  BY <1>2 DEF Start, server, IInv, TypeOK, TallySound, Base, ReportsSpaced, NeverOverstates
<1>3. CASE StopCall \/ StopDone
  BY <1>3 DEF StopCall, StopDone, server, IInv, TypeOK, TallySound, Base, ReportsSpaced,
     NeverOverstates
<1>4. CASE SendPkt
  BY <1>4 DEF SendPkt, server, client, IInv, TypeOK, TallySound, Base, ReportsSpaced,
     NeverOverstates
<1>5. CASE SendExit
  BY <1>5 DEF SendExit, server, IInv, TypeOK, TallySound, Base, ReportsSpaced, NeverOverstates
<1>6. CASE RecvTop \/ RecvNothing
  BY <1>6 DEF RecvTop, RecvNothing, server, IInv, TypeOK, TallySound, Base, ReportsSpaced,
     NeverOverstates
<1>7. CASE UNCHANGED vars
  BY <1>7 DEF vars, server, client, IInv, TypeOK, TallySound, Base, ReportsSpaced,
     NeverOverstates
<1> QED
  BY <1>1, <1>2, <1>3, <1>4, <1>5, <1>6, <1>7, OnLoadIInv, RestartIInv, RecvIInv DEF Next, Recv

(* The measurement's inductive invariant holds throughout. *)
THEOREM MeasurementInvariance == Spec => []IInv
BY InitIInv, NextIInv, PTL DEF Spec

(* A published rate never exceeds what the server really received in its window,   *)
(* whatever was lost, duplicated or reordered, and over restarts of the server.    *)
THEOREM RateNeverOverstates == Spec => []NeverOverstates
BY MeasurementInvariance, PTL DEF IInv

(* Replies are at least a report interval apart, also over a restart. *)
THEOREM RepliesAreSpaced == Spec => []ReportsSpaced
BY MeasurementInvariance, PTL DEF IInv

(* Stop is over only when recvLoop is: between Stop and Start nobody reads reports. *)
NoReader == flow = "off" => rd = "off"

(* Only SetRateBps starts a reader, and Stop waits for it. *)
LEMMA NextNoReader == NoReader /\ [Next]_vars => NoReader'
<1> SUFFICES ASSUME NoReader, [Next]_vars PROVE NoReader'
  OBVIOUS
<1> USE DEF NoReader, client, server
<1>1. CASE OnLoad \/ ServerRestart \/ ClockTick \/ SendPkt
  BY <1>1 DEF OnLoad, ServerRestart, ClockTick, SendPkt
<1>2. CASE Start \/ StopCall \/ StopDone \/ SendExit
  BY <1>2 DEF Start, StopCall, StopDone, SendExit
<1>3. CASE RecvTop \/ RecvNothing
  BY <1>3 DEF RecvTop, RecvNothing
<1>4. ASSUME NEW st \in stats, RecvStat(st) PROVE NoReader'
  BY <1>4 DEF RecvStat
<1>5. CASE UNCHANGED vars
  BY <1>5 DEF vars
<1> QED BY <1>1, <1>2, <1>3, <1>4, <1>5 DEF Next, Recv

(* No step changes the reading while the controller is and stays off. *)
THEOREM StopEndsUpdates == Spec => QuietWhenOff
<1>1. Init => NoReader
  BY DEF Init, NoReader
<1>2. NoReader /\ [Next]_vars => [flow = "off" /\ flow' = "off" => pub' = pub]_vars
  <2> SUFFICES ASSUME NoReader, [Next]_vars, flow = "off", flow' = "off" PROVE pub' = pub
    OBVIOUS
  <2> USE DEF client, server
  <2>1. CASE OnLoad \/ ServerRestart \/ ClockTick \/ SendPkt
    BY <2>1 DEF OnLoad, ServerRestart, ClockTick, SendPkt
  <2>2. CASE Start \/ StopCall \/ StopDone \/ SendExit
    BY <2>2 DEF Start, StopCall, StopDone, SendExit
  <2>3. CASE RecvTop \/ RecvNothing
    BY <2>3 DEF RecvTop, RecvNothing
  <2>4. ASSUME NEW st \in stats, RecvStat(st) PROVE pub' = pub
    BY <2>4 DEF RecvStat, NoReader
  <2>5. CASE UNCHANGED vars
    BY <2>5 DEF vars
  <2> QED BY <2>1, <2>2, <2>3, <2>4, <2>5 DEF Next, Recv
<1> QED BY <1>1, <1>2, NextNoReader, PTL DEF Spec, QuietWhenOff
=============================================================================
