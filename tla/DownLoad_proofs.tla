-------------------------- MODULE DownLoad_proofs ---------------------------
(***************************************************************************)
(* The client of a downstream flow agrees with the server whenever its last *)
(* datagram was the last to be handled - for any number of Starts, Stops,   *)
(* losses and duplicates -, and what it measures is its own flow.           *)
(***************************************************************************)
EXTENDS DownLoad, TLAPS

(* Nothing has been sent yet.                                               *)
LEMMA InitLemma == Init => IInv
<1> SUFFICES ASSUME Init
             PROVE  IInv
  OBVIOUS
<1>1. TypeOK
  BY DEF Init, TypeOK
<1>2. NumberingSound
  BY DEF Init, NumberingSound
<1>3. Converges
  BY DEF Init, Converges
<1>4. OneReceiver /\ NoneBeforeCookie /\ StaysAlone
  BY DEF Init, OneReceiver, NoneBeforeCookie, StaysAlone
<1> QED
  BY <1>1, <1>2, <1>3, <1>4 DEF IInv

(* Steps that neither send nor deliver a Start or Stop keep what is wanted. *)
LEMMA QuietStep ==
  ASSUME NumberingSound, Converges,
         serial' = serial, net' = net, handled' = handled, flow' = flow,
         pc' = "on" <=> pc = "on"
  PROVE  NumberingSound' /\ Converges'
  BY DEF NumberingSound, Converges, Wanted

(* Steps that leave the meter and the packets alone, and bring no cookie in or out of use. *)
LEMMA UnmeteredStep ==
  ASSUME NoneBeforeCookie, StaysAlone, UNCHANGED <<meter, serial, token, flow>>,
         \A m \in net' : m.type = "start" => m \in net,
         pc' = "on" => pc = "on", pc' = "hello" => pc = "hello" \/ ~token
  PROVE  NoneBeforeCookie' /\ StaysAlone'
  BY DEF NoneBeforeCookie, StaysAlone, meter

(* The caller's steps keep the inductive invariant. *)
LEMMA CallerStep == IInv /\ (Caller \/ StopDone \/ Handshake) => IInv'
<1> SUFFICES ASSUME IInv, Caller \/ StopDone \/ Handshake
             PROVE  IInv'
  OBVIOUS
<1> USE BoundAssumption
<1> TypeOK /\ NumberingSound /\ Converges /\ OneReceiver /\ NoneBeforeCookie /\ StaysAlone
  BY DEF IInv
<1>1. CASE SetRate
  <2>1. TypeOK' /\ OneReceiver'
    BY <1>1 DEF SetRate, TypeOK, OneReceiver, meter
  <2>2. NumberingSound' /\ Converges'
    BY <1>1, QuietStep DEF SetRate
  <2>3. NoneBeforeCookie' /\ StaysAlone'
    BY <1>1, UnmeteredStep DEF SetRate
  <2> QED
    BY <2>1, <2>2, <2>3 DEF IInv
<1>2. ASSUME NEW then \in {"off", "begin"}, StopCall(then)
      PROVE  IInv'
  <2>1. TypeOK'
    BY <1>2 DEF StopCall, TypeOK, Msg, meter
  <2>2. NumberingSound'
    BY <1>2 DEF StopCall, NumberingSound, TypeOK, Msg
  <2>3. Converges'
    BY <1>2 DEF StopCall, NumberingSound, Converges, TypeOK
  <2>4. OneReceiver' /\ NoneBeforeCookie' /\ StaysAlone'
    BY <1>2 DEF StopCall, OneReceiver, NoneBeforeCookie, StaysAlone, meter
  <2> QED
    BY <2>1, <2>2, <2>3, <2>4 DEF IInv
<1>3. CASE StopDone
  <2>1. TypeOK' /\ OneReceiver'
    BY <1>3 DEF StopDone, TypeOK, OneReceiver, meter
  <2>2. NumberingSound' /\ Converges'
    BY <1>3, QuietStep DEF StopDone, TypeOK
  <2>3. NoneBeforeCookie' /\ StaysAlone'
    BY <1>3, UnmeteredStep DEF StopDone, TypeOK
  <2> QED
    BY <2>1, <2>2, <2>3 DEF IInv
<1>4. CASE SendHello
  <2>1. TypeOK' /\ OneReceiver'
    BY <1>4 DEF SendHello, TypeOK, Msg, OneReceiver, meter
  <2>2. NumberingSound'
    BY <1>4 DEF SendHello, NumberingSound, TypeOK, Msg
  <2>3. Converges'
    BY <1>4 DEF SendHello, Converges, Wanted
  <2>4. NoneBeforeCookie' /\ StaysAlone'
    BY <1>4, UnmeteredStep DEF SendHello
  <2> QED
    BY <2>1, <2>2, <2>3, <2>4 DEF IInv
<1>5. CASE GetCookie
  <2>1. TypeOK' /\ OneReceiver'
    BY <1>5 DEF GetCookie, TypeOK, OneReceiver, meter
  <2>2. NumberingSound' /\ Converges'
    BY <1>5, QuietStep DEF GetCookie
  <2>3. NoneBeforeCookie' /\ StaysAlone'
    BY <1>5 DEF GetCookie, NoneBeforeCookie, StaysAlone, meter
  <2> QED
    BY <2>1, <2>2, <2>3 DEF IInv
<1>6. CASE HelloTimeout \/ WriteFails
  <2>1. TypeOK' /\ OneReceiver'
    BY <1>6 DEF HelloTimeout, WriteFails, TypeOK, OneReceiver, meter
  <2>2. NumberingSound' /\ Converges'
    BY <1>6, QuietStep DEF HelloTimeout, WriteFails
  <2>3. NoneBeforeCookie' /\ StaysAlone'
    BY <1>6, UnmeteredStep DEF HelloTimeout, WriteFails
  <2> QED
    BY <2>1, <2>2, <2>3 DEF IInv
<1>7. CASE SendStart
  <2>1. TypeOK' /\ OneReceiver'
    BY <1>7 DEF SendStart, TypeOK, Msg, OneReceiver
  <2>2. NumberingSound'
    BY <1>7 DEF SendStart, NumberingSound, TypeOK, Msg
  <2>3. Converges'
    BY <1>7 DEF SendStart, NumberingSound, Converges, TypeOK
  <2>4. NoneBeforeCookie'
    BY <1>7 DEF SendStart, NoneBeforeCookie
  <2>5. StaysAlone'
    <3>1. alone' => flow = 0 /\ data = {} /\ \A m \in net : m.type # "start"
      BY <1>7, Zenon DEF SendStart
    <3> QED
      BY <1>7, <3>1 DEF SendStart, StaysAlone
  <2> QED
    BY <2>1, <2>2, <2>3, <2>4, <2>5 DEF IInv
<1> QED
  BY <1>1, <1>2, <1>3, <1>4, <1>5, <1>6, <1>7 DEF Caller, Handshake

(* Whatever recvLoop counts is under way, so a flow that started alone stays alone. *)
LEMMA RecvStep == IInv /\ Recv => IInv'
<1> SUFFICES ASSUME IInv, Recv
             PROVE  IInv'
  OBVIOUS
<1> TypeOK /\ NumberingSound /\ Converges /\ OneReceiver /\ NoneBeforeCookie /\ StaysAlone
  BY DEF IInv
<1>1. NumberingSound' /\ Converges'
  BY QuietStep DEF Recv, RecvTop, RecvTimeout, RecvCookie, RecvData
<1>2. CASE RecvTop \/ RecvTimeout
  <2>1. TypeOK' /\ OneReceiver'
    BY <1>2 DEF RecvTop, RecvTimeout, TypeOK, OneReceiver, meter
  <2>2. NoneBeforeCookie' /\ StaysAlone'
    BY <1>2, UnmeteredStep DEF RecvTop, RecvTimeout
  <2> QED
    BY <1>1, <2>1, <2>2 DEF IInv
<1>3. ASSUME NEW n \in data \cup {0}, Count(n), data' \subseteq data, rd = "read", rd' = "top",
             cookie' \in BOOLEAN,
             UNCHANGED <<pc, next, token, serial, net, dups, flow, handled, alone>>
      PROVE  IInv'
  <2>1. TypeOK' /\ OneReceiver'
    <3>1. n \in Nat
      BY DEF TypeOK
    <3>2. win' \subseteq Nat /\ rate' \subseteq Nat
      BY <1>3, <3>1 DEF Count, TypeOK
    <3> QED
      BY <1>3, <3>2 DEF TypeOK, OneReceiver
  <2>2. NoneBeforeCookie'
    BY <1>3 DEF NoneBeforeCookie
  <2>3. StaysAlone'
    BY <1>3 DEF Count, StaysAlone
  <2> QED
    BY <1>1, <2>1, <2>2, <2>3 DEF IInv
<1>4. CASE RecvCookie
  BY <1>3, <1>4 DEF RecvCookie
<1>5. ASSUME NEW n \in data, RecvData(n)
      PROVE  IInv'
  <2>1. data' \subseteq data /\ cookie' \in BOOLEAN
    BY <1>5 DEF RecvData, TypeOK
  <2> QED
    BY <1>3, <1>5, <2>1 DEF RecvData
<1> QED
  BY <1>2, <1>4, <1>5 DEF Recv

(* Neither the network nor the server's timers disturb it. *)
LEMMA NetworkStep == IInv /\ (Network \/ Expire) => IInv'
<1> SUFFICES ASSUME IInv, Network \/ Expire
             PROVE  IInv'
  OBVIOUS
<1> TypeOK /\ NumberingSound /\ Converges /\ OneReceiver /\ NoneBeforeCookie /\ StaysAlone
  BY DEF IInv
<1>1. ASSUME NEW m \in net, Deliver(m)
      PROVE  IInv'
  <2>1. m \in Msg /\ FlowAfter(m) \in Nat
    BY DEF TypeOK, Msg, FlowAfter
  <2>2. TypeOK' /\ OneReceiver'
    BY <1>1, <2>1 DEF Deliver, TypeOK, Msg, OneReceiver, meter
  <2>3. NumberingSound'
    BY <1>1, <2>1 DEF Deliver, NumberingSound, TypeOK, Msg
  <2>4. Converges'
    BY <1>1, <2>1 DEF Deliver, FlowAfter, NumberingSound, Converges, Wanted, TypeOK, Msg
  <2>5. net' \subseteq net
    BY <1>1 DEF Deliver
  <2>6. NoneBeforeCookie'
    BY <1>1, <2>5 DEF Deliver, FlowAfter, NoneBeforeCookie, meter
  <2>7. StaysAlone'
    BY <1>1, <2>5 DEF Deliver, FlowAfter, StaysAlone, meter
  <2> QED
    BY <2>2, <2>3, <2>4, <2>6, <2>7 DEF IInv
<1>2. ASSUME NEW m \in net, Lose(m)
      PROVE  IInv'
  <2>1. TypeOK' /\ OneReceiver'
    BY <1>2 DEF Lose, TypeOK, OneReceiver, meter
  <2>2. NumberingSound' /\ Converges'
    BY <1>2 DEF Lose, NumberingSound, Converges, Wanted
  <2>3. NoneBeforeCookie' /\ StaysAlone'
    BY <1>2, UnmeteredStep DEF Lose
  <2> QED
    BY <2>1, <2>2, <2>3 DEF IInv
<1>3. CASE LoseCookie
  <2>1. TypeOK' /\ OneReceiver'
    BY <1>3 DEF LoseCookie, TypeOK, OneReceiver, meter
  <2>2. NumberingSound' /\ Converges'
    BY <1>3, QuietStep DEF LoseCookie
  <2>3. NoneBeforeCookie' /\ StaysAlone'
    BY <1>3, UnmeteredStep DEF LoseCookie
  <2> QED
    BY <2>1, <2>2, <2>3 DEF IInv
<1>4. CASE SendData \/ \E n \in data : LoseData(n)
  <2>1. TypeOK' /\ OneReceiver'
    BY <1>4 DEF SendData, LoseData, TypeOK, OneReceiver
  <2>2. NumberingSound' /\ Converges'
    BY <1>4, QuietStep DEF SendData, LoseData
  <2>3. NoneBeforeCookie'
    BY <1>4 DEF SendData, LoseData, NoneBeforeCookie
  <2>4. StaysAlone'
    BY <1>4 DEF SendData, LoseData, StaysAlone
  <2> QED
    BY <2>1, <2>2, <2>3, <2>4 DEF IInv
<1>5. CASE Expire
  <2>1. TypeOK' /\ OneReceiver'
    BY <1>5 DEF Expire, TypeOK, OneReceiver, meter
  <2>2. NumberingSound' /\ Converges'
    BY <1>5 DEF Expire, NumberingSound, Converges, Wanted
  <2>3. NoneBeforeCookie' /\ StaysAlone'
    BY <1>5 DEF Expire, NoneBeforeCookie, StaysAlone, meter
  <2> QED
    BY <2>1, <2>2, <2>3 DEF IInv
<1> QED
  BY <1>1, <1>2, <1>3, <1>4, <1>5 DEF Network

(* Every step keeps the inductive invariant. *)
LEMMA NextLemma == IInv /\ [Next]_vars => IInv'
<1>1. IInv /\ UNCHANGED vars => IInv'
  <2> SUFFICES ASSUME IInv, UNCHANGED vars
               PROVE  IInv'
    OBVIOUS
  <2>1. NumberingSound' /\ Converges'
    BY QuietStep DEF vars, IInv
  <2>2. NoneBeforeCookie' /\ StaysAlone'
    BY UnmeteredStep DEF vars, IInv
  <2> QED
    BY <2>1, <2>2 DEF vars, meter, IInv, TypeOK, OneReceiver
<1> QED
  BY <1>1, CallerStep, RecvStep, NetworkStep DEF Next

(* The numbering argument holds in every reachable state. *)
THEOREM NumberingInvariance == Spec => []IInv
  BY InitLemma, NextLemma, PTL DEF Spec

(* Convergence: when the last datagram handled is the last one sent, the server's   *)
(* flow (server.go:179-208) is the one udpdown.go's client wants, or has expired.    *)
THEOREM ClientAndServerConverge == Spec => []Converges
<1>1. IInv => Converges
  BY DEF IInv
<1> QED
  BY <1>1, NumberingInvariance, PTL

(* The rate of a flow that found nothing of an earlier one is that of this flow. *)
THEOREM RateOfOneFlow == Spec => []RateIsOwn
<1>1. IInv => RateIsOwn
  BY DEF IInv, StaysAlone, RateIsOwn
<1> QED
  BY <1>1, NumberingInvariance, PTL

(* handshake's only read never meets a packet of a flow. *)
THEOREM HandshakeAlone == Spec => []HandshakeUndisturbed
<1>1. IInv => HandshakeUndisturbed
  BY DEF IInv, NoneBeforeCookie, HandshakeUndisturbed
<1> QED
  BY <1>1, NumberingInvariance, PTL

(* Only recvLoop and the next Start change the rate, and Stop waits for recvLoop. *)
THEOREM StopEndsReadings == Spec => QuietWhenStopped
<1>1. IInv /\ [Next]_vars => [rate' # rate => pc \in {"on", "stopping"} \/ pc' = "on"]_vars
  <2> SUFFICES ASSUME OneReceiver, Next, rate' # rate
               PROVE  pc \in {"on", "stopping"} \/ pc' = "on"
    BY DEF IInv
  <2>1. CASE Caller \/ StopDone \/ Handshake
    BY <2>1 DEF Caller, SetRate, StopCall, StopDone, Handshake, SendHello, GetCookie,
                HelloTimeout, SendStart, WriteFails, meter
  <2>2. CASE Recv
    BY <2>2 DEF Recv, RecvTop, RecvTimeout, RecvCookie, RecvData, OneReceiver, meter
  <2>3. CASE Network \/ Expire
    BY <2>3 DEF Network, Deliver, Lose, LoseCookie, SendData, LoseData, Expire, meter
  <2> QED
    BY <2>1, <2>2, <2>3 DEF Next
<1> QED
  BY <1>1, NumberingInvariance, PTL DEF Spec, QuietWhenStopped
=============================================================================
