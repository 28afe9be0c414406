----------------------------- MODULE FlowGrants -----------------------------
(***************************************************************************)
(* What the server's downstream endpoint promises, with no goroutine, map   *)
(* or lock in sight.  A source holds at most one flow; a flow begins only   *)
(* for an address that has proved it can be reached; a flow that is over    *)
(* never comes back.  DownFlows is shown to implement this specification.   *)
(***************************************************************************)
CONSTANTS Source,    \* source addresses, ip:port
          Ip,        \* IP addresses
          IpOf,      \* the IP of a source
          Flow,      \* identities of flows
          NoFlow     \* "no flow is granted", no member of Flow

VARIABLES proven,    \* addresses that were sent a cookie
          grant,     \* the flow a source holds
          over       \* the flows that have ended

vars == <<proven, grant, over>>

TypeOK == /\ proven \subseteq Ip
          /\ grant \in [Source -> Flow \cup {NoFlow}]
          /\ over \subseteq Flow

Init == /\ proven = {}
        /\ grant = [s \in Source |-> NoFlow]
        /\ over = {}

(* A handshake reached an address. *)
Prove(i) == /\ proven' = proven \cup {i}
            /\ UNCHANGED <<grant, over>>

(* A new flow begins at s, ending the one s held. *)
Begin(s, f) == /\ IpOf[s] \in proven
               /\ f \notin over
               /\ \A t \in Source : grant[t] # f
               /\ grant' = [grant EXCEPT ![s] = f]
               /\ over' = over \cup ({grant[s]} \ {NoFlow})
               /\ UNCHANGED proven

(* Some granted flows end together: one by a stop or its deadline, all of them by Close. *)
End(S) == /\ \A s \in S : grant[s] # NoFlow
          /\ grant' = [s \in Source |-> IF s \in S THEN NoFlow ELSE grant[s]]
          /\ over' = over \cup {grant[s] : s \in S}
          /\ UNCHANGED proven

(* A flow that was never granted is given up. *)
Discard(f) == /\ \A s \in Source : grant[s] # f
              /\ over' = over \cup {f}
              /\ UNCHANGED <<proven, grant>>

Next == \/ \E i \in Ip : Prove(i)
        \/ \E s \in Source, f \in Flow : Begin(s, f)
        \/ \E S \in SUBSET Source : End(S)
        \/ \E f \in Flow : Discard(f)

Spec == Init /\ [][Next]_vars

(* No granted flow is one that has ended, and no two sources hold the same flow. *)
GrantsAreFresh ==
    \A s \in Source : grant[s] # NoFlow =>
        /\ grant[s] \notin over
        /\ \A t \in Source : grant[t] = grant[s] => t = s
=============================================================================
