------------------------- MODULE FlowGrants_proofs --------------------------
(***************************************************************************)
(* The promise keeps what it says: flows are fresh, and end once.           *)
(***************************************************************************)
EXTENDS FlowGrants, TLAPS

(* NoFlow is told from every flow, as nil is from every pointer to a downFlow. *)
NoFlowIsNone == NoFlow \notin Flow

IInv == TypeOK /\ GrantsAreFresh

(* The invariant holds and is kept by Prove, Begin, End and Discard.        *)
LEMMA InitLemma == NoFlowIsNone /\ Init => IInv
  BY DEF NoFlowIsNone, Init, IInv, TypeOK, GrantsAreFresh

LEMMA NextLemma == NoFlowIsNone /\ IInv /\ [Next]_vars => IInv'
<1> SUFFICES ASSUME NoFlowIsNone, IInv, [Next]_vars
             PROVE  IInv'
  OBVIOUS
<1> USE DEF IInv, NoFlowIsNone
<1>1. ASSUME NEW i \in Ip, Prove(i)
      PROVE  IInv'
  BY <1>1 DEF Prove, TypeOK, GrantsAreFresh
<1>2. ASSUME NEW s \in Source, NEW f \in Flow, Begin(s, f)
      PROVE  IInv'
  <2>1. TypeOK'
    BY <1>2 DEF Begin, TypeOK
  <2>2. GrantsAreFresh'
    BY <1>2 DEF Begin, TypeOK, GrantsAreFresh
  <2> QED
    BY <2>1, <2>2
<1>3. ASSUME NEW S \in SUBSET Source, End(S)
      PROVE  IInv'
  <2>1. TypeOK'
    BY <1>3 DEF End, TypeOK
  <2>2. GrantsAreFresh'
    BY <1>3 DEF End, TypeOK, GrantsAreFresh
  <2> QED
    BY <2>1, <2>2
<1>4. ASSUME NEW f \in Flow, Discard(f)
      PROVE  IInv'
  BY <1>4 DEF Discard, TypeOK, GrantsAreFresh
<1>5. CASE UNCHANGED vars
  BY <1>5 DEF vars, TypeOK, GrantsAreFresh
<1> QED
  BY <1>1, <1>2, <1>3, <1>4, <1>5 DEF Next

(* No flow that a source holds has ended, and no two sources hold the same one      *)
(* (onStart, onStop and Close of server.go, through DownFlows' refinement).          *)
THEOREM Freshness == ASSUME NoFlow \notin Flow PROVE Spec => []GrantsAreFresh
<1>0. NoFlowIsNone
  BY DEF NoFlowIsNone
<1>1. IInv => GrantsAreFresh
  BY DEF IInv
<1> QED
  BY <1>0, <1>1, InitLemma, NextLemma, PTL DEF Spec
=============================================================================
