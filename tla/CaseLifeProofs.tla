--------------------------- MODULE CaseLifeProofs ---------------------------
(***************************************************************************)
(* For every calendar, amount and bound: the record groups of a live case   *)
(* stay coherent and in order, whatever sequence of acts is accepted.       *)
(***************************************************************************)
EXTENDS CaseLife, CaseRulesProofs

(* The row is one Case.decide can have left, and nothing in it lies behind
   the latest business date a decision has seen. *)
IInv ==
  /\ Proper(row)
  /\ today \in Days
  /\ latest \in Days
  /\ today <= latest
  /\ \A day \in DaysOf(row.claim) : day <= latest

(* Every step is an accepted act, a step of the calendar, or nothing. *)
LEMMA StepIsAct ==
  ASSUME [Next]_vars
  PROVE  (\E act \in Acts : Accept(act)) \/ Calendar \/ UNCHANGED vars
  <1>1. ASSUME Open PROVE \E act \in Acts : Accept(act)
    BY <1>1 DEF Open, Acts
  <1>2. ASSUME AmendRegistration PROVE \E act \in Acts : Accept(act)
    BY <1>2 DEF AmendRegistration, Acts
  <1>3. ASSUME Correct PROVE \E act \in Acts : Accept(act)
    BY <1>3 DEF Correct, Acts
  <1>4. ASSUME DecideClaim PROVE \E act \in Acts : Accept(act)
    BY <1>4 DEF DecideClaim, Acts
  <1>5. ASSUME RecordPayment PROVE \E act \in Acts : Accept(act)
    BY <1>5 DEF RecordPayment, Acts
  <1>6. ASSUME NEW kind \in BareKinds, Bare(kind) PROVE \E act \in Acts : Accept(act)
    BY <1>6 DEF Bare, Acts
  <1> QED
    BY <1>1, <1>2, <1>3, <1>4, <1>5, <1>6 DEF Next, BareKinds

LEMMA InitEstablishes == Init => IInv
  <1> SUFFICES ASSUME Init PROVE IInv
    OBVIOUS
  <1>1. \A day \in DaysOf(Absent.claim) : day <= latest
    BY CaseAssumption DEF Init, Absent, NoClaim, DaysOf, NoDecision, NoDay
  <1> QED
    BY <1>1, CaseAssumption, AbsentIsProper DEF Init, IInv

LEMMA NextPreserves == IInv /\ [Next]_vars => IInv'
  <1> SUFFICES ASSUME IInv, [Next]_vars PROVE IInv'
    OBVIOUS
  <1>1. ASSUME NEW act \in Acts, Accept(act)
        PROVE  IInv'
    <2>1. /\ Refusal(today, act, row.revision, row) = "NONE"
          /\ row' = After(act, row)
          /\ UNCHANGED <<today, latest>>
      BY <1>1 DEF Accept
    <2>2. Proper(row)'
      BY <2>1, DecisionIsProper DEF IInv, Proper
    <2>3. \A day \in DaysOf(row'.claim) : day <= latest
      BY <2>1, AdmittedDaysAreReached, CaseAssumption DEF IInv
    <2> QED
      BY <2>1, <2>2, <2>3 DEF IInv, DaysOf
  <1>2. CASE Calendar
    <2>1. latest' \in Days /\ latest <= latest' /\ today' \in Days /\ today' <= latest'
      BY <1>2, CaseAssumption DEF Calendar, IInv
    <2>2. \A day \in DaysOf(row.claim) : day \in Nat
      BY CaseAssumption
      DEF IInv, Proper, Snapshot, Absent, Claims, NoClaim, DaysOf, Decisions, NoDecision, NoDay
    <2>3. \A day \in DaysOf(row.claim) : day <= latest'
      BY <2>1, <2>2, CaseAssumption DEF IInv
    <2> QED
      BY <1>2, <2>1, <2>3 DEF Calendar, IInv, Proper, DaysOf
  <1>3. CASE UNCHANGED vars
    BY <1>3 DEF vars, IInv, Proper, DaysOf
  <1> QED
    BY <1>1, <1>2, <1>3, StepIsAct

LEMMA Invariance == Spec => []IInv
  BY InitEstablishes, NextPreserves, PTL DEF Spec

(* Every reachable snapshot has the shape Case.decide builds and reads. *)
THEOREM TypeCorrect == Spec => []TypeOK
  <1>1. IInv => TypeOK
    BY DEF IInv, TypeOK, Proper, Live, Coherent
  <1> QED
    BY <1>1, Invariance, PTL

(* The dates of a live case stay in order and a paid decision is never zero,
   whatever single fields corrections and amendments assert. *)
THEOREM ChronologyHolds == Spec => []Chronological
  <1>1. IInv => Chronological
    BY DEF IInv, Chronological, Proper, Live, Coherent
  <1> QED
    BY <1>1, Invariance, PTL

(* CaseCorrections.apply never meets a payment without its decision. *)
THEOREM PaymentKeepsDecision == Spec => []PaymentHasDecision
  <1>1. IInv => PaymentHasDecision
    BY DEF IInv, PaymentHasDecision, Proper, Live, Coherent
  <1> QED
    BY <1>1, Invariance, PTL

(* Transitions.apply admits every offered act that names no day, on whatever
   business date the clock reports. *)
THEOREM BareActsSucceed == Spec => []OfferedBareActsSucceed
  <1>1. IInv => OfferedBareActsSucceed
    BY BareActIsAdmitted DEF IInv, OfferedBareActsSucceed, Live
  <1> QED
    BY <1>1, Invariance, PTL

(* No day was recorded that the business date had not reached at some
   decision, although admission waves through what repeats its own field. *)
THEOREM DaysWereReached == Spec => []NoUnreachedDay
  <1>1. IInv => NoUnreachedDay
    BY DEF IInv, NoUnreachedDay, DaysOf
  <1> QED
    BY <1>1, Invariance, PTL

(* Only REINSTATE and ERASE leave the void state, and neither reads nor
   rewrites the claim it holds before it is gone; Case.decide offers nothing
   on an erased case and counts every acceptance. *)
THEOREM SettingAsideKeeps == Spec => SetAsideIsKept
  <1>1. ASSUME IInv, [Next]_vars, row.state = "VOIDED", row'.state # "ERASED"
        PROVE  row'.claim = row.claim
    <2>1. ASSUME NEW act \in Acts, Accept(act)
          PROVE  row'.claim = row.claim
      <3>1. act.kind \in {"REINSTATE", "ERASE"} /\ row' = After(act, row)
        BY <1>1, <2>1 DEF Accept, Refusal, Offered
      <3> QED
        BY <1>1, <3>1 DEF After, Changed, StateAfter
    <2> QED
      BY <1>1, <2>1, StepIsAct DEF Calendar, vars
  <1>2. ASSUME IInv, [Next]_vars
        PROVE  /\ row.state = "ERASED" => row' = row
               /\ row'.revision >= row.revision
    <2>1. row.revision \in Nat
      BY <1>2 DEF IInv, Proper, Snapshot, Absent
    <2>2. ASSUME NEW act \in Acts, Accept(act)
          PROVE  row.state # "ERASED" /\ row'.revision = row.revision + 1
      BY <1>2, <2>2, DecisionIsProper DEF Accept, Refusal, IInv
    <2> QED
      BY <1>2, <2>1, <2>2, StepIsAct DEF Calendar, vars
  <1>3. IInv /\ [Next]_vars =>
          [/\ row.state = "VOIDED" /\ row'.state # "ERASED" => row'.claim = row.claim
           /\ row.state = "ERASED" => row' = row
           /\ row'.revision >= row.revision]_vars
    BY <1>1, <1>2
  <1> QED
    BY <1>3, Invariance, PTL DEF Spec, SetAsideIsKept
=============================================================================
