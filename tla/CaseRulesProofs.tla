--------------------------- MODULE CaseRulesProofs ---------------------------
(***************************************************************************)
(* What Case.decide leaves behind, for every calendar, amount and act: if   *)
(* the accepted snapshot is proper, so is the next one.                     *)
(***************************************************************************)
EXTENDS CaseRules, TLAPS

(* What the rules keep true of the claim of a live case. Chronology alone is
   not preserved by a correction that keeps a payment, unless a payment is
   known to have its decision. *)
Coherent(claim) ==
  /\ claim \in Claims
  /\ claim.incident <= claim.notified
  /\ CrossProgress(claim.notified, claim.decision, claim.payment)
  /\ claim.payment # NoDay => claim.decision # NoDecision

(* A snapshot the rules can have left: live with a coherent claim, or erased
   with none. *)
Proper(s) ==
  /\ s \in Snapshot \cup {Absent}
  /\ s.state \in {"ACTIVE", "VOIDED"} => Coherent(s.claim)
  /\ s.state = "ERASED" => s.claim = NoClaim

(* An admitted registration opens a coherent claim. *)
LEMMA OpenedIsCoherent ==
  ASSUME NEW date, NEW r \in Registrations,
         AdmitOpen(date, [kind |-> "OPEN", registration |-> r])
  PROVE  Coherent(OpenedClaim(r))
  BY CaseAssumption
  DEF Registrations, AdmitOpen, OpenedClaim, NoClaim, Coherent, Claims, CrossProgress,
      NoDay, NoDecision

(* Merging a partial update with a registration keeps the claim's shape and
   touches neither its decision nor its payment. *)
LEMMA MergeRegistrationType ==
  ASSUME NEW update \in RegistrationUpdates, NEW claim \in Claims
  PROVE  /\ MergeRegistration(update, claim) \in Claims
         /\ MergeRegistration(update, claim).decision = claim.decision
         /\ MergeRegistration(update, claim).payment = claim.payment
         /\ MergeRegistration(update, claim).status = claim.status
  BY DEF MergeRegistration, RegistrationUpdates, Claims, Merged, Kept

(* An admitted amendment of an undecided claim keeps it coherent. *)
LEMMA AmendedIsCoherent ==
  ASSUME NEW date, NEW claim, Coherent(claim),
         NEW update \in RegistrationUpdates,
         Progress(claim) = "UNDECIDED",
         MergeRegistration(update, claim).incident
           <= MergeRegistration(update, claim).notified
  PROVE  Coherent(MergeRegistration(update, claim))
  <1>1. claim.decision = NoDecision
    BY DEF Progress
  <1> QED
    BY <1>1, MergeRegistrationType DEF Coherent, CrossProgress

(* An admitted correction keeps the claim coherent: the groups it leaves are
   checked together, and no payment survives its decision. *)
LEMMA CorrectedIsCoherent ==
  ASSUME NEW date, NEW claim, Coherent(claim), NEW c \in Corrections,
         AdmitCorrection(date, claim, c)
  PROVE  Coherent(Corrected(claim, c))
  <1> DEFINE merged == MergeRegistration(c.registration, claim)
             after  == Corrected(claim, c)
  <1>1. /\ c.registration \in RegistrationUpdates
        /\ c.decision.choice \in {"KEEP", "CLEAR", "UPDATE"}
        /\ c.decision.choice = "UPDATE" => /\ c.decision.date \in Days \cup {Kept}
                                           /\ c.decision.payable \in Amounts \cup {Kept}
        /\ c.payment.choice \in {"KEEP", "CLEAR", "REAFFIRM", "REPLACE"}
        /\ c.payment.choice = "REPLACE" => c.payment.date \in Days
    BY DEF Corrections
  <1>2. merged \in Claims
    BY <1>1, MergeRegistrationType DEF Coherent
  <1>3. /\ claim.decision \in Decisions \cup {NoDecision}
        /\ claim.payment \in Days \cup {NoDay}
    BY DEF Coherent, Claims
  <1>4. CorrectedDecision(claim, c.decision) \in Decisions \cup {NoDecision}
    <2>1. CASE c.decision.choice = "UPDATE"
      <3>1. claim.decision \in Decisions
        BY <1>3, <2>1 DEF AdmitCorrection, CorrectsExistingValues
      <3> QED
        BY <1>1, <2>1, <3>1 DEF CorrectedDecision, Decisions, Merged
    <2> QED
      BY <1>1, <1>3, <2>1 DEF CorrectedDecision
  <1>5. CorrectedPayment(claim, c.payment) \in Days \cup {NoDay}
    BY <1>1, <1>3 DEF CorrectedPayment
  <1>6. /\ after \in Claims
        /\ after.decision = CorrectedDecision(claim, c.decision)
        /\ after.payment = CorrectedPayment(claim, c.payment)
    BY <1>2, <1>4, <1>5 DEF Corrected, Claims
  <1>7. after.payment # NoDay => after.decision # NoDecision
    <2> SUFFICES ASSUME after.payment # NoDay, after.decision = NoDecision
                 PROVE  FALSE
      OBVIOUS
    <2>1. claim.payment # NoDay
      BY <1>1, <1>6 DEF CorrectedPayment, AdmitCorrection, CorrectsExistingValues
    <2>2. Progress(claim) = "PAID" /\ claim.decision # NoDecision
      BY <2>1 DEF Coherent, Progress
    <2>3. c.payment.choice # "CLEAR"
      BY <1>6 DEF CorrectedPayment
    <2>4. c.decision.choice = "UPDATE"
      BY <1>1, <1>6, <2>2, <2>3 DEF CorrectedDecision, AdmitCorrection, PaidAcknowledged
    <2>5. claim.decision \in Decisions
      BY <1>3, <2>2
    <2>6. after.decision.date \in Days
      BY <1>1, <1>6, <2>4, <2>5 DEF CorrectedDecision, Merged, Decisions
    <2> QED
      BY <2>6, CaseAssumption DEF NoDecision, NoDay
  <1> QED
    BY <1>6, <1>7 DEF AdmitCorrection, Coherent

(* Every other business act is admitted on the whole claim it leaves. *)
LEMMA ChangedIsCoherent ==
  ASSUME NEW date, NEW claim, Coherent(claim), NEW act,
         act.kind \in {"DECIDE", "WITHDRAW_DECISION", "RECORD_PAYMENT",
                       "CLEAR_PAYMENT", "CLOSE", "REOPEN", "VOID", "REINSTATE"},
         act.kind = "DECIDE" => act.decision \in Decisions,
         act.kind = "RECORD_PAYMENT" => act.payment \in Days,
         act.kind \in Offered("ACTIVE", claim) \cup {"REINSTATE"},
         Admitted(date, claim, act)
  PROVE  Coherent(Changed(claim, act))
  <1> USE DEF Coherent
  <1>1. CASE act.kind = "DECIDE"
    <2>1. claim.payment = NoDay
      BY <1>1 DEF Offered, OfferedByProgress, Progress
    <2>2. Changed(claim, act) = [claim EXCEPT !.decision = act.decision]
      BY <1>1 DEF Changed
    <2>3. AdmitClaim(date, claim, Changed(claim, act))
      BY <1>1 DEF Admitted
    <2> QED
      BY <1>1, <2>1, <2>2, <2>3 DEF Claims, AdmitClaim
  <1>2. CASE act.kind = "WITHDRAW_DECISION"
    <2>1. claim.payment = NoDay
      BY <1>2 DEF Offered, OfferedByProgress, Progress
    <2>2. Changed(claim, act) = [claim EXCEPT !.decision = NoDecision]
      BY <1>2 DEF Changed
    <2> QED
      BY <2>1, <2>2 DEF Claims, CrossProgress
  <1>3. CASE act.kind = "RECORD_PAYMENT"
    <2>1. claim.decision # NoDecision
      BY <1>3 DEF Offered, OfferedByProgress, Progress
    <2>2. Changed(claim, act) = [claim EXCEPT !.payment = act.payment]
      BY <1>3 DEF Changed
    <2>3. AdmitClaim(date, claim, Changed(claim, act))
      BY <1>3 DEF Admitted
    <2> QED
      BY <1>3, <2>1, <2>2, <2>3 DEF Claims, AdmitClaim
  <1>4. CASE act.kind = "CLEAR_PAYMENT"
    <2>1. Changed(claim, act) = [claim EXCEPT !.payment = NoDay]
      BY <1>4 DEF Changed
    <2> QED
      BY <2>1 DEF Claims, CrossProgress
  <1>5. CASE act.kind \in {"CLOSE", "REOPEN"}
    <2>1. \E s \in {"OPENED", "CLOSED"} : Changed(claim, act) = [claim EXCEPT !.status = s]
      BY <1>5 DEF Changed
    <2> QED
      BY <2>1 DEF Claims
  <1>6. CASE act.kind \in {"VOID", "REINSTATE"}
    BY <1>6 DEF Changed
  <1> QED
    BY <1>1, <1>2, <1>3, <1>4, <1>5, <1>6

-----------------------------------------------------------------------------
(* Snapshots *)

LEMMA AbsentIsProper == Proper(Absent)
  BY DEF Proper, Absent

(* A snapshot is what its three fields are. *)
LEMMA ProperOfFields ==
  ASSUME NEW s, NEW state, NEW revision \in Nat \ {0}, NEW claim,
         s = [state |-> state, revision |-> revision, claim |-> claim],
         \/ state = "ERASED" /\ claim = NoClaim
         \/ state \in {"ACTIVE", "VOIDED"} /\ Coherent(claim)
  PROVE  Proper(s) /\ s \in Snapshot
  BY DEF Proper, Snapshot, Coherent

(* An act that is not refused on a live case leaves a coherent claim, unless
   it erases the case. *)
LEMMA LiveChangeIsCoherent ==
  ASSUME NEW date, NEW act \in Acts, NEW before, Proper(before),
         before.state \in {"ACTIVE", "VOIDED"},
         act.kind \in Offered(before.state, before.claim),
         Admitted(date, before.claim, act)
  PROVE  \/ StateAfter(before.state, act) = "ERASED" /\ Changed(before.claim, act) = NoClaim
         \/ /\ StateAfter(before.state, act) \in {"ACTIVE", "VOIDED"}
            /\ Coherent(Changed(before.claim, act))
  <1> DEFINE claim == before.claim
  <1>1. Coherent(claim)
    BY DEF Proper
  <1>2. CASE act.kind = "AMEND_REGISTRATION"
    <2>1. act.update \in RegistrationUpdates
      BY <1>2 DEF Acts, BareKinds
    <2>2. /\ Progress(claim) = "UNDECIDED"
          /\ before.state = "ACTIVE"
      BY <1>2 DEF Offered, OfferedByProgress, Progress
    <2>3. Changed(claim, act) = MergeRegistration(act.update, claim)
      BY <1>2 DEF Changed
    <2>4. MergeRegistration(act.update, claim).incident
            <= MergeRegistration(act.update, claim).notified
      BY <1>2, <2>3 DEF Admitted
    <2>5. Coherent(Changed(claim, act))
      BY <1>1, <2>1, <2>2, <2>3, <2>4, AmendedIsCoherent
    <2>6. StateAfter(before.state, act) = "ACTIVE"
      BY <1>2, <2>2 DEF StateAfter
    <2> QED
      BY <2>5, <2>6
  <1>3. CASE act.kind = "CORRECT"
    <2>1. act.correction \in Corrections
      BY <1>3 DEF Acts, BareKinds
    <2>2. AdmitCorrection(date, claim, act.correction) /\ before.state = "ACTIVE"
      BY <1>3 DEF Admitted, Offered
    <2>3. Coherent(Changed(claim, act))
      BY <1>1, <1>3, <2>1, <2>2, CorrectedIsCoherent DEF Changed
    <2>4. StateAfter(before.state, act) = "ACTIVE"
      BY <1>3, <2>2 DEF StateAfter
    <2> QED
      BY <2>3, <2>4
  <1>4. CASE act.kind = "ERASE"
    BY <1>4 DEF StateAfter, Changed
  <1>5. CASE act.kind \in {"DECIDE", "WITHDRAW_DECISION", "RECORD_PAYMENT",
                           "CLEAR_PAYMENT", "CLOSE", "REOPEN", "VOID", "REINSTATE"}
    <2>1. /\ act.kind = "DECIDE" => act.decision \in Decisions
          /\ act.kind = "RECORD_PAYMENT" => act.payment \in Days
      BY DEF Acts, BareKinds
    <2>2. act.kind \in Offered("ACTIVE", claim) \cup {"REINSTATE"}
      BY <1>5 DEF Offered
    <2>3. Coherent(Changed(claim, act))
      BY <1>1, <1>5, <2>1, <2>2, ChangedIsCoherent
    <2>4. StateAfter(before.state, act) \in {"ACTIVE", "VOIDED"}
      BY <1>5 DEF StateAfter
    <2> QED
      BY <2>3, <2>4
  <1>6. act.kind # "OPEN"
    BY DEF Offered, OfferedByProgress
  <1> QED
    BY <1>2, <1>3, <1>4, <1>5, <1>6 DEF Acts, BareKinds

(* Case.decide proposes a proper snapshot, one revision after the accepted
   one, for every act it does not refuse. *)
LEMMA DecisionIsProper ==
  ASSUME NEW date, NEW act \in Acts, NEW expected, NEW before, Proper(before),
         Refusal(date, act, expected, before) = "NONE"
  PROVE  /\ Proper(After(act, before))
         /\ After(act, before) \in Snapshot
         /\ After(act, before).revision = before.revision + 1
  <1>1. before.revision \in Nat /\ (before.state = "ABSENT" <=> before = Absent)
    BY DEF Proper, Snapshot, Absent
  <1>2. CASE before.state = "ABSENT"
    <2>1. act.kind = "OPEN" /\ AdmitOpen(date, act)
      BY <1>2 DEF Refusal
    <2>2. act.registration \in Registrations
      BY <2>1 DEF Acts, BareKinds
    <2>3. Coherent(OpenedClaim(act.registration))
      <3>1. AdmitOpen(date, [kind |-> "OPEN", registration |-> act.registration])
        BY <2>1 DEF AdmitOpen
      <3> QED
        BY <2>2, <3>1, OpenedIsCoherent
    <2>4. After(act, before) = [state |-> "ACTIVE", revision |-> 1,
                                claim |-> OpenedClaim(act.registration)]
      BY <1>2 DEF After
    <2> QED
      BY <1>1, <1>2, <2>3, <2>4, ProperOfFields DEF Absent
  <1>3. CASE before.state # "ABSENT"
    <2>1. before.state \in {"ACTIVE", "VOIDED"}
      BY <1>3 DEF Refusal, Proper, Snapshot, Absent
    <2>2. act.kind \in Offered(before.state, before.claim) /\ Admitted(date, before.claim, act)
      BY <1>3 DEF Refusal
    <2>3. After(act, before) = [state    |-> StateAfter(before.state, act),
                                revision |-> before.revision + 1,
                                claim    |-> Changed(before.claim, act)]
      BY <1>3 DEF After
    <2>4. before.revision + 1 \in Nat \ {0}
      BY <1>1
    <2>5. \/ StateAfter(before.state, act) = "ERASED" /\ Changed(before.claim, act) = NoClaim
          \/ /\ StateAfter(before.state, act) \in {"ACTIVE", "VOIDED"}
             /\ Coherent(Changed(before.claim, act))
      BY <2>1, <2>2, LiveChangeIsCoherent
    <2> QED
      BY <2>3, <2>4, <2>5, ProperOfFields
  <1> QED
    BY <1>2, <1>3

-----------------------------------------------------------------------------
(* Days *)

DaysOf(claim) == {claim.incident, claim.notified, claim.decision.date, claim.payment}

(* No accepted day lies behind the horizon: a day of the next claim is one
   the rules admitted now or a day of the claim before. *)
LEMMA AdmittedDaysAreReached ==
  ASSUME NEW date \in Days, NEW act \in Acts, NEW expected, NEW before, Proper(before),
         Refusal(date, act, expected, before) = "NONE",
         NEW horizon \in Nat, date <= horizon,
         \A day \in DaysOf(before.claim) : day <= horizon
  PROVE  \A day \in DaysOf(After(act, before).claim) : day <= horizon
  <1> USE CaseAssumption DEF DaysOf
  <1> DEFINE claim == before.claim
             after == After(act, before).claim
  <1>1. CASE before.state = "ABSENT"
    <2>1. /\ act.registration \in Registrations
          /\ AdmitOpen(date, act)
          /\ after = OpenedClaim(act.registration)
      BY <1>1 DEF Refusal, Acts, BareKinds, After
    <2> QED
      BY <2>1 DEF AdmitOpen, AdmitClaim, AdmitDay, OpenedClaim, NoClaim, NoDecision, NoDay,
                  Kept, Registrations
  <1>2. CASE before.state # "ABSENT"
    <2>1. before.state \in {"ACTIVE", "VOIDED"}
      BY <1>2 DEF Refusal, Proper, Snapshot, Absent
    <2>2. /\ claim \in Claims
          /\ act.kind \in Offered(before.state, claim)
          /\ Admitted(date, claim, act)
          /\ after = Changed(claim, act)
      BY <1>2, <2>1 DEF Refusal, After, Proper, Coherent
    <2>3. CASE act.kind = "AMEND_REGISTRATION"
      <3>1. act.update \in RegistrationUpdates
        BY <2>3 DEF Acts, BareKinds
      <3>2. /\ AdmitRegistrationUpdate(date, claim, act.update)
            /\ after = MergeRegistration(act.update, claim)
        BY <2>2, <2>3 DEF Admitted, Changed
      <3> QED
        BY <2>2, <3>1, <3>2
        DEF AdmitRegistrationUpdate, AdmitDay, MergeRegistration, Merged, Kept, NoDay,
            RegistrationUpdates, Claims
    <2>4. CASE act.kind = "CORRECT"
      <3> DEFINE c == act.correction
                 merged == MergeRegistration(c.registration, claim)
      <3>1. c \in Corrections
        BY <2>4 DEF Acts, BareKinds
      <3>2. AdmitCorrection(date, claim, c) /\ after = Corrected(claim, c)
        BY <2>2, <2>4 DEF Admitted, Changed
      <3>3. c.registration \in RegistrationUpdates
        BY <3>1 DEF Corrections
      <3>4. merged \in Claims
        BY <2>2, <3>3, MergeRegistrationType
      <3>5. merged.incident <= horizon /\ merged.notified <= horizon
        BY <2>2, <3>2, <3>3
        DEF AdmitCorrection, AdmitRegistrationUpdate, AdmitDay, MergeRegistration, Merged,
            Kept, NoDay, RegistrationUpdates, Claims
      <3>6. /\ after.incident = merged.incident
            /\ after.notified = merged.notified
            /\ after.decision = CorrectedDecision(claim, c.decision)
            /\ after.payment = CorrectedPayment(claim, c.payment)
        BY <3>2, <3>4 DEF Corrected, Claims
      <3>7. CorrectedDecision(claim, c.decision).date <= horizon
        <4>1. CASE c.decision.choice = "UPDATE"
          <5>1. c.decision.date \in Days \cup {Kept}
            BY <3>1, <4>1 DEF Corrections
          <5>2. AdmitDay(date, claim.decision.date, c.decision.date)
            BY <3>2, <4>1 DEF AdmitCorrection
          <5> QED
            BY <4>1, <5>1, <5>2 DEF CorrectedDecision, Merged, AdmitDay, Kept, NoDay
        <4>2. CASE c.decision.choice # "UPDATE"
          BY <3>1, <4>2 DEF CorrectedDecision, Corrections, NoDecision, NoDay
        <4> QED
          BY <4>1, <4>2
      <3>8. CorrectedPayment(claim, c.payment) <= horizon
        <4>1. CASE c.payment.choice = "REPLACE"
          <5>1. c.payment.date \in Days
            BY <3>1, <4>1 DEF Corrections
          <5>2. AdmitDay(date, claim.payment, c.payment.date)
            BY <3>2, <4>1 DEF AdmitCorrection
          <5> QED
            BY <4>1, <5>1, <5>2 DEF CorrectedPayment, AdmitDay, Kept, NoDay
        <4>2. CASE c.payment.choice # "REPLACE"
          BY <3>1, <4>2 DEF CorrectedPayment, Corrections, NoDay
        <4> QED
          BY <4>1, <4>2
      <3> QED
        BY <3>5, <3>6, <3>7, <3>8
    <2>5. CASE act.kind = "DECIDE"
      BY <2>2, <2>5
      DEF Admitted, Changed, AdmitClaim, AdmitDay, Claims, Acts, BareKinds, Decisions,
          Kept, NoDay
    <2>6. CASE act.kind = "RECORD_PAYMENT"
      BY <2>2, <2>6
      DEF Admitted, Changed, AdmitClaim, AdmitDay, Claims, Acts, BareKinds, Kept, NoDay
    <2>7. CASE act.kind \in BareKinds
      <3>1. /\ after.incident \in {claim.incident, NoDay}
            /\ after.notified \in {claim.notified, NoDay}
            /\ after.decision.date \in {claim.decision.date, NoDay}
            /\ after.payment \in {claim.payment, NoDay}
        <4>1. CASE act.kind = "ERASE"
          BY <2>2, <4>1 DEF Changed, NoClaim, NoDecision
        <4>2. CASE act.kind # "ERASE"
          BY <2>2, <2>7, <4>2 DEF BareKinds, Changed, Claims, NoDecision
        <4> QED
          BY <4>1, <4>2
      <3> QED
        BY <3>1 DEF NoDay
    <2> QED
      BY <2>2, <2>3, <2>4, <2>5, <2>6, <2>7 DEF Acts, Offered, OfferedByProgress
  <1> QED
    BY <1>1, <1>2

(* An offered act that asserts no day is admitted on every business date:
   re-admitting the claim compares each recorded day with itself. *)
LEMMA BareActIsAdmitted ==
  ASSUME NEW date, NEW s, Proper(s), s.state \in {"ACTIVE", "VOIDED"},
         NEW kind \in BareKinds, kind \in Offered(s.state, s.claim)
  PROVE  Refusal(date, [kind |-> kind], s.revision, s) = "NONE"
  <1> DEFINE act   == [kind |-> kind]
             after == Changed(s.claim, act)
  <1>1. Coherent(s.claim) /\ kind # "OPEN"
    BY DEF Proper, BareKinds
  <1>2. CASE kind \in {"VOID", "REINSTATE", "ERASE"}
    BY <1>2 DEF Refusal, Admitted
  <1>3. CASE kind \in {"WITHDRAW_DECISION", "CLEAR_PAYMENT", "CLOSE", "REOPEN"}
    <2>1. kind = "WITHDRAW_DECISION" => s.claim.payment = NoDay
      BY DEF Offered, OfferedByProgress, Progress
    <2>2. /\ CrossProgress(after.notified, after.decision, after.payment)
          /\ after.incident = s.claim.incident /\ after.notified = s.claim.notified
          /\ after.decision.date \in {NoDay, s.claim.decision.date}
          /\ after.payment \in {NoDay, s.claim.payment}
      BY <1>1, <1>3, <2>1
      DEF Coherent, Claims, Changed, CrossProgress, NoDecision, NoDay
    <2>3. Admitted(date, s.claim, act)
      BY <1>3, <2>2 DEF Admitted, AdmitClaim, AdmitDay
    <2> QED
      BY <1>1, <1>3, <2>3 DEF Refusal
  <1> QED
    BY <1>2, <1>3 DEF BareKinds
=============================================================================
