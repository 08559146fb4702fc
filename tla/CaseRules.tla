----------------------------- MODULE CaseRules -----------------------------
(***************************************************************************)
(* The business rules of one claims case, as pure operators: which acts a   *)
(* case offers, what each act changes, which assertions are admitted, and   *)
(* the decision Case.decide takes for a request against the accepted row.   *)
(* Dates are days, amounts are numbers, and everything else a registration  *)
(* records (country, names, claimed money, description) is one particular.  *)
(***************************************************************************)
EXTENDS Integers

CONSTANTS Days,         \* calendar days a request may name
          Amounts,      \* payable amounts, zero included
          Particulars   \* the rest of a registration, as opaque values

ASSUME CaseAssumption ==
  /\ Days \subseteq Nat \ {0}
  /\ Amounts \subseteq Nat
  /\ Particulars \subseteq Nat

(* An update that leaves a field out; a group that is absent. *)
Kept       == -1
NoDay      == 0
NoDecision == [date |-> NoDay, payable |-> 0]

Decisions     == [date : Days, payable : Amounts]
Registrations == [incident : Days, notified : Days, particulars : Particulars]

RegistrationUpdates ==
  [incident    : Days \cup {Kept},
   notified    : Days \cup {Kept},
   particulars : Particulars \cup {Kept}]
KeepRegistration == [incident |-> Kept, notified |-> Kept, particulars |-> Kept]

(* A claim holds its status and its record groups; payment without a decision
   is a shape the groups allow and the rules must never build. *)
Claims ==
  [status      : {"OPENED", "CLOSED"},
   incident    : Days,
   notified    : Days,
   particulars : Particulars,
   decision    : Decisions \cup {NoDecision},
   payment     : Days \cup {NoDay}]
NoClaim ==
  [status |-> "NONE", incident |-> NoDay, notified |-> NoDay, particulars |-> 0,
   decision |-> NoDecision, payment |-> NoDay]

(* Authored acts. *)
BareKinds   == {"WITHDRAW_DECISION", "CLEAR_PAYMENT", "CLOSE", "REOPEN",
                "VOID", "REINSTATE", "ERASE"}
Corrections ==
  [registration : RegistrationUpdates,
   decision     : {[choice |-> "KEEP"], [choice |-> "CLEAR"]} \cup
                  [choice : {"UPDATE"}, date : Days \cup {Kept},
                   payable : Amounts \cup {Kept}],
   payment      : {[choice |-> "KEEP"], [choice |-> "CLEAR"], [choice |-> "REAFFIRM"]} \cup
                  [choice : {"REPLACE"}, date : Days]]
Acts ==
  [kind : {"OPEN"}, registration : Registrations]
    \cup [kind : {"AMEND_REGISTRATION"}, update : RegistrationUpdates \ {KeepRegistration}]
    \cup [kind : {"CORRECT"}, correction : Corrections]
    \cup [kind : {"DECIDE"}, decision : Decisions]
    \cup [kind : {"RECORD_PAYMENT"}, payment : Days]
    \cup [kind : BareKinds]

-----------------------------------------------------------------------------
(* Accepted state *)

Progress(claim) ==
  IF claim.decision = NoDecision THEN "UNDECIDED"
  ELSE IF claim.payment = NoDay THEN "DECIDED" ELSE "PAID"

(* Transitions.applicable: the acts a case in this state offers. *)
OfferedByProgress(claim) ==
  CASE Progress(claim) = "UNDECIDED" -> {"AMEND_REGISTRATION", "DECIDE"}
    [] Progress(claim) = "DECIDED"   ->
         {"CORRECT", "DECIDE", "WITHDRAW_DECISION"}
           \cup (IF claim.decision.payable = 0 THEN {} ELSE {"RECORD_PAYMENT"})
    [] OTHER                         -> {"CORRECT", "CLEAR_PAYMENT"}

(* Mutation: a voided case still takes corrections. *)
Offered_VoidedCorrected(state, claim) ==
  CASE state = "VOIDED" -> {"REINSTATE", "ERASE", "CORRECT"}
    [] state = "ACTIVE" -> {"VOID", "ERASE"} \cup OfferedByProgress(claim)
    [] OTHER -> {}

Offered(state, claim) ==
  CASE state = "VOIDED" -> {"REINSTATE", "ERASE"}
    [] state = "ACTIVE" ->
         {"VOID", "ERASE"} \cup
           (IF claim.status = "CLOSED"
              THEN {"REOPEN", "CORRECT"}
              ELSE {"CLOSE"} \cup OfferedByProgress(claim))
    [] OTHER -> {}

-----------------------------------------------------------------------------
(* Admission: an asserted day may lie in the future only if it repeats the
   accepted value of its own field. *)

(* Mutation: a repeated value is judged again like a new one. *)
AdmitDay_Rejudged(today, before, day) == day \in {Kept, NoDay} \/ day <= today

AdmitDay(today, before, day) == day \in {Kept, NoDay, before} \/ day <= today

(* StateValidation.crossProgress, over the groups a change would leave. *)
CrossProgress(notified, decision, payment) ==
  decision # NoDecision =>
    /\ notified <= decision.date
    /\ payment # NoDay => decision.date <= payment /\ decision.payable # 0

(* StateValidation.admit: the whole claim against the accepted one. *)
AdmitClaim(today, before, after) ==
  /\ CrossProgress(after.notified, after.decision, after.payment)
  /\ AdmitDay(today, before.incident, after.incident)
  /\ AdmitDay(today, before.notified, after.notified)
  /\ AdmitDay(today, before.decision.date, after.decision.date)
  /\ AdmitDay(today, before.payment, after.payment)

Merged(update, current) == IF update = Kept THEN current ELSE update

MergeRegistration(update, claim) ==
  [claim EXCEPT !.incident    = Merged(update.incident, @),
                !.notified    = Merged(update.notified, @),
                !.particulars = Merged(update.particulars, @)]

AdmitRegistrationUpdate(today, claim, update) ==
  /\ AdmitDay(today, claim.incident, update.incident)
  /\ AdmitDay(today, claim.notified, update.notified)

-----------------------------------------------------------------------------
(* CaseCorrections: partial assertions merged with the accepted state. *)

CorrectedDecision(claim, choice) ==
  CASE choice.choice = "KEEP"  -> claim.decision
    [] choice.choice = "CLEAR" -> NoDecision
    [] OTHER -> [date    |-> Merged(choice.date, claim.decision.date),
                 payable |-> Merged(choice.payable, claim.decision.payable)]

CorrectedPayment(claim, choice) ==
  CASE choice.choice \in {"KEEP", "REAFFIRM"} -> claim.payment
    [] choice.choice = "CLEAR"                -> NoDay
    [] OTHER                                  -> choice.date

(* A group that is not recorded can only be kept. *)
CorrectsExistingValues(claim, c) ==
  /\ claim.decision = NoDecision => c.decision.choice = "KEEP"
  /\ claim.payment = NoDay       => c.payment.choice = "KEEP"

(* Mutation: clearing the decision of a paid case asks nothing of its payment. *)
PaidAcknowledged_ClearUnasked(claim, c) ==
  Progress(claim) = "PAID" /\ c.decision.choice = "UPDATE" => c.payment.choice # "KEEP"

(* A paid case acknowledges what a changed decision means for its payment. *)
PaidAcknowledged(claim, c) ==
  Progress(claim) = "PAID" =>
    /\ c.decision.choice = "CLEAR"  => c.payment.choice = "CLEAR"
    /\ c.decision.choice = "UPDATE" => c.payment.choice # "KEEP"

Corrected(claim, c) ==
  [MergeRegistration(c.registration, claim) EXCEPT
     !.decision = CorrectedDecision(claim, c.decision),
     !.payment  = CorrectedPayment(claim, c.payment)]

(* Mutations: the groups a correction leaves are not compared; a replaced
   payment date is not compared with the business date. *)
AdmitCorrection_GroupsUncompared(today, claim, c) ==
  LET after == Corrected(claim, c)
  IN  /\ CorrectsExistingValues(claim, c)
      /\ PaidAcknowledged(claim, c)
      /\ after.incident <= after.notified
      /\ after # claim

AdmitCorrection_PaymentUndated(today, claim, c) ==
  LET after == Corrected(claim, c)
  IN  /\ CorrectsExistingValues(claim, c)
      /\ PaidAcknowledged(claim, c)
      /\ after.incident <= after.notified
      /\ after # claim
      /\ AdmitRegistrationUpdate(today, claim, c.registration)
      /\ c.decision.choice = "UPDATE" =>
           AdmitDay(today, claim.decision.date, c.decision.date)
      /\ CrossProgress(after.notified, after.decision, after.payment)

AdmitCorrection(today, claim, c) ==
  LET after == Corrected(claim, c)
  IN  /\ CorrectsExistingValues(claim, c)
      /\ PaidAcknowledged(claim, c)
      /\ after.incident <= after.notified
      /\ after # claim
      /\ AdmitRegistrationUpdate(today, claim, c.registration)
      /\ c.decision.choice = "UPDATE" =>
           AdmitDay(today, claim.decision.date, c.decision.date)
      /\ c.payment.choice = "REPLACE" => AdmitDay(today, claim.payment, c.payment.date)
      /\ CrossProgress(after.notified, after.decision, after.payment)

-----------------------------------------------------------------------------
(* Transitions.change and Transitions.apply *)

(* Mutation: erasure leaves the claim in the row. *)
Changed_EraseKeeps(claim, act) ==
  IF act.kind = "CLOSE" THEN [claim EXCEPT !.status = "CLOSED"] ELSE claim

Changed(claim, act) ==
  CASE act.kind = "AMEND_REGISTRATION" -> MergeRegistration(act.update, claim)
    [] act.kind = "CORRECT"            -> Corrected(claim, act.correction)
    [] act.kind = "DECIDE"             -> [claim EXCEPT !.decision = act.decision]
    [] act.kind = "WITHDRAW_DECISION"  -> [claim EXCEPT !.decision = NoDecision]
    [] act.kind = "RECORD_PAYMENT"     -> [claim EXCEPT !.payment = act.payment]
    [] act.kind = "CLEAR_PAYMENT"      -> [claim EXCEPT !.payment = NoDay]
    [] act.kind = "CLOSE"              -> [claim EXCEPT !.status = "CLOSED"]
    [] act.kind = "REOPEN"             -> [claim EXCEPT !.status = "OPENED"]
    [] act.kind = "ERASE"              -> NoClaim
    [] OTHER                           -> claim

StateAfter(state, act) ==
  CASE act.kind = "VOID"      -> "VOIDED"
    [] act.kind = "REINSTATE" -> "ACTIVE"
    [] act.kind = "ERASE"     -> "ERASED"
    [] OTHER                  -> state

Admitted(today, claim, act) ==
  CASE act.kind \in {"VOID", "REINSTATE", "ERASE"} -> TRUE
    [] act.kind = "AMEND_REGISTRATION" ->
         /\ AdmitRegistrationUpdate(today, claim, act.update)
         /\ Changed(claim, act).incident <= Changed(claim, act).notified
    [] act.kind = "CORRECT" -> AdmitCorrection(today, claim, act.correction)
    [] OTHER -> AdmitClaim(today, claim, Changed(claim, act))

-----------------------------------------------------------------------------
(* Case.decide *)

(* The accepted snapshot of a case; an absent case has revision zero. *)
Snapshot == [state : {"ACTIVE", "VOIDED", "ERASED"}, revision : Nat \ {0},
             claim : Claims \cup {NoClaim}]
Absent   == [state |-> "ABSENT", revision |-> 0, claim |-> NoClaim]

OpenedClaim(r) ==
  [NoClaim EXCEPT !.status = "OPENED", !.incident = r.incident,
                  !.notified = r.notified, !.particulars = r.particulars]

(* Registration.create and BusinessState.openCase. *)
AdmitOpen(today, act) ==
  /\ act.registration.incident <= act.registration.notified
  /\ AdmitClaim(today, NoClaim, OpenedClaim(act.registration))

(* The refusal Case.decide answers, or "NONE" when it proposes a change. *)
Refusal(today, act, expected, before) ==
  IF before.state = "ABSENT"
  THEN IF      act.kind # "OPEN"         THEN "RESOURCE_UNAVAILABLE"
       ELSE IF expected # 0              THEN "REVISION_CONFLICT"
       ELSE IF ~ AdmitOpen(today, act)   THEN "INVALID_INPUT" ELSE "NONE"
  ELSE IF before.state = "ERASED"        THEN "NOT_OFFERED"
  ELSE IF act.kind = "OPEN"              THEN "CASE_ALREADY_EXISTS"
  ELSE IF before.revision # expected     THEN "REVISION_CONFLICT"
  ELSE IF act.kind \notin Offered(before.state, before.claim) THEN "NOT_OFFERED"
  ELSE IF ~ Admitted(today, before.claim, act) THEN "INVALID_INPUT" ELSE "NONE"

(* The snapshot an act that is not refused leaves. *)
After(act, before) ==
  IF before.state = "ABSENT"
  THEN [state |-> "ACTIVE", revision |-> 1, claim |-> OpenedClaim(act.registration)]
  ELSE [state    |-> StateAfter(before.state, act),
        revision |-> before.revision + 1,
        claim    |-> Changed(before.claim, act)]
=============================================================================
