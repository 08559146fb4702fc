------------------------------ MODULE CaseLife ------------------------------
(***************************************************************************)
(* The life of one case under CaseRules: every act a person can author, on  *)
(* every business date the installation's calendar can report. The business *)
(* date is read from the database clock when the head is locked, so it may  *)
(* step back as well as advance between two acts.                           *)
(***************************************************************************)
EXTENDS CaseRules

CONSTANT MaxRevision   \* bound on the acts one behaviour accepts

ASSUME LifeAssumption == MaxRevision \in Nat \ {0}

VARIABLES row,      \* the accepted snapshot, or Absent before OPEN
          today,    \* the business date of the next decision
          latest    \* the latest business date any decision has seen

vars == <<row, today, latest>>

Init ==
  /\ row = Absent
  /\ today \in Days
  /\ latest = today

(* Case.existing / Case.create on an act that is not refused. The author saw
   the current revision; any other expectation is refused before the rules. *)
Accept(act) ==
  /\ row.revision < MaxRevision
  /\ Refusal(today, act, row.revision, row) = "NONE"
  /\ row' = After(act, row)
  /\ UNCHANGED <<today, latest>>

Offers(kind) == row.state # "ABSENT" /\ kind \in Offered(row.state, row.claim)

Open == \E r \in Registrations : Accept([kind |-> "OPEN", registration |-> r])

AmendRegistration ==
  /\ Offers("AMEND_REGISTRATION")
  /\ \E u \in RegistrationUpdates \ {KeepRegistration} :
       Accept([kind |-> "AMEND_REGISTRATION", update |-> u])

Correct ==
  /\ Offers("CORRECT")
  /\ \E c \in Corrections : Accept([kind |-> "CORRECT", correction |-> c])

DecideClaim ==
  /\ Offers("DECIDE")
  /\ \E d \in Decisions : Accept([kind |-> "DECIDE", decision |-> d])

RecordPayment ==
  /\ Offers("RECORD_PAYMENT")
  /\ \E d \in Days : Accept([kind |-> "RECORD_PAYMENT", payment |-> d])

Bare(kind) == Offers(kind) /\ Accept([kind |-> kind])

Calendar ==
  /\ today' \in Days
  /\ latest' = IF today' > latest THEN today' ELSE latest
  /\ UNCHANGED row

Next ==
  \/ Open
  \/ AmendRegistration
  \/ Correct
  \/ DecideClaim
  \/ RecordPayment
  \/ Bare("WITHDRAW_DECISION")
  \/ Bare("CLEAR_PAYMENT")
  \/ Bare("CLOSE")
  \/ Bare("REOPEN")
  \/ Bare("VOID")
  \/ Bare("REINSTATE")
  \/ Bare("ERASE")
  \/ Calendar

Spec == Init /\ [][Next]_vars

-----------------------------------------------------------------------------
(* Properties *)

Live == row.state \in {"ACTIVE", "VOIDED"}

(* Type invariant: an absent case is exactly the empty row, an erased one
   keeps its revision and no claim. *)
TypeOK ==
  /\ row \in Snapshot \cup {Absent}
  /\ Live => row.claim \in Claims
  /\ row.state = "ERASED" => row.claim = NoClaim
  /\ today \in Days
  /\ latest \in Days

(* Incident, notification, decision and payment stay in order on every live
   case, and a paid decision is never zero, although an amendment or a
   correction asserts single fields and is checked piece by piece. *)
Chronological ==
  Live => /\ row.claim.incident <= row.claim.notified
          /\ CrossProgress(row.claim.notified, row.claim.decision, row.claim.payment)

(* No act leaves a payment without its decision, the shape on which
   CaseCorrections.apply would throw. *)
PaymentHasDecision ==
  Live /\ row.claim.payment # NoDay => row.claim.decision # NoDecision

(* Acts that assert no date are never refused for a date: re-admission of
   the whole claim accepts what is already recorded, even when the business
   date has moved back behind it. *)
OfferedBareActsSucceed ==
  Live => \A kind \in BareKinds \cap Offered(row.state, row.claim) :
            Refusal(today, [kind |-> kind], row.revision, row) = "NONE"

(* Every recorded day was today or earlier at some decision: repeating an
   accepted value cannot smuggle in a day that was never admitted. *)
NoUnreachedDay ==
  Live => \A day \in {row.claim.incident, row.claim.notified,
                      row.claim.decision.date, row.claim.payment} : day <= latest

(* Voiding sets a case aside whole: until it is erased its claim is what it
   was, and leaving the void state brings back that claim. Erasure is final,
   and no act leads back to an earlier revision. *)
SetAsideIsKept ==
  [][/\ row.state = "VOIDED" /\ row'.state # "ERASED" => row'.claim = row.claim
     /\ row.state = "ERASED" => row' = row
     /\ row'.revision >= row.revision]_vars
=============================================================================
