-------------------------- MODULE ReplyCorrelation --------------------------
(***************************************************************************)
(* Which reply a page takes for the answer to its request                    *)
(* (protocol/replyCorrelation.ts). The reply has the shape its endpoint      *)
(* promises; what is compared are the identities, references, revisions and  *)
(* effects both name. Every page of the browser reads replies through it.    *)
(***************************************************************************)
EXTENDS Integers, Sequences

CONSTANT Sent      \* the requests the pages of a browser send

VARIABLE awaited   \* the request a page has sent and not seen answered, or None

(* An identity or a reference as it is written: the same letters may come in
   either case. Identities and references are different words.             *)
Word(of, as, spelling) == [of |-> of, as |-> as, spelling |-> spelling]
Nothing   == Word("NOTHING", "NOTHING", "LOWER")
letters(w) == [of |-> w.of, as |-> w.as]
identity(w)  == letters(w)
reference(w) == letters(w)

sameIdentity(left, right) ==
  identity(left) # identity(Nothing) /\ identity(left) = identity(right)

(* What a page asks the service to do (contracts/client.ts, OperationInput). Every
   act but the opening of a case names a revision it was chosen on, a reminder's
   in its act; an admission grants at least one role. The identity of an
   operation is fresh, so it is not that of the reminder it completes.      *)
NoPrincipal == "NOBODY"
CaseActs ==
  {"OPEN", "AMEND_REGISTRATION", "CORRECT", "DECIDE", "WITHDRAW_DECISION", "RECORD_PAYMENT",
   "CLEAR_PAYMENT", "CLOSE", "REOPEN", "VOID", "REINSTATE", "ERASE"}
ReminderActs == {"CREATE", "UPDATE", "COMPLETE", "COMPLETE_AND_PLAN_NEXT", "CANCEL", "REOPEN"}
AuthorityActs ==
  {"ADMIT", "REGISTER", "SET_PROFILE", "ERASE_PROFILE", "GRANT", "REVOKE", "ENABLE", "DISABLE"}

IsIdentity(w)  == w = Word(w.of, "ID", w.spelling)
IsReference(w) == w = Word(w.of, "REFERENCE", w.spelling)
CaseSelector(target) ==
  \/ target.by = "REFERENCE" /\ IsReference(target.value)
  \/ target.by = "ID" /\ IsIdentity(target.value)

CaseInput(r) ==
  /\ r.kind = "CASE" /\ r.act.kind \in CaseActs
  /\ CaseSelector(r.target) /\ r.expectedRevision \in Nat
  /\ r.act.kind = "OPEN" => r.target.by = "REFERENCE" /\ r.expectedRevision = 0
WorkInput(r) ==
  /\ r.kind = "WORK" /\ r.act.kind = "UPDATE_WORK"
  /\ CaseSelector(r.target) /\ r.expectedRevision \in Nat
ReminderInput(r) ==
  /\ r.kind = "REMINDER" /\ r.act.kind \in ReminderActs /\ CaseSelector(r.target)
  /\ r.act.kind # "CREATE" =>
       /\ IsIdentity(r.act.reminderId) /\ r.act.expectedRevision \in Nat
       /\ r.act.reminderId.of # r.operationId.of
AuthorityInput(r) ==
  /\ r.kind = "AUTHORITY" /\ r.act.kind \in AuthorityActs /\ r.principal # NoPrincipal
  /\ r.act.kind = "ADMIT" => r.act.grants \in Nat \ {0}
OperationInput(r) ==
  IsIdentity(r.operationId) /\ (CaseInput(r) \/ WorkInput(r) \/ ReminderInput(r) \/ AuthorityInput(r))

ASSUME SentAssumption == \A r \in Sent : OperationInput(r)

positiveRevision(n) == n > 0
\* A bug: any later revision is taken for the next one.
nextRevision_AnyLater(expected, actual) == positiveRevision(actual) /\ actual > expected

nextRevision(expected, actual) ==
  expected >= 0 /\ positiveRevision(actual) /\ actual = expected + 1

caseTargetMatches(request, actual) ==
  IF request.target.by = "REFERENCE"
  THEN /\ reference(request.target.value) # reference(Nothing)
       /\ reference(request.target.value) = reference(actual.caseReference)
  ELSE sameIdentity(request.target.value, actual.caseId)

(* Receipts.                                                               *)

NoState == "ANY"
Undisclosed == {"WITHHELD", "ERASED"}

snapshotMatches(version, parent, state) ==
  \/ version.snapshot.kind \in Undisclosed
  \/ /\ version.snapshot.kind = "DISCLOSED"
     /\ sameIdentity(version.snapshot.view.caseId, parent)
     /\ sameIdentity(version.snapshot.view.reminderId, version.reminderId)
     /\ version.snapshot.view.revision = version.revision
     /\ state \in {NoState, version.snapshot.view.state}

reminderStateAfter(act) ==
  IF act \in {"CREATE", "UPDATE", "REOPEN"} THEN "PENDING"
  ELSE IF act \in {"COMPLETE", "COMPLETE_AND_PLAN_NEXT"} THEN "COMPLETED"
  ELSE IF act = "CANCEL" THEN "CANCELLED"
  ELSE NoState

coherentWorkReceipt(subject) ==
  /\ positiveRevision(subject.revision)
  /\ \/ subject.snapshot.kind \in Undisclosed
     \/ /\ subject.snapshot.kind = "DISCLOSED"
        /\ sameIdentity(subject.caseId, subject.snapshot.view.caseId)
        /\ subject.snapshot.view.revision = subject.revision

\* "changed" is the completed reminder of a compound receipt, the one reminder of a single one.
coherentCompound(receipt, subject, effects) ==
  /\ subject.act = "COMPLETE_AND_PLAN_NEXT"
  /\ positiveRevision(effects.changed.revision)
  /\ effects.next.revision = 1
  /\ sameIdentity(effects.next.reminderId, receipt.operationId)
  /\ ~sameIdentity(effects.changed.reminderId, effects.next.reminderId)
  /\ snapshotMatches(effects.changed, subject.caseId, "COMPLETED")
  /\ snapshotMatches(effects.next, subject.caseId, "PENDING")

coherentSingle(receipt, subject, effects) ==
  /\ effects.kind = "SINGLE" /\ subject.act # "COMPLETE_AND_PLAN_NEXT"
  /\ positiveRevision(effects.changed.revision)
  /\ snapshotMatches(effects.changed, subject.caseId, reminderStateAfter(subject.act))
  /\ subject.act = "CREATE" =>
       /\ effects.changed.revision = 1
       /\ sameIdentity(effects.changed.reminderId, receipt.operationId)

Registering == {"REGISTER", "ADMIT", "PROVISION_OWNER"}

creationReceiptMatches(receipt, subject) ==
  IF subject.kind = "CASE"
  THEN subject.act = "OPEN" => sameIdentity(subject.caseId, receipt.operationId)
  ELSE (subject.kind = "AUTHORITY" /\ subject.act \in Registering) =>
         /\ subject.targetActor.kind \in {"DISCLOSED", "WITHHELD"}
         /\ sameIdentity(subject.targetActor.actorId, receipt.operationId)

coherentReceipt(receipt) ==
  LET subject == receipt.subject
  IN  /\ creationReceiptMatches(receipt, subject)
      /\ subject.kind = "WORK" => coherentWorkReceipt(subject)
      /\ subject.kind = "REMINDER" =>
           IF subject.effects.kind = "COMPLETED_AND_PLANNED"
           THEN coherentCompound(receipt, subject, subject.effects)
           ELSE coherentSingle(receipt, subject, subject.effects)

receiptEffectMatches(request, subject) ==
  \/ request.kind = "AUTHORITY"
  \/ /\ caseTargetMatches(request, subject)
     /\ request.kind \in {"CASE", "WORK"} => nextRevision(request.expectedRevision, subject.revision)
     /\ (request.kind = "REMINDER" /\ request.act.kind # "CREATE") =>
          /\ sameIdentity(request.act.reminderId, subject.effects.changed.reminderId)
          /\ nextRevision(request.act.expectedRevision, subject.effects.changed.revision)

\* A request without a kind only asks what became of an operation.
receiptCorrelates(request, receipt) ==
  /\ sameIdentity(request.operationId, receipt.operationId)
  /\ coherentReceipt(receipt)
  /\ request.kind # "NONE" =>
       /\ receipt.subject.kind = request.kind
       /\ receipt.subject.act = request.act.kind
       /\ receiptEffectMatches(request, receipt.subject)

receiptMatches(endpoint, request, outcome) ==
  (outcome.kind \in {"ACCEPTED", "ALREADY_ACCEPTED"}
     \/ (endpoint = "operation.observe" /\ outcome.kind = "SUCCEEDED"))
  => receiptCorrelates(request, outcome.data)

(* Reads.                                                                  *)

reminderPageTargetMatches(request, data) ==
  \A i \in DOMAIN data.items : caseTargetMatches(request, data.items[i])

CaseReads == {"case.get", "case.history", "case.activity", "case.timeline"}

readTargetMatches(endpoint, request, outcome) ==
  outcome.kind = "SUCCEEDED" =>
    /\ endpoint \in CaseReads => caseTargetMatches(request, outcome.data)
    /\ endpoint = "work.overview" => outcome.data.mine = request.mine
    /\ (endpoint = "reminder.list" /\ request.target.by # "NOTHING") =>
         reminderPageTargetMatches(request, outcome.data)
    /\ endpoint = "reminder.get" =>
         /\ caseTargetMatches(request, outcome.data)
         /\ sameIdentity(request.reminderId, outcome.data.reminderId)
    /\ endpoint = "authority.grants" => sameIdentity(request.actorId, outcome.data.actorId)

(* Reviews.                                                                *)

NoCase     == [caseId |-> Nothing, caseReference |-> Nothing, revision |-> 0]
NoReminder == [reminderId |-> Nothing, caseId |-> Nothing, revision |-> 0, state |-> NoState]

previewParentMatches(request, subject, parentId) ==
  sameIdentity(subject.parent.caseId, parentId) /\ caseTargetMatches(request, subject.parent)

previewWorkMatches(request, subject) ==
  /\ caseTargetMatches(request, [caseId |-> subject.proposed.caseId,
                                 caseReference |-> subject.caseReference])
  /\ subject.before.revision = request.expectedRevision
  /\ nextRevision(subject.before.revision, subject.proposed.revision)
  /\ sameIdentity(subject.before.caseId, subject.proposed.caseId)
  /\ previewParentMatches(request, subject, subject.before.caseId)

createdReminderMatches(request, subject, effects, after) ==
  /\ subject.before = NoReminder /\ effects.kind = "CREATED"
  /\ sameIdentity(after.reminderId, request.operationId)
  /\ after.revision = 1 /\ after.state = "PENDING"
  /\ sameIdentity(after.caseId, subject.caseId)

changedReminderMatches(act, subject, before, after) ==
  /\ sameIdentity(before.reminderId, act.reminderId)
  /\ before.revision = act.expectedRevision
  /\ sameIdentity(after.reminderId, act.reminderId)
  /\ nextRevision(before.revision, after.revision)
  /\ sameIdentity(after.caseId, subject.caseId)
  /\ after.state = reminderStateAfter(act.kind)

previewCompoundMatches(request, subject, effects, after) ==
  /\ effects.kind = "COMPLETED_AND_PLANNED"
  /\ sameIdentity(effects.next.reminderId, request.operationId)
  /\ ~sameIdentity(effects.next.reminderId, after.reminderId)
  /\ effects.next.revision = 1 /\ effects.next.state = "PENDING"
  /\ sameIdentity(effects.next.caseId, subject.caseId)

previewReminderMatches(request, subject) ==
  LET act == request.act
      effects == subject.effects
      after == effects.changed
  IN  /\ caseTargetMatches(request, subject)
      /\ previewParentMatches(request, subject, subject.caseId)
      /\ IF act.kind = "CREATE"
         THEN createdReminderMatches(request, subject, effects, after)
         ELSE /\ changedReminderMatches(act, subject, subject.before, after)
              /\ IF act.kind = "COMPLETE_AND_PLAN_NEXT"
                 THEN previewCompoundMatches(request, subject, effects, after)
                 ELSE effects.kind = "CHANGED"

previewCaseMatches(request, subject) ==
  LET before == subject.before
      after  == subject.after
  IN  /\ caseTargetMatches(request, after)
      /\ nextRevision(request.expectedRevision, after.revision)
      /\ IF request.act.kind = "OPEN"
         THEN /\ request.expectedRevision = 0 /\ before = NoCase
              /\ sameIdentity(request.operationId, after.caseId)
         ELSE /\ caseTargetMatches(request, before)
              /\ before.revision = request.expectedRevision
              /\ sameIdentity(before.caseId, after.caseId)
              /\ reference(before.caseReference) = reference(after.caseReference)

samePrincipal(expected, actual) == expected = actual

\* Admission registers, profiles and grants every role it names.
authorityEffectKinds(act) ==
  IF act.kind = "REGISTER" THEN <<"REGISTER", "SET_PROFILE">>
  ELSE IF act.kind = "ADMIT"
       THEN <<"REGISTER", "SET_PROFILE">> \o [i \in 1..act.grants |-> "GRANT"]
       ELSE <<act.kind>>

previewAuthorityMatches(request, subject) ==
  /\ [i \in DOMAIN subject.effects |-> subject.effects[i].kind] = authorityEffectKinds(request.act)
  /\ IF request.act.kind \in {"REGISTER", "ADMIT"}
     THEN /\ subject.target = NoPrincipal
          /\ samePrincipal(request.principal, subject.effects[1].principal)
     ELSE samePrincipal(request.principal, subject.target)

previewTargetMatches(endpoint, request, outcome) ==
  (endpoint = "operation.preview" /\ outcome.kind = "REVIEWED") =>
    LET subject == outcome.data
    IN  /\ subject.kind = request.kind
        /\ request.kind = "AUTHORITY" => previewAuthorityMatches(request, subject)
        /\ request.kind = "CASE"      => previewCaseMatches(request, subject)
        /\ request.kind = "WORK"      => previewWorkMatches(request, subject)
        /\ request.kind = "REMINDER"  => previewReminderMatches(request, subject)

OperationEndpoints ==
  {"operation.preview", "operation.execute", "operation.observe", "operation.status",
   "operation.resolve"}

replyCorrelates(endpoint, request, envelope) ==
  /\ endpoint \in OperationEndpoints => sameIdentity(request.operationId, envelope.operationId)
  /\ receiptMatches(endpoint, request, envelope.outcome)
  /\ readTargetMatches(endpoint, request, envelope.outcome)
  /\ previewTargetMatches(endpoint, request, envelope.outcome)
(***************************************************************************)
(* What the register answers, to state which replies may be taken for which  *)
(* requests: it writes identities in lower and references in upper case,     *)
(* opens a case and creates a reminder under the operation's identity, and   *)
(* raises the revision it was sent by one.                                   *)
(***************************************************************************)
Stored(name)          == Word(name, "ID", "LOWER")
StoredReference(name) == Word(name, "REFERENCE", "UPPER")

Created(r) == r.act.kind \in {"OPEN", "CREATE"} \cup Registering
CaseOf(r)  == IF r.act.kind = "OPEN" THEN Stored(r.operationId.of) ELSE Stored(r.target.value.of)
Snapshot(disclosed, view) == [kind |-> IF disclosed THEN "DISCLOSED" ELSE "WITHHELD", view |-> view]

ReminderBefore(r) ==
  [reminderId |-> Stored(r.act.reminderId.of), caseId |-> CaseOf(r),
   revision |-> r.act.expectedRevision, state |-> NoState]
NewReminder(r) ==
  [reminderId |-> Stored(r.operationId.of), caseId |-> CaseOf(r), revision |-> 1, state |-> "PENDING"]
ReminderAfter(r) ==
  IF r.act.kind = "CREATE" THEN NewReminder(r)
  ELSE [ReminderBefore(r) EXCEPT !.revision = @ + 1, !.state = reminderStateAfter(r.act.kind)]
Version(disclosed, reminder) ==
  [reminderId |-> reminder.reminderId, revision |-> reminder.revision,
   snapshot |-> Snapshot(disclosed, reminder)]
Planned(r) == r.act.kind = "COMPLETE_AND_PLAN_NEXT"

Named(r) == [kind |-> r.kind, act |-> r.act.kind, caseId |-> CaseOf(r),
             caseReference |-> StoredReference(r.target.value.of), revision |-> r.expectedRevision + 1]
ReceiptSubject(r, disclosed) ==
  CASE r.kind = "CASE" -> Named(r)
    [] r.kind = "WORK" ->
         [kind |-> "WORK", act |-> r.act.kind, caseId |-> CaseOf(r),
          caseReference |-> StoredReference(r.target.value.of), revision |-> r.expectedRevision + 1,
          snapshot |-> Snapshot(disclosed, [caseId |-> CaseOf(r), revision |-> r.expectedRevision + 1])]
    [] r.kind = "REMINDER" ->
         [kind |-> "REMINDER", act |-> r.act.kind, caseId |-> CaseOf(r),
          caseReference |-> StoredReference(r.target.value.of),
          effects |-> [kind |-> IF Planned(r) THEN "COMPLETED_AND_PLANNED" ELSE "SINGLE",
                       changed |-> Version(disclosed, ReminderAfter(r)),
                       next |-> Version(disclosed, NewReminder(r))]]
    [] r.kind = "AUTHORITY" ->
         [kind |-> "AUTHORITY", act |-> r.act.kind,
          targetActor |-> [kind |-> IF disclosed THEN "DISCLOSED" ELSE "WITHHELD",
                           actorId |-> IF Created(r) THEN Stored(r.operationId.of) ELSE Stored(r.principal)]]

ReviewSubject(r) ==
  LET parent == [caseId |-> CaseOf(r), caseReference |-> StoredReference(r.target.value.of)]
      at(n)  == [caseId |-> CaseOf(r), caseReference |-> parent.caseReference, revision |-> n]
  IN CASE r.kind = "CASE" ->
            [kind |-> "CASE", before |-> IF r.act.kind = "OPEN" THEN NoCase ELSE at(r.expectedRevision),
             after |-> at(r.expectedRevision + 1)]
       [] r.kind = "WORK" ->
            [kind |-> "WORK", caseReference |-> parent.caseReference, parent |-> parent,
             before |-> at(r.expectedRevision), proposed |-> at(r.expectedRevision + 1)]
       [] r.kind = "REMINDER" ->
            [kind |-> "REMINDER", caseId |-> parent.caseId, caseReference |-> parent.caseReference,
             parent |-> parent,
             before |-> IF r.act.kind = "CREATE" THEN NoReminder ELSE ReminderBefore(r),
             effects |-> [kind |-> IF r.act.kind = "CREATE" THEN "CREATED"
                                   ELSE IF Planned(r) THEN "COMPLETED_AND_PLANNED" ELSE "CHANGED",
                          changed |-> ReminderAfter(r), next |-> NewReminder(r)]]
       [] r.kind = "AUTHORITY" ->
            [kind |-> "AUTHORITY",
             target |-> IF r.act.kind \in Registering THEN NoPrincipal ELSE r.principal,
             effects |-> [i \in DOMAIN authorityEffectKinds(r.act) |->
                            [kind |-> authorityEffectKinds(r.act)[i], principal |-> r.principal]]]

Envelope(r, kind, data) ==
  [operationId |-> Stored(r.operationId.of), outcome |-> [kind |-> kind, data |-> data]]
Receipt(r, disclosed) ==
  Envelope(r, "ACCEPTED", [operationId |-> Stored(r.operationId.of),
                           subject |-> ReceiptSubject(r, disclosed)])
Review(r) == Envelope(r, "REVIEWED", ReviewSubject(r))

\* Two requests for the same change of the same thing, however their words are written.
SameOperation(r, q) == r.kind = q.kind /\ r.operationId.of = q.operationId.of
SameBasis(r, q) ==
  /\ r.kind # "AUTHORITY" => r.target.value.of = q.target.value.of
  /\ r.kind \in {"CASE", "WORK"} => r.expectedRevision = q.expectedRevision
  /\ (r.kind = "REMINDER" /\ r.act.kind # "CREATE") =>
       /\ r.act.reminderId.of = q.act.reminderId.of
       /\ r.act.expectedRevision = q.act.expectedRevision

\* A review names no act: two acts with the same kind of effect share one.
SameEffect(r, q) ==
  /\ (Created(r) <=> Created(q))
  /\ r.kind = "REMINDER" =>
       /\ (Planned(r) <=> Planned(q))
       /\ reminderStateAfter(r.act.kind) = reminderStateAfter(q.act.kind)
  /\ r.kind = "AUTHORITY" =>
       /\ r.act.kind = q.act.kind /\ r.principal = q.principal
       /\ r.act.kind = "ADMIT" => r.act.grants = q.act.grants

Replies(r) == {Review(r)} \cup {Receipt(r, disclosed) : disclosed \in BOOLEAN}

(* A page awaits one answer and is handed the answers of every request there is. *)
None == [kind |-> "NOTHING_AWAITED"]
Send == awaited = None /\ awaited' \in Sent
Take ==
  /\ awaited # None
  /\ \E q \in Sent, endpoint \in {"operation.preview", "operation.execute"} :
       \E reply \in Replies(q) : replyCorrelates(endpoint, awaited, reply)
  /\ awaited' = None

(* Every receipt and every review of the register, its contents disclosed or
   withheld, is taken by the request it answers however that wrote its words,
   and by no request for another operation, act, case, revision or reminder. A
   status answer is taken by the operation's identity alone. This is what keeps
   an answer of another attempt from confirming this one
   (replyCorrelation.ts, replyCorrelates; service.ts drops the rest).        *)
RepliesBindTheirRequest ==
  awaited # None => \A q \in Sent :
    LET r == awaited
    IN  /\ replyCorrelates("operation.preview", r, Review(q)) <=>
             SameOperation(r, q) /\ SameBasis(r, q) /\ SameEffect(r, q)
        /\ \A disclosed \in BOOLEAN :
             /\ replyCorrelates("operation.execute", r, Receipt(q, disclosed)) <=>
                  SameOperation(r, q) /\ r.act.kind = q.act.kind /\ SameBasis(r, q)
             /\ replyCorrelates("operation.status", [kind |-> "NONE", operationId |-> r.operationId],
                                Receipt(q, disclosed)) <=> r.operationId.of = q.operationId.of
=============================================================================
