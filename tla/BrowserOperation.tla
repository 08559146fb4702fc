------------------------ MODULE BrowserOperation ------------------------
(***************************************************************************)
(* One operation panel of the browser client: the reducer that owns its      *)
(* draft, review, dispatch and recovery, the asynchronous effects that run   *)
(* outside it (previews, journal writes, the mutation, status checks and     *)
(* disclosure reads), the durable recovery journal and the ledger's answer.  *)
(*                                                                           *)
(* The reducer's transitions are operators on the panel's state, named after *)
(* the functions of operationState.ts; an action is one user or effect event *)
(* with the guards of the views and of useOperation.ts.                      *)
(***************************************************************************)
EXTENDS Integers, FiniteSets

CONSTANTS
  Actors,           \* requesters a verified session can show
  Scenarios,        \* what a panel authors, with the bounds of its behaviours
  MaxOperations,    \* bound on operation identities the browser draws
  MaxEffects,       \* bound on effect identities in any scenario
  MaxContexts,      \* bound on context generations in any scenario
  MaxRevision,      \* bound on the case's revisions
  MaxText           \* the contents a draft can have are 0..MaxText, 0 empty

ASSUME OperationAssumption ==
  /\ Actors # {} /\ "NOBODY" \notin Actors
  /\ MaxOperations \in Nat \ {0} /\ MaxEffects \in Nat \ {0}
  /\ MaxContexts \in Nat /\ MaxRevision \in Nat \ {0} /\ MaxText \in Nat

Phases == {"EDITING", "PREVIEWING", "REVIEWING", "PREPARING", "SUBMITTING",
           "UNRESOLVED", "ACCEPTED"}

\* effects and contexts bound the identities drawn; withdraw is the set of phases in
\* which a parent view may withdraw disclosure.
ASSUME ScenarioAssumption ==
  Scenarios \subseteq [subject : {"CASE", "OPEN", "AUTHORITY"}, effects : 1..MaxEffects,
                       contexts : 0..MaxContexts, withdraw : SUBSET Phases]

Operations == 1..MaxOperations
EffectIds  == 1..MaxEffects
Requesters == Actors \cup {"NOBODY"}

\* A prepared request: the frozen copy of the draft it was built from.
Requests == [op : Operations, rev : 0..MaxRevision, text : 0..MaxText]
NoRequest == [op |-> 0, rev |-> 0, text |-> 0]
NoConflict == [id |-> 0, source |-> NoRequest, latest |-> 0]

EffectKinds == {"PREVIEW", "EXECUTE", "CHECK_STATUS", "READ_CURRENT",
                "READ_CONFLICT", "RECORDED", "DISCLOSURE_REFUSED"}
Effects == [id : EffectIds, ctx : 0..MaxContexts, kind : EffectKinds,
            request : Requests \cup {NoRequest}]

VARIABLES
  scenario,     \* what the panel authors, and the bounds of its run
  page,         \* the requester the session currently shows
  panel,        \* the reducer's state
  runs,         \* effects being executed by this page, by identity
  attempts,     \* journal records this page made (useRef, lost on reload)
  journal,      \* durable recovery records
  wire,         \* dispatched mutations the host has not decided
  ledger,       \* the fate of each operation identity
  head,         \* the case's accepted revision
  nextOperation, nextEffect,
  sent,         \* history: every mutation dispatched
  reviewed,     \* history: the reviews shown, with the context they were shown in
  heard,        \* history: accepted operations this page received the receipt of
  told,         \* history: operations whose receipt was shown
  abandoned,    \* history: unresolved operations the person discarded
  proof,        \* history: effect identity whose answer last opened the disclosure
  barrier       \* history: first effect identity drawn after the last refusal

subject == scenario.subject

ghosts  == <<sent, reviewed, heard, told, abandoned, proof, barrier>>
service == <<ledger, head>>
vars == <<scenario, page, panel, runs, attempts, journal, wire, ledger, head,
          nextOperation, nextEffect, ghosts>>

----------------------------------------------------------------------------
\* The reducer (operationState.ts).

Source(s) == s.source

Busy(s) ==
  \/ s.phase \in {"PREVIEWING", "PREPARING", "SUBMITTING"}
  \/ s.phase = "UNRESOLVED" /\ s.effect # 0

CanEdit(s) == s.phase \in {"EDITING", "REVIEWING"}

Current(s, e) == s.ctx = e.ctx

Completing(s, e) == Current(s, e) /\ Busy(s) /\ s.effect = e.id

Enter(s, phase, source, effect) ==
  [s EXCEPT !.phase = phase, !.source = source, !.effect = effect, !.confirmed = FALSE]

Append(s, e) == [s EXCEPT !.effects = @ \cup {e}]

Edit_KeepsIdentity(s, text, op) ==
  [Enter(s, "EDITING", NoRequest, 0) EXCEPT !.partial = FALSE, !.draft.text = text]

\* An edit of an exposed request's draft draws a new operation identity.
Edit(s, text, op) ==
  IF s.draft.text = text
  THEN [s EXCEPT !.partial = FALSE]
  ELSE [Enter(s, "EDITING", NoRequest, 0) EXCEPT
          !.partial = FALSE,
          !.draft.text = text,
          !.draft.op = IF Source(s) = NoRequest THEN @ ELSE op]

\* A date widget left half entered empties the canonical value it stood for.
DateEntry(s, op) ==
  [(IF s.draft.text = 0 THEN s ELSE Edit(s, 0, op)) EXCEPT !.partial = TRUE]

Invalidate_KeepsReading(s, refusal) ==
  LET entered ==
        IF s.phase \in {"SUBMITTING", "UNRESOLVED"}
        THEN Enter(s, "UNRESOLVED", s.source, 0)
        ELSE IF s.phase = "ACCEPTED" THEN [s EXCEPT !.receipt = FALSE]
             ELSE Enter(s, "EDITING", Source(s), 0)
  IN [entered EXCEPT !.refused = @ \/ refusal, !.effects = {}]

Invalidate(s, refusal) ==
  LET entered ==
        IF s.phase \in {"SUBMITTING", "UNRESOLVED"}
        THEN Enter(s, "UNRESOLVED", s.source, 0)
        ELSE IF s.phase = "ACCEPTED"
             THEN [s EXCEPT !.receipt = FALSE]
             ELSE Enter(s, "EDITING", Source(s), 0)
  IN [entered EXCEPT !.refused = @ \/ refusal, !.reading = 0, !.effects = {}]

ContextChanged(s) ==
  [Invalidate(s, FALSE) EXCEPT !.conflict = NoConflict, !.ctx = @ + 1]

Preview(s, e) ==
  IF CanEdit(s) /\ s.conflict = NoConflict /\ Current(s, e) /\ s.reading = 0
  THEN Append(Enter(s, "PREVIEWING", e.request, e.id), e)
  ELSE s

Execute(s, e) ==
  LET agreed == /\ s.phase = "REVIEWING" /\ s.confirmed
                /\ ~s.refused /\ s.seen = s.ctx
  IN IF Current(s, e) /\ ~Busy(s) /\ (s.phase = "UNRESOLVED" \/ agreed)
     THEN Append(Enter(s, IF agreed THEN "PREPARING" ELSE "UNRESOLVED",
                       s.source, e.id), e)
     ELSE s

Handoff_Unnoticed(s, e) == s

Handoff(s, e) ==
  IF Completing(s, e) /\ s.phase = "PREPARING"
  THEN Enter(s, "SUBMITTING", s.source, s.effect)
  ELSE s

ReadConflict(s, e) ==
  IF /\ s.conflict # NoConflict /\ Current(s, e)
     /\ ~Busy(s) /\ s.phase # "UNRESOLVED" /\ s.reading = 0
  THEN Append([s EXCEPT !.conflict.latest = 0, !.reading = e.id], e)
  ELSE s

ConflictObservation(s, e, revision, refusal) ==
  IF s.conflict = NoConflict \/ s.reading # e.id \/ ~Current(s, e)
  THEN s
  ELSE IF revision = 0
       THEN [s EXCEPT !.reading = 0, !.refused = @ \/ refusal]
       ELSE [s EXCEPT !.conflict.latest = revision, !.observed = revision,
                      !.reading = 0, !.seen = s.ctx, !.refused = FALSE]

LatestOperationValues_FromFacts(s, op) == [op |-> op, rev |-> s.conflict.latest, text |-> 0]

\* The rebased draft changes its identity and its expected revision only.
LatestOperationValues(s, op) == [s.draft EXCEPT !.op = op, !.rev = s.conflict.latest]

ReviewLatest(s, e) ==
  IF /\ s.conflict # NoConflict /\ s.conflict.latest # 0
     /\ CanEdit(s) /\ Current(s, e) /\ s.reading = 0 /\ ~s.refused
  THEN Append([Enter(s, "PREVIEWING", e.request, e.id) EXCEPT
                 !.draft = e.request, !.conflict = NoConflict], e)
  ELSE s

Refuse_LastAnswerDecides(s, e, answer) ==
  IF ~Completing(s, e) THEN s
  ELSE [Enter(s, IF answer.uncertain THEN "UNRESOLVED" ELSE "EDITING", s.source, 0) EXCEPT
          !.refused = @ \/ answer.disclosure]

\* answer: [uncertain, disclosure, conflict : BOOLEAN]
Refuse(s, e, answer) ==
  LET sticky == s.phase = "UNRESOLVED" \/ answer.uncertain
      stale  == answer.conflict /\ ~sticky
      next   == [Enter(s, IF sticky THEN "UNRESOLVED" ELSE "EDITING", s.source, 0) EXCEPT
                   !.refused = @ \/ answer.disclosure,
                   !.conflict = IF stale THEN [id |-> e.id, source |-> s.source, latest |-> 0]
                                ELSE @]
  IN IF ~Completing(s, e) THEN s
     ELSE IF stale THEN ReadConflict(next, [e EXCEPT !.kind = "READ_CONFLICT"])
     ELSE IF answer.disclosure THEN Append(next, [e EXCEPT !.kind = "DISCLOSURE_REFUSED"])
     ELSE next

Record(s, e) ==
  IF s.phase = "PREPARING" \/ ~Completing(s, e) THEN s
  ELSE Append([Enter(s, "ACCEPTED", s.source, 0) EXCEPT
                 !.receipt = TRUE, !.partial = FALSE, !.seen = s.ctx, !.refused = FALSE],
              [e EXCEPT !.kind = "RECORDED"])

Reviewed_KeepsEffect(s, e) ==
  IF Completing(s, e) /\ s.phase = "PREVIEWING"
  THEN [Enter(s, "REVIEWING", s.source, s.effect) EXCEPT !.seen = s.ctx, !.refused = FALSE]
  ELSE s

Reviewed(s, e) ==
  IF Completing(s, e) /\ s.phase = "PREVIEWING"
  THEN [Enter(s, "REVIEWING", s.source, 0) EXCEPT !.seen = s.ctx, !.refused = FALSE]
  ELSE s

Returned(s) == IF CanEdit(s) THEN Enter(s, "EDITING", Source(s), 0) ELSE s

Confirmed(s, value) ==
  IF s.phase = "REVIEWING" /\ ~s.refused THEN [s EXCEPT !.confirmed = value] ELSE s

\* RESET with a fresh state: contexts and a refusal already shown are kept.
Reset(s, next, abandon) ==
  IF Busy(s) \/ (s.phase = "UNRESOLVED" /\ ~abandon) THEN s
  ELSE [next EXCEPT !.refused = s.refused, !.ctx = s.ctx, !.seen = s.seen, !.owner = s.owner]

CheckingStatus(s, e) ==
  IF s.phase = "UNRESOLVED" /\ ~Busy(s) /\ Current(s, e)
  THEN Append([s EXCEPT !.effect = e.id], e)
  ELSE s

NotAccepted(s, e, op) ==
  IF Completing(s, e)
  THEN [Enter(s, "EDITING", NoRequest, 0) EXCEPT !.draft.op = op]
  ELSE s

StillUnresolved_KeepsEffect(s, e) == s

StillUnresolved(s, e) ==
  IF Completing(s, e) /\ s.phase = "UNRESOLVED" THEN [s EXCEPT !.effect = 0] ELSE s

ReadCurrent(s, e) ==
  IF Current(s, e) /\ ~Busy(s) /\ s.reading = 0
  THEN Append([s EXCEPT !.reading = e.id], e)
  ELSE s

Disclosed(s, e, revision, refusal) ==
  IF ~Current(s, e) \/ s.reading # e.id THEN s
  ELSE IF revision = 0
       THEN [s EXCEPT !.reading = 0, !.refused = @ \/ refusal]
       ELSE [s EXCEPT !.observed = revision, !.reading = 0, !.seen = s.ctx, !.refused = FALSE]

CanRestoreCreationDraft(s) ==
  /\ s.seen # s.ctx \/ s.refused
  /\ s.target = page
  /\ subject = "OPEN" /\ s.observed = 0 /\ s.phase = "EDITING"

RestoreCreationDraft(s) ==
  IF CanRestoreCreationDraft(s) THEN [s EXCEPT !.seen = s.ctx, !.refused = FALSE] ELSE s

----------------------------------------------------------------------------
\* What the views derive from the state.

\* useVerifiedOperationOwner: the first requester owns the panel for good.
OwnerVerified == page = panel.owner

ChangedTarget == panel.target # page

\* hasCurrentDisclosure: case facts, form and review are rendered only then.
Shown(s) == /\ OwnerVerified /\ s.target = page
            /\ s.seen = s.ctx /\ ~s.refused

\* editing: the events of the form and the review are ignored while blocked.
Blocked == Busy(panel) \/ panel.phase \in {"UNRESOLVED", "ACCEPTED"} \/ ChangedTarget

\* useOperation's fresh, with the draft of a newly mounted editor.
Fresh(requester, op, revision) ==
  [owner |-> requester, target |-> requester,
   draft |-> [op |-> op, rev |-> IF subject = "CASE" THEN revision ELSE 0, text |-> 0],
   observed |-> IF subject = "CASE" THEN revision ELSE 0,
   phase |-> "EDITING", source |-> NoRequest, effect |-> 0, confirmed |-> FALSE,
   receipt |-> FALSE, partial |-> FALSE, conflict |-> NoConflict, reading |-> 0,
   ctx |-> 0, seen |-> 0, refused |-> FALSE, effects |-> {}]

NoRecord == [actor |-> "NOBODY", attempt |-> 0, op |-> 0]
Idle == [stage |-> "IDLE", effect |-> [id |-> 0, ctx |-> 0, kind |-> "PREVIEW", request |-> NoRequest],
         record |-> NoRecord, answer |-> "NONE"]

Init ==
  /\ scenario \in Scenarios
  /\ page = CHOOSE a \in Actors : TRUE     \* actors are interchangeable
  /\ head = IF subject = "CASE" THEN 1 ELSE 0
  /\ panel = Fresh(page, 1, head)
  /\ runs = [i \in EffectIds |-> Idle]
  /\ attempts = {} /\ journal = {} /\ wire = {}
  /\ ledger = [o \in Operations |-> "NONE"]
  /\ nextOperation = 2 /\ nextEffect = 1
  /\ sent = {} /\ reviewed = {} /\ heard = {} /\ told = {} /\ abandoned = {}
  /\ proof = 1 /\ barrier = 1

----------------------------------------------------------------------------
\* Events of the person at the panel.

DrawOperation == nextOperation \in Operations /\ nextOperation' = nextOperation + 1
DrawEffect == nextEffect <= scenario.effects /\ nextEffect' = nextEffect + 1

\* The identity of the effect an event of this render would start.
NewEffect(kind, request) ==
  [id |-> nextEffect, ctx |-> panel.ctx, kind |-> kind, request |-> request]

FormShown == Shown(panel) /\ ~Blocked /\ panel.phase = "EDITING" /\ panel.reading = 0

EditDraft ==
  /\ FormShown
  /\ \E text \in 0..MaxText :
       /\ text # panel.draft.text \/ panel.partial
       /\ IF Source(panel) = NoRequest \/ text = panel.draft.text
          THEN panel' = Edit(panel, text, 0) /\ UNCHANGED nextOperation
          ELSE DrawOperation /\ panel' = Edit(panel, text, nextOperation)
  /\ UNCHANGED <<scenario, page, runs, attempts, journal, wire, service, nextEffect, ghosts>>

EnterPartialDate ==
  /\ FormShown /\ ~panel.partial
  /\ IF Source(panel) = NoRequest \/ panel.draft.text = 0
     THEN panel' = DateEntry(panel, 0) /\ UNCHANGED nextOperation
     ELSE DrawOperation /\ panel' = DateEntry(panel, nextOperation)
  /\ UNCHANGED <<scenario, page, runs, attempts, journal, wire, service, nextEffect, ghosts>>

\* The form submits it, or the masked surface of a panel with no case to reload.
PreviewDraft ==
  /\ OwnerVerified /\ ~Blocked /\ panel.phase = "EDITING" /\ panel.reading = 0
  /\ panel.conflict = NoConflict /\ panel.draft.op # 0
  /\ Shown(panel) \/ subject # "CASE"
  /\ DrawEffect
  /\ LET request == IF Source(panel) = NoRequest THEN panel.draft ELSE Source(panel)
     IN panel' = Preview(panel, NewEffect("PREVIEW", request))
  /\ UNCHANGED <<scenario, page, runs, attempts, journal, wire, service, nextOperation, ghosts>>

ReviewShown == Shown(panel) /\ ~Blocked /\ panel.phase = "REVIEWING"

ReturnToEdit ==
  /\ ReviewShown
  /\ panel' = Returned(panel)
  /\ UNCHANGED <<scenario, page, runs, attempts, journal, wire, service,
                 nextOperation, nextEffect, ghosts>>

\* The confirmation button confirms and executes in one press.
SubmitReviewed ==
  /\ ReviewShown
  /\ DrawEffect
  /\ panel' = Execute(Confirmed(panel, TRUE), NewEffect("EXECUTE", panel.source))
  /\ UNCHANGED <<scenario, page, runs, attempts, journal, wire, service, nextOperation, ghosts>>

UnknownShown == OwnerVerified /\ panel.phase = "UNRESOLVED" /\ ~Busy(panel)

SendAgain ==
  /\ UnknownShown
  /\ DrawEffect
  /\ panel' = Execute(panel, NewEffect("EXECUTE", panel.source))
  /\ UNCHANGED <<scenario, page, runs, attempts, journal, wire, service, nextOperation, ghosts>>

CheckStatus ==
  /\ UnknownShown
  /\ DrawEffect
  /\ panel' = CheckingStatus(panel, NewEffect("CHECK_STATUS", panel.source))
  /\ UNCHANGED <<scenario, page, runs, attempts, journal, wire, service, nextOperation, ghosts>>

\* "Reload current case": the conflict's read when there is a conflict.
RevalidateDisclosure ==
  /\ OwnerVerified /\ ~Blocked /\ panel.reading = 0 /\ subject = "CASE"
  /\ panel.conflict # NoConflict \/ ~Shown(panel)
  /\ DrawEffect
  /\ panel' = IF panel.conflict # NoConflict
              THEN ReadConflict(panel, NewEffect("READ_CONFLICT", panel.conflict.source))
              ELSE ReadCurrent(panel, NewEffect("READ_CURRENT", NoRequest))
  /\ UNCHANGED <<scenario, page, runs, attempts, journal, wire, service, nextOperation, ghosts>>

ReviewLatestDraft ==
  /\ FormShown /\ panel.conflict.latest # 0
  /\ DrawOperation /\ DrawEffect
  /\ panel' = ReviewLatest(panel,
                NewEffect("PREVIEW", LatestOperationValues(panel, nextOperation)))
  /\ UNCHANGED <<scenario, page, runs, attempts, journal, wire, service, ghosts>>

\* The discard dialog; an unresolved operation is abandoned to the journal.
Discard ==
  /\ ~Busy(panel)
  /\ DrawOperation
  /\ LET observation == panel.observed # 0 /\ panel.seen = panel.ctx /\ ~ChangedTarget
         revision == IF observation THEN panel.observed ELSE head
     IN panel' = Reset(panel, Fresh(page, nextOperation, revision), panel.phase = "UNRESOLVED")
  /\ abandoned' = IF panel.phase = "UNRESOLVED" THEN abandoned \cup {panel.source.op}
                  ELSE abandoned
  /\ UNCHANGED <<scenario, page, runs, attempts, journal, wire, service, nextEffect,
                 sent, reviewed, heard, told, proof, barrier>>

----------------------------------------------------------------------------
\* Events around the panel.

\* A passive read of a superseded context is aborted; a mutation runs on.
AbortReads ==
  [i \in EffectIds |-> IF runs[i].stage = "READING" THEN Idle ELSE runs[i]]

\* Sign-in, sign-out or a new requester: CONTEXT is dispatched in the same commit.
ChangeContext ==
  /\ panel.ctx < scenario.contexts
  /\ page' \in Requesters
  /\ panel' = ContextChanged(panel)
  /\ runs' = AbortReads
  /\ barrier' = nextEffect
  /\ UNCHANGED <<scenario, attempts, journal, wire, service, nextOperation, nextEffect,
                 sent, reviewed, heard, told, abandoned, proof>>

\* A parent's read was refused: invalidateDisclosure.
WithdrawDisclosure ==
  /\ panel.phase \in scenario.withdraw
  /\ panel' = Invalidate(panel, TRUE)
  /\ panel' # panel
  /\ barrier' = nextEffect
  /\ UNCHANGED <<scenario, page, runs, attempts, journal, wire, service, nextOperation,
                 nextEffect, sent, reviewed, heard, told, abandoned, proof>>

\* A new successful requester context, or the authority reads becoming ready.
ObserveAccess ==
  /\ page = panel.owner
  /\ panel' = IF subject = "AUTHORITY" THEN [panel EXCEPT !.refused = FALSE]
              ELSE RestoreCreationDraft(panel)
  /\ panel' # panel
  /\ proof' = nextEffect
  /\ UNCHANGED <<scenario, page, runs, attempts, journal, wire, service, nextOperation,
                 nextEffect, sent, reviewed, heard, told, abandoned, barrier>>

\* Reload, crash, closed tab or unmounted panel; a later mount starts afresh.
Remount ==
  /\ page \in Actors
  /\ DrawOperation
  /\ panel' = Fresh(page, nextOperation, head)
  /\ runs' = [i \in EffectIds |-> Idle]
  /\ attempts' = {} /\ heard' = {} /\ abandoned' = {}
  /\ proof' = nextEffect /\ barrier' = nextEffect
  /\ UNCHANGED <<scenario, page, journal, wire, service, nextEffect, sent, reviewed, told>>

----------------------------------------------------------------------------
\* Effects (useOperation.ts, useEffects). A run is one effect in execution.

Run(stage, e, record, answer) ==
  [stage |-> stage, effect |-> e, record |-> record, answer |-> answer]

\* The attempt this page already journalled for the operation, if any.
Owned(op) == {r \in attempts : r.op = op}

\* What begins when the scheduled effect is picked up. A first dispatch makes the
\* attempt's record; a status check may only use one that exists.
Started(e) ==
  LET owned == Owned(e.request.op)
      record == IF owned # {} THEN CHOOSE r \in owned : TRUE
                ELSE [actor |-> page, attempt |-> e.id, op |-> e.request.op]
  IN IF e.kind \in {"RECORDED", "DISCLOSURE_REFUSED"} THEN runs[e.id]
     ELSE IF e.kind = "EXECUTE"
          THEN Run(IF record.actor = page THEN "PUTTING" ELSE "ANSWERED", e, record, "UNSENT")
     ELSE IF e.kind = "CHECK_STATUS" /\ (owned = {} \/ record.actor # page)
          THEN Run("ANSWERED", e, NoRecord, "UNAVAILABLE")
     ELSE Run("READING", e, IF e.kind = "CHECK_STATUS" THEN record ELSE NoRecord, "NONE")

StartEffect ==
  \E e \in panel.effects :
    /\ panel' = [panel EXCEPT !.effects = {f \in @ : f.id # e.id}]
    /\ runs' = [runs EXCEPT ![e.id] = Started(e)]
    /\ attempts' = IF e.kind = "EXECUTE" THEN attempts \cup {Started(e).record} ELSE attempts
    /\ UNCHANGED <<scenario, page, journal, wire, service, nextOperation, nextEffect, ghosts>>

\* journalBeforeSend: the write commits or fails, then the owner is rechecked.
CommitRecord(i) ==
  /\ runs[i].stage = "PUTTING"
  /\ journal' = journal \cup {runs[i].record}
  /\ runs' = [runs EXCEPT ![i].stage = "PUT"]
  /\ UNCHANGED <<scenario, page, panel, attempts, wire, service, nextOperation, nextEffect, ghosts>>

FailRecord(i) ==
  /\ runs[i].stage = "PUTTING"
  /\ runs' = [runs EXCEPT ![i].stage = "ANSWERED"]
  /\ UNCHANGED <<scenario, page, panel, attempts, journal, wire, service,
                 nextOperation, nextEffect, ghosts>>

Dispatch_Unfenced(i) ==
  LET e == runs[i].effect IN
  /\ runs[i].stage = "PUT"
  /\ panel' = Handoff(panel, e)
  /\ wire' = wire \cup {[id |-> i, request |-> e.request]}
  /\ sent' = sent \cup {[request |-> e.request, actor |-> page, ctx |-> panel.ctx,
                         first |-> \A m \in sent : m.request.op # e.request.op]}
  /\ runs' = [runs EXCEPT ![i].stage = "SENT"]
  /\ UNCHANGED <<scenario, page, attempts, journal, service, nextOperation, nextEffect,
                 reviewed, heard, told, abandoned, proof, barrier>>

Dispatch(i) ==
  LET e == runs[i].effect IN
  /\ runs[i].stage = "PUT"
  /\ IF Current(panel, e)
     THEN /\ panel' = Handoff(panel, e)
          /\ wire' = wire \cup {[id |-> i, request |-> e.request]}
          /\ sent' = sent \cup {[request |-> e.request, actor |-> page, ctx |-> panel.ctx,
                                 first |-> \A m \in sent : m.request.op # e.request.op]}
          /\ runs' = [runs EXCEPT ![i].stage = "SENT"]
     ELSE /\ runs' = [runs EXCEPT ![i].stage = "ANSWERED"]
          /\ UNCHANGED <<panel, wire, sent>>
  /\ UNCHANGED <<scenario, page, attempts, journal, service, nextOperation, nextEffect,
                 reviewed, heard, told, abandoned, proof, barrier>>

\* The response deadline, a lost connection or an unreadable answer.
LoseAnswer(i) ==
  /\ runs[i].stage = "SENT"
  /\ runs' = [runs EXCEPT ![i].stage = "ANSWERED", ![i].answer = "UNCERTAIN"]
  /\ UNCHANGED <<scenario, page, panel, attempts, journal, wire, service,
                 nextOperation, nextEffect, ghosts>>

StatusAnswers(op) ==
  {"FAILED", "DENIED"} \cup
    (IF ledger[op] = "ACCEPTED" THEN {"RECORD"}
     ELSE IF ledger[op] = "FENCED" THEN {"NOT_ACCEPTED"} ELSE {"STATUS_UNRESOLVED"})

AnswerCheck(i) ==
  LET op == runs[i].effect.request.op IN
  /\ runs[i].stage = "READING" /\ runs[i].effect.kind = "CHECK_STATUS"
  /\ \E answer \in StatusAnswers(op) :
       /\ runs' = [runs EXCEPT ![i].stage = "ANSWERED", ![i].answer = answer]
       /\ heard' = IF answer = "RECORD" THEN heard \cup {op} ELSE heard
  /\ UNCHANGED <<scenario, page, panel, attempts, journal, wire, service,
                 nextOperation, nextEffect, sent, reviewed, told, abandoned, proof, barrier>>

Final_AnyAnswer(answer) == answer \in {"RECORD", "NOT_ACCEPTED", "REFUSED", "DENIED"}

\* A correlated final answer removes the attempt before it is shown; the removal may fail.
Final(answer) == answer \in {"RECORD", "NOT_ACCEPTED"}

ForgetRecord(i) ==
  /\ runs[i].stage = "ANSWERED" /\ Final(runs[i].answer)
  /\ Current(panel, runs[i].effect)
  /\ journal' \in {journal, journal \ {runs[i].record}}
  /\ runs' = [runs EXCEPT ![i].stage = "CLEARED"]
  /\ UNCHANGED <<scenario, page, panel, attempts, wire, service, nextOperation, nextEffect, ghosts>>

\* 0 once the bounded identities have run out: that draft goes no further.
FreshOperation == IF nextOperation \in Operations THEN nextOperation ELSE 0

\* The reducer event a completed effect dispatches (completion, runNetwork).
Completed(s, e, answer) ==
  IF answer = "RECORD" THEN Record(s, e)
  ELSE IF answer = "REVIEWED" THEN Reviewed(s, e)
  ELSE IF answer = "NOT_ACCEPTED" THEN NotAccepted(s, e, FreshOperation)
  ELSE IF answer = "STATUS_UNRESOLVED" THEN StillUnresolved(s, e)
  ELSE Refuse(s, e, [uncertain  |-> answer = "UNCERTAIN",
                     disclosure |-> answer = "DENIED",
                     conflict   |-> answer = "CONFLICT"])

\* The answer of a disclosure read; revision 0 is a failure.
ReadCompleted(s, e, answer) ==
  LET revision == IF answer = "OBSERVED" THEN head ELSE 0
  IN IF e.kind = "READ_CONFLICT"
     THEN ConflictObservation(s, e, revision, answer = "DENIED")
     ELSE Disclosed(s, e, revision, answer = "DENIED")

\* What an answer that the reducer took means to the histories.
Witnessed(e, answer) ==
  /\ proof' = IF panel' # panel /\ answer \in {"RECORD", "REVIEWED", "OBSERVED"}
              THEN e.id ELSE proof
  /\ barrier' = IF panel' # panel /\ answer = "DENIED" THEN nextEffect ELSE barrier
  /\ reviewed' = IF panel' # panel /\ answer = "REVIEWED"
                 THEN reviewed \cup {[op |-> e.request.op, ctx |-> e.ctx]} ELSE reviewed
  /\ told' = IF panel' # panel /\ answer = "RECORD" THEN told \cup {e.request.op} ELSE told

Deliver(i) ==
  LET run == runs[i] IN
  /\ \/ run.stage = "CLEARED"
     \/ run.stage = "ANSWERED" /\ ~(Final(run.answer) /\ Current(panel, run.effect))
  /\ panel' = IF Current(panel, run.effect)
              THEN Completed(panel, run.effect, run.answer) ELSE panel
  /\ nextOperation' = IF panel'.draft.op = nextOperation THEN nextOperation + 1 ELSE nextOperation
  /\ runs' = [runs EXCEPT ![i] = Idle]
  /\ Witnessed(run.effect, run.answer)
  /\ UNCHANGED <<scenario, page, attempts, journal, wire, service, nextEffect,
                 sent, heard, abandoned>>

PreviewAnswers(request) ==
  {"REFUSED", "DENIED"} \cup
    (IF subject = "CASE" /\ request.rev # head THEN {"CONFLICT"} ELSE {"REVIEWED"})

\* A preview or a disclosure read answers and is dispatched.
FinishRead(i) ==
  LET e == runs[i].effect
      answers == IF e.kind = "PREVIEW" THEN PreviewAnswers(e.request)
                 ELSE {"OBSERVED", "FAILED", "DENIED"}
  IN /\ runs[i].stage = "READING" /\ e.kind # "CHECK_STATUS"
     /\ \E answer \in answers :
          /\ panel' = IF e.kind = "PREVIEW" THEN Completed(panel, e, answer)
                      ELSE ReadCompleted(panel, e, answer)
          /\ Witnessed(e, answer)
     /\ runs' = [runs EXCEPT ![i] = Idle]
     /\ UNCHANGED <<scenario, page, attempts, journal, wire, service, nextOperation,
                    nextEffect, sent, heard, abandoned>>

----------------------------------------------------------------------------
\* The service.

Acceptable(request) ==
  /\ ledger[request.op] = "NONE"
  /\ subject = "CASE" => request.rev = head /\ head < MaxRevision
  /\ subject = "OPEN" => head = 0

Refusals(request) ==
  IF ledger[request.op] = "NONE" /\ subject = "CASE" /\ request.rev # head
  THEN {"CONFLICT", "DENIED"} ELSE {"REFUSED", "DENIED"}

\* The host decides a dispatched request, whether or not its page still listens.
Hear(m, answer) ==
  IF runs[m.id].stage = "SENT"
  THEN /\ runs' = [runs EXCEPT ![m.id].stage = "ANSWERED", ![m.id].answer = answer]
       /\ heard' = IF answer = "RECORD" THEN heard \cup {m.request.op} ELSE heard
  ELSE UNCHANGED <<runs, heard>>

Decide(m) ==
  /\ wire' = wire \ {m}
  /\ \/ /\ Acceptable(m.request)
        /\ ledger' = [ledger EXCEPT ![m.request.op] = "ACCEPTED"]
        /\ head' = IF subject = "AUTHORITY" THEN head ELSE head + 1
        /\ Hear(m, "RECORD")
     \/ /\ ledger[m.request.op] = "ACCEPTED"
        /\ UNCHANGED service
        /\ Hear(m, "RECORD")
     \/ /\ ledger[m.request.op] # "ACCEPTED"
        /\ UNCHANGED service
        /\ \E answer \in Refusals(m.request) : Hear(m, answer)
  /\ UNCHANGED <<scenario, page, panel, attempts, journal, nextOperation, nextEffect,
                 sent, reviewed, told, abandoned, proof, barrier>>

\* Another client's act moves the case on.
OtherAct ==
  /\ subject = "CASE" /\ head < MaxRevision
  /\ head' = head + 1
  /\ UNCHANGED <<scenario, page, panel, runs, attempts, journal, wire, ledger,
                 nextOperation, nextEffect, ghosts>>

\* The recovery list settles a listed attempt, here or on another device.
SettleElsewhere ==
  \E r \in journal :
    /\ ledger[r.op] = "NONE"
    /\ ledger' = [ledger EXCEPT ![r.op] = "FENCED"]
    /\ journal' \in {journal, journal \ {r}}
    /\ UNCHANGED <<scenario, page, panel, runs, attempts, wire, head,
                   nextOperation, nextEffect, ghosts>>

----------------------------------------------------------------------------
Author == \/ EditDraft \/ EnterPartialDate \/ PreviewDraft \/ ReturnToEdit
          \/ SubmitReviewed \/ SendAgain \/ CheckStatus \/ RevalidateDisclosure
          \/ ReviewLatestDraft \/ Discard

Around == \/ ChangeContext \/ WithdrawDisclosure \/ ObserveAccess \/ Remount
          \/ OtherAct \/ SettleElsewhere \/ \E m \in wire : Decide(m)

Progress(i) ==
  \/ CommitRecord(i) \/ FailRecord(i) \/ Dispatch(i) \/ LoseAnswer(i)
  \/ AnswerCheck(i) \/ ForgetRecord(i) \/ Deliver(i) \/ FinishRead(i)

\* A page that lives executes its effects; storage and reads answer within a deadline.
Executing == StartEffect \/ \E i \in EffectIds : Progress(i)

Next == Author \/ Around \/ Executing

Spec == Init /\ [][Next]_vars /\ WF_vars(Executing)

----------------------------------------------------------------------------
Records == [actor : Actors, attempt : EffectIds, op : Operations]

\* Every variable keeps its type, and an effect is owned only by a busy phase.
TypeOK ==
  /\ scenario \in Scenarios /\ page \in Requesters
  /\ panel \in [owner : Actors, target : Requesters,
                draft : [op : Operations \cup {0}, rev : 0..MaxRevision, text : 0..MaxText],
                observed : 0..MaxRevision, phase : Phases,
                source : Requests \cup {NoRequest}, effect : EffectIds \cup {0},
                confirmed : BOOLEAN, receipt : BOOLEAN, partial : BOOLEAN,
                conflict : [id : EffectIds \cup {0}, source : Requests \cup {NoRequest},
                            latest : 0..MaxRevision],
                reading : EffectIds \cup {0}, ctx : 0..MaxContexts, seen : 0..MaxContexts,
                refused : BOOLEAN, effects : SUBSET Effects]
  /\ panel.effect # 0 => Busy(panel)
  /\ \A i \in EffectIds :
       /\ runs[i].stage \in {"IDLE", "READING", "PUTTING", "PUT", "SENT", "ANSWERED", "CLEARED"}
       /\ runs[i].stage # "IDLE" => runs[i].effect \in Effects /\ runs[i].effect.id = i
  /\ attempts \subseteq Records /\ journal \subseteq Records
  /\ \A m \in wire : m.id \in EffectIds /\ m.request \in Requests
  /\ ledger \in [Operations -> {"NONE", "ACCEPTED", "FENCED"}]
  /\ head \in 0..MaxRevision
  /\ nextOperation \in 1..(MaxOperations + 1) /\ nextEffect \in 1..(MaxEffects + 1)
  /\ heard \cup told \cup abandoned \subseteq Operations

\* One operation identity stands for one request of one requester: whatever is edited,
\* rebased, abandoned or sent again, two dispatches under one identity are the same bytes.
OneRequestPerIdentity ==
  \A m, n \in sent : m.request.op = n.request.op => m.request = n.request /\ m.actor = n.actor

\* The journal outlives doubt: a dispatched operation whose fate the ledger has not
\* decided is still listed for its actor, across crashes, lost answers and refusals.
RecordOutlivesDoubt ==
  \A m \in sent : ledger[m.request.op] = "NONE" =>
    \E r \in journal : r.op = m.request.op /\ r.actor = m.actor

\* A request is dispatched for the first time only in the context in which its review
\* was shown; a change of requester or session in between stops it.
ConfirmedWhereReviewed ==
  \A m \in sent : m.first => [op |-> m.request.op, ctx |-> m.ctx] \in reviewed

\* What a person is shown rests on an answer that was asked for after the last refusal
\* or change of context, never on one that was already under way.
FactsHaveFreshProof == Shown(panel) => proof >= barrier

\* An accepted operation whose receipt reached this page is never left without both its
\* journal record and its place in the panel, unless the person abandoned it.
HeardAcceptanceIsShown ==
  \A op \in heard \ abandoned : (\A r \in journal : r.op # op) =>
    \/ op \in told
    \/ panel.source.op = op /\ panel.phase \in {"SUBMITTING", "UNRESOLVED", "ACCEPTED"}

\* The panel leaves an unknown outcome only for the receipt, for a final nonacceptance,
\* or because the person abandoned it.
DoubtIsSticky ==
  [][panel.phase = "UNRESOLVED" /\ panel'.phase \notin {"UNRESOLVED", "ACCEPTED"}
       => ledger[panel.source.op] = "FENCED" \/ Discard \/ Remount]_vars

\* Neither the panel, whose busy phases lock navigation, nor its form, which a
\* disclosure read locks, stays locked: every preview, dispatch, repetition, status check
\* and read ends, whatever is lost, refused or superseded.
Locked == Busy(panel) \/ panel.reading # 0
LocksRelease == Locked ~> ~Locked

\* What a person entered is changed only by the person: refusals, conflicts, the rebase
\* onto a newer revision and changes of context all keep it.
AuthoredTextSurvives ==
  [][panel'.draft.text # panel.draft.text
       => EditDraft \/ EnterPartialDate \/ Discard \/ Remount]_vars
=============================================================================
