----------------------- MODULE BrowserOperationProofs -----------------------
(***************************************************************************)
(* For any requesters, scenarios and bounds: one identity stands for one    *)
(* request, a dispatched request stays listed until its fate is known, what *)
(* is dispatched was reviewed where it is sent from, what is shown rests on *)
(* a fresh answer, and an acceptance that was heard is shown.               *)
(***************************************************************************)
EXTENDS BrowserOperation, TLAPS

Sources   == Requests \cup {NoRequest}
Drafts    == [op : Operations \cup {0}, rev : 0..MaxRevision, text : 0..MaxText]
Conflicts == [id : EffectIds \cup {0}, source : Sources, latest : 0..MaxRevision]
Panels == [owner : Actors, target : Requesters, draft : Drafts, observed : 0..MaxRevision,
           phase : Phases, source : Sources, effect : EffectIds \cup {0},
           confirmed : BOOLEAN, receipt : BOOLEAN, partial : BOOLEAN, conflict : Conflicts,
           reading : EffectIds \cup {0}, ctx : 0..MaxContexts, seen : 0..MaxContexts,
           refused : BOOLEAN, effects : SUBSET Effects]

Stages  == {"IDLE", "READING", "PUTTING", "PUT", "SENT", "ANSWERED", "CLEARED"}
Answers == {"NONE", "UNSENT", "UNCERTAIN", "UNAVAILABLE", "RECORD", "NOT_ACCEPTED",
            "STATUS_UNRESOLVED", "FAILED", "DENIED", "REFUSED", "CONFLICT"}
Runs == [stage : Stages, effect : Effects \cup {Idle.effect},
         record : Records \cup {NoRecord}, answer : Answers]

----------------------------------------------------------------------------
(* Types, and the types that rest on order: a phase past the draft has a frozen
   request, an effect that carries one was made from it, a mutation was started
   by the panel's verified owner. *)
Typed ==
  /\ scenario \in Scenarios /\ page \in Requesters
  /\ panel \in Panels
  /\ runs \in [EffectIds -> Runs]
  /\ attempts \subseteq Records /\ journal \subseteq Records
  /\ wire \subseteq [id : EffectIds, request : Requests]
  /\ ledger \in [Operations -> {"NONE", "ACCEPTED", "FENCED"}]
  /\ head \in 0..MaxRevision
  /\ nextOperation \in 1..(MaxOperations + 1) /\ nextEffect \in 1..(MaxEffects + 1)
  /\ sent \subseteq [request : Requests, actor : Requesters, ctx : 0..MaxContexts,
                     first : BOOLEAN]
  /\ heard \cup told \cup abandoned \subseteq Operations
  /\ proof \in 1..(MaxEffects + 1) /\ barrier \in 1..(MaxEffects + 1)

(* The kinds of effect a phase owns while its effect has not ended. *)
Carries == {"PREVIEW", "EXECUTE", "CHECK_STATUS"}

Fits(kind, phase) ==
  \/ kind = "PREVIEW" /\ phase = "PREVIEWING"
  \/ kind = "EXECUTE" /\ phase \in {"PREPARING", "SUBMITTING", "UNRESOLVED"}
  \/ kind = "CHECK_STATUS" /\ phase = "UNRESOLVED"

PanelShape ==
  /\ panel.phase # "EDITING" => panel.source \in Requests
  /\ panel.source # NoRequest => panel.draft = panel.source
  /\ panel.effect # 0 => Busy(panel)
  /\ panel.effect < nextEffect /\ panel.reading < nextEffect
  /\ panel.draft.op < nextOperation
  /\ panel.seen <= panel.ctx
  /\ panel.reading # 0 => panel.phase = "EDITING"
  /\ panel.phase \in {"PREVIEWING", "REVIEWING"} => panel.conflict = NoConflict
  /\ panel.phase = "REVIEWING" => panel.seen = panel.ctx /\ ~panel.refused

(* A scheduled effect has not started, belongs to the context in force and, if the
   phase waits for it, to the request the phase holds. *)
EffectsShape ==
  \A e \in panel.effects :
    /\ e.id < nextEffect /\ e.ctx = panel.ctx
    /\ e.kind \in Carries => e.request \in Requests
    /\ e.kind = "EXECUTE" => page = panel.owner
    /\ runs[e.id].stage = "IDLE"
    /\ e.id = panel.effect =>
         e.request = panel.source /\ Fits(e.kind, panel.phase) /\ panel.phase # "SUBMITTING"

(* So does the effect in execution the phase waits for, and its answer fits the phase. *)
RunShape(i) ==
  /\ i < nextEffect /\ runs[i].effect \in Effects
  /\ runs[i].effect.id = i /\ runs[i].effect.ctx <= panel.ctx
  /\ runs[i].effect.kind \in Carries => runs[i].effect.request \in Requests
  /\ runs[i].stage \in {"PUTTING", "PUT", "SENT"} => runs[i].effect.kind = "EXECUTE"
  /\ runs[i].stage \in {"ANSWERED", "CLEARED"} =>
       runs[i].effect.kind \in {"EXECUTE", "CHECK_STATUS"}
  /\ runs[i].stage = "READING" => runs[i].effect.kind # "EXECUTE"
  /\ runs[i].stage = "READING" => runs[i].effect.ctx = panel.ctx
  /\ runs[i].stage \in {"PUTTING", "PUT"} => runs[i].record \in Records
  /\ runs[i].stage \in {"READING", "PUTTING", "PUT", "SENT"} =>
       runs[i].answer \in {"NONE", "UNSENT"}
  /\ panel.effect = i =>
       /\ runs[i].effect.request = panel.source
       /\ runs[i].effect.ctx = panel.ctx
       /\ Fits(runs[i].effect.kind, panel.phase)
       /\ runs[i].stage \in {"PUTTING", "PUT"} => panel.phase # "SUBMITTING"
       /\ runs[i].stage = "SENT" => panel.phase # "PREPARING"
       /\ runs[i].answer = "RECORD" => panel.phase # "PREPARING"

RunsShape == \A i \in EffectIds : runs[i].stage # "IDLE" => RunShape(i)

Shape == PanelShape /\ EffectsShape /\ RunsShape

----------------------------------------------------------------------------
(* Requests that can still be dispatched, and every one that ever could. *)
Live == {p \in Requests :
           \/ p = panel.source
           \/ \E e \in panel.effects : e.kind = "EXECUTE" /\ e.request = p
           \/ \E i \in EffectIds : runs[i].stage # "IDLE"
                                   /\ runs[i].effect.kind = "EXECUTE"
                                   /\ runs[i].effect.request = p}

Exposed == Live \cup {m.request : m \in sent}

(* An identity that was exposed stands for one request, and the draft's own is
   unexposed until the draft is frozen. *)
Identities ==
  /\ \A p, q \in Exposed : p.op = q.op => p = q
  /\ \A p \in Exposed : p.op < nextOperation
  /\ panel.source = NoRequest => \A p \in Exposed : p.op # panel.draft.op

----------------------------------------------------------------------------
(* A dispatch that is under way stands for its run's request, while the page listens. *)
Wired ==
  \A m \in wire :
    /\ m.id < nextEffect
    /\ runs[m.id].stage \notin {"PUTTING", "PUT"}
    /\ runs[m.id].stage = "SENT" => runs[m.id].effect.request = m.request
    /\ \A e \in panel.effects : e.kind = "EXECUTE" => e.id # m.id

----------------------------------------------------------------------------
(* An attempt's record is made once, by the requester that dispatches it. *)
Attempted(i) ==
  /\ runs[i].stage \in {"PUTTING", "PUT"} =>
       /\ runs[i].record \in attempts
       /\ runs[i].effect.ctx = panel.ctx => runs[i].record.actor = page
  /\ (runs[i].effect.kind \in {"EXECUTE", "CHECK_STATUS"} /\ runs[i].answer # "UNAVAILABLE") =>
       runs[i].record.op = runs[i].effect.request.op
  /\ runs[i].stage = "PUT" =>
       runs[i].record \in journal \/ ledger[runs[i].record.op] # "NONE"

AnswersAreFinal(i) ==
  /\ runs[i].answer = "RECORD" => ledger[runs[i].effect.request.op] = "ACCEPTED"
  /\ runs[i].answer = "NOT_ACCEPTED" => ledger[runs[i].effect.request.op] = "FENCED"

Attempts ==
  /\ \A r, s \in attempts : r.op = s.op => r = s
  /\ \A m \in sent, p \in Live : m.request.op = p.op =>
       \E r \in attempts : r.op = p.op /\ r.actor = m.actor
  /\ \A m, n \in sent : m.request.op = n.request.op => m.actor = n.actor
  /\ \A i \in EffectIds : runs[i].stage # "IDLE" => Attempted(i) /\ AnswersAreFinal(i)
  /\ RecordOutlivesDoubt

----------------------------------------------------------------------------
WasSent(op) == \E m \in sent : m.request.op = op

(* An unknown outcome is of a request that was dispatched; one that is being
   dispatched was reviewed in the context it is dispatched in, or sent before. *)
Earned(e) == [op |-> e.request.op, ctx |-> e.ctx] \in reviewed \/ WasSent(e.request.op)

Reviews ==
  /\ panel.phase \in {"SUBMITTING", "UNRESOLVED"} => WasSent(panel.source.op)
  /\ panel.phase = "REVIEWING" => [op |-> panel.source.op, ctx |-> panel.ctx] \in reviewed
  /\ \A e \in panel.effects : e.kind = "EXECUTE" => Earned(e)
  /\ \A i \in EffectIds : runs[i].stage # "IDLE" =>
       /\ runs[i].effect.kind = "EXECUTE" => Earned(runs[i].effect)
       /\ runs[i].stage = "SENT" => WasSent(runs[i].effect.request.op)
       /\ runs[i].answer = "UNCERTAIN" => WasSent(runs[i].effect.request.op)
  /\ ConfirmedWhereReviewed

----------------------------------------------------------------------------
(* What the panel waits for was asked after the last refusal or change of context. *)
Freshness ==
  /\ barrier <= nextEffect
  /\ panel.effect # 0 => panel.effect >= barrier
  /\ panel.reading # 0 => panel.reading >= barrier
  /\ panel.seen = panel.ctx /\ ~panel.refused => proof >= barrier

----------------------------------------------------------------------------
(* Unless it was abandoned, told or fenced, an operation whose acceptance can still
   be heard is the one the panel holds, and the panel waits for that answer alone
   until it treats the outcome as unknown. *)
Settled(op) == op \in abandoned \cup told \/ ledger[op] = "FENCED"

Holds(op, phase, i) ==
  panel.source.op = op /\ (panel.phase = "UNRESOLVED" \/ (panel.phase = phase /\ panel.effect = i))

Awaited ==
  /\ \A e \in panel.effects :
       /\ e.kind = "EXECUTE" => Settled(e.request.op) \/ Holds(e.request.op, "PREPARING", e.id)
       /\ e.kind = "CHECK_STATUS" => Settled(e.request.op) \/ Holds(e.request.op, "UNRESOLVED", e.id)
  /\ \A i \in EffectIds : LET op == runs[i].effect.request.op IN
       /\ runs[i].stage \in {"PUTTING", "PUT"} /\ Current(panel, runs[i].effect) =>
            Settled(op) \/ Holds(op, "PREPARING", i)
       /\ runs[i].stage = "SENT" => Settled(op) \/ Holds(op, "SUBMITTING", i)
       /\ runs[i].stage = "READING" /\ runs[i].effect.kind = "CHECK_STATUS" =>
            Settled(op) \/ Holds(op, "UNRESOLVED", i)

(* What was told or abandoned is not the panel's any more, unless it shows it. *)
Marks ==
  /\ panel.source # NoRequest => panel.source.op \notin abandoned
  /\ panel.source # NoRequest /\ panel.source.op \in told => panel.phase = "ACCEPTED"
  /\ panel.draft.op \notin abandoned
  /\ panel.draft.op \in told => panel.phase = "ACCEPTED"
  /\ \A op \in heard \cup told \cup abandoned : op < nextOperation

Receipts ==
  /\ \A op \in heard : ledger[op] = "ACCEPTED"
  /\ \A op \in heard \ (abandoned \cup told) :
       /\ panel.source.op = op
       /\ \/ panel.phase = "UNRESOLVED"
          \/ /\ panel.phase = "SUBMITTING" /\ panel.effect # 0
             /\ runs[panel.effect].stage \in {"ANSWERED", "CLEARED"}
             /\ runs[panel.effect].answer = "RECORD"

Hearing == Awaited /\ Marks /\ Receipts

----------------------------------------------------------------------------
(* The reducer: what each of its transitions leaves and what it changes. *)
SameFacts(s, t) ==
  t.owner = s.owner /\ t.ctx = s.ctx /\ t.seen = s.seen /\ t.refused = s.refused
SameReads(s, t) == t.reading = s.reading /\ t.conflict = s.conflict
SameWork(s, t) ==
  t.phase = s.phase /\ t.source = s.source /\ t.effect = s.effect /\ t.draft = s.draft

LEMMA EnterFields ==
  ASSUME NEW s \in Panels, NEW phase \in Phases, NEW source \in Sources,
         NEW effect \in EffectIds \cup {0}
  PROVE  LET t == Enter(s, phase, source, effect)
         IN /\ t \in Panels /\ SameFacts(s, t) /\ SameReads(s, t) /\ t.effects = s.effects
            /\ t.phase = phase /\ t.source = source /\ t.effect = effect /\ t.draft = s.draft
  BY DEF Enter, Panels, SameFacts, SameReads

(* An edit either leaves the frozen request alone or gives the draft an identity
   that is its own. *)
Edited(s, t, op) ==
  /\ t \in Panels /\ SameFacts(s, t) /\ SameReads(s, t) /\ t.effects = s.effects
  /\ \/ SameWork(s, t)
     \/ /\ t.phase = "EDITING" /\ t.source = NoRequest /\ t.effect = 0
        /\ t.draft.op = IF s.source = NoRequest THEN s.draft.op ELSE op

LEMMA EditFields ==
  ASSUME NEW s \in Panels, NEW text \in 0..MaxText, NEW op \in Operations \cup {0},
         NEW t, t = Edit(s, text, op)
  PROVE  Edited(s, t, op)
  <1>1. CASE s.draft.text = text
    BY <1>1 DEF Edit, Edited, Panels, SameFacts, SameReads, SameWork
  <1>2. CASE s.draft.text # text
    <2> DEFINE u == Enter(s, "EDITING", NoRequest, 0)
    <2>1. /\ u \in Panels /\ SameFacts(s, u) /\ SameReads(s, u) /\ u.effects = s.effects
          /\ u.phase = "EDITING" /\ u.source = NoRequest /\ u.effect = 0 /\ u.draft = s.draft
      BY EnterFields DEF Phases, Sources
    <2>2. t = [u EXCEPT !.partial = FALSE, !.draft.text = text,
                        !.draft.op = IF s.source = NoRequest THEN @ ELSE op]
      BY <1>2 DEF Edit, Source
    <2> HIDE DEF u
    <2>3. s.draft \in Drafts
      BY DEF Panels
    <2>4. /\ t \in Panels /\ t.owner = u.owner /\ t.ctx = u.ctx /\ t.seen = u.seen
          /\ t.refused = u.refused /\ t.reading = u.reading /\ t.conflict = u.conflict
          /\ t.effects = u.effects /\ t.phase = u.phase /\ t.source = u.source
          /\ t.effect = u.effect /\ t.draft.op = IF s.source = NoRequest THEN u.draft.op ELSE op
      <3> DEFINE d == [u.draft EXCEPT !.text = text, !.op = IF s.source = NoRequest THEN @ ELSE op]
      <3>1. d \in Drafts /\ d.op = IF s.source = NoRequest THEN u.draft.op ELSE op
        BY <2>1, <2>3 DEF Drafts
      <3>2. t = [u EXCEPT !.partial = FALSE, !.draft = d]
        BY <2>1, <2>2 DEF Panels
      <3> HIDE DEF d
      <3> QED
        BY ZenonT(30), <2>1, <3>1, <3>2 DEF Panels
    <2> QED
      BY <2>1, <2>4 DEF Edited, SameFacts, SameReads
  <1> QED
    BY <1>1, <1>2

LEMMA DateEntryFields ==
  ASSUME OperationAssumption, NEW s \in Panels, NEW op \in Operations \cup {0},
         NEW t, t = DateEntry(s, op)
  PROVE  Edited(s, t, op)
  <1> DEFINE u == IF s.draft.text = 0 THEN s ELSE Edit(s, 0, op)
  <1>1. 0 \in 0..MaxText
    BY DEF OperationAssumption
  <1>2. Edited(s, u, op)
    BY <1>1, EditFields DEF Edited, SameFacts, SameReads, SameWork
  <1>3. t = [u EXCEPT !.partial = TRUE]
    BY DEF DateEntry
  <1> HIDE DEF u
  <1> QED
    BY <1>2, <1>3 DEF Edited, Panels, SameFacts, SameReads, SameWork

(* The phase starts an effect for a request, or for the one it has. *)
Begins(s, t, e, phase) ==
  /\ t \in Panels /\ SameFacts(s, t) /\ SameReads(s, t)
  /\ t.phase = phase /\ t.source = e.request /\ t.effect = e.id /\ t.draft = s.draft
  /\ t.effects = s.effects \cup {e}

LEMMA PreviewFields ==
  ASSUME NEW s \in Panels, NEW e \in Effects, NEW t, t = Preview(s, e)
  PROVE  \/ t = s
         \/ /\ CanEdit(s) /\ s.conflict = NoConflict /\ s.reading = 0 /\ Current(s, e)
            /\ Begins(s, t, e, "PREVIEWING")
  <1> DEFINE u == Enter(s, "PREVIEWING", e.request, e.id)
  <1>1. e.request \in Sources /\ e.id \in EffectIds
    BY DEF Effects, Sources
  <1>2. /\ u \in Panels /\ SameFacts(s, u) /\ SameReads(s, u) /\ u.effects = s.effects
        /\ u.phase = "PREVIEWING" /\ u.source = e.request /\ u.effect = e.id /\ u.draft = s.draft
    BY <1>1 DEF Enter, Panels, Phases, SameFacts, SameReads
  <1> HIDE DEF u
  <1>3. Begins(s, Append(u, e), e, "PREVIEWING")
    BY <1>2 DEF Append, Begins, Panels, SameFacts, SameReads
  <1> QED
    BY <1>3 DEF Preview, u

LEMMA ExecuteFields ==
  ASSUME NEW s \in Panels, NEW e \in Effects, e.request = s.source, NEW t, t = Execute(s, e)
  PROVE  \/ t = s
         \/ /\ s.phase = "REVIEWING" /\ s.seen = s.ctx /\ ~s.refused /\ Current(s, e)
            /\ Begins(s, t, e, "PREPARING")
         \/ /\ s.phase = "UNRESOLVED" /\ ~Busy(s) /\ Current(s, e)
            /\ Begins(s, t, e, "UNRESOLVED")
  <1> DEFINE u(phase) == Enter(s, phase, s.source, e.id)
  <1>1. e.id \in EffectIds
    BY DEF Effects
  <1>2. ASSUME NEW phase \in Phases
        PROVE  /\ u(phase) \in Panels /\ SameFacts(s, u(phase)) /\ SameReads(s, u(phase))
               /\ u(phase).effects = s.effects /\ u(phase).phase = phase
               /\ u(phase).source = s.source /\ u(phase).effect = e.id
               /\ u(phase).draft = s.draft
    BY <1>1 DEF Enter, Panels, SameFacts, SameReads
  <1> HIDE DEF u
  <1>3. ASSUME NEW phase \in Phases
        PROVE  Begins(s, Append(u(phase), e), e, phase)
    BY <1>2 DEF Append, Begins, Panels, SameFacts, SameReads
  <1>4. "PREPARING" \in Phases /\ "UNRESOLVED" \in Phases
    BY DEF Phases
  <1>5. Begins(s, Append(u("PREPARING"), e), e, "PREPARING")
        /\ Begins(s, Append(u("UNRESOLVED"), e), e, "UNRESOLVED")
    BY <1>3, <1>4
  <1> QED
    BY <1>5 DEF Execute, u

LEMMA ConfirmedFields ==
  ASSUME NEW s \in Panels, NEW t, t = Confirmed(s, TRUE)
  PROVE  /\ t \in Panels /\ SameFacts(s, t) /\ SameReads(s, t) /\ SameWork(s, t)
         /\ t.effects = s.effects
  BY DEF Confirmed, Panels, SameFacts, SameReads, SameWork

LEMMA CheckingStatusFields ==
  ASSUME NEW s \in Panels, NEW e \in Effects, e.request = s.source, NEW t,
         t = CheckingStatus(s, e)
  PROVE  \/ t = s
         \/ /\ s.phase = "UNRESOLVED" /\ ~Busy(s) /\ Current(s, e)
            /\ Begins(s, t, e, "UNRESOLVED")
  <1>1. e.id \in EffectIds
    BY DEF Effects
  <1> QED
    BY <1>1 DEF CheckingStatus, Append, Begins, Panels, SameFacts, SameReads

(* The form waits for a read. *)
ReadBegins(s, t, e) ==
  /\ t \in Panels /\ SameFacts(s, t) /\ SameWork(s, t)
  /\ t.reading = e.id /\ t.effects = s.effects \cup {e}

LEMMA ReadConflictFields ==
  ASSUME OperationAssumption, NEW s \in Panels, NEW e \in Effects, NEW t, t = ReadConflict(s, e)
  PROVE  \/ t = s
         \/ Current(s, e) /\ ~Busy(s) /\ s.reading = 0 /\ ReadBegins(s, t, e)
  <1>1. e.id \in EffectIds /\ 0 \in 0..MaxRevision
    BY DEF Effects, OperationAssumption
  <1> DEFINE c == [s.conflict EXCEPT !.latest = 0]
  <1>2. c \in Conflicts
    BY <1>1 DEF Panels, Conflicts
  <1> DEFINE u == [s EXCEPT !.conflict = c, !.reading = e.id]
  <1>3. t = s \/ (Current(s, e) /\ ~Busy(s) /\ s.reading = 0 /\ t = Append(u, e))
    BY DEF ReadConflict
  <1> HIDE DEF c
  <1>4. ReadBegins(s, Append(u, e), e)
    BY <1>1, <1>2 DEF Append, ReadBegins, Panels, SameFacts, SameWork
  <1> HIDE DEF u
  <1> QED
    BY <1>3, <1>4

LEMMA ReadCurrentFields ==
  ASSUME NEW s \in Panels, NEW e \in Effects, NEW t, t = ReadCurrent(s, e)
  PROVE  \/ t = s
         \/ Current(s, e) /\ ~Busy(s) /\ s.reading = 0 /\ ReadBegins(s, t, e)
  <1>1. e.id \in EffectIds
    BY DEF Effects
  <1> QED
    BY <1>1 DEF ReadCurrent, Append, ReadBegins, Panels, SameFacts, SameWork

LEMMA ReviewLatestFields ==
  ASSUME NEW s \in Panels, NEW e \in Effects, e.request \in Requests, NEW t, t = ReviewLatest(s, e)
  PROVE  \/ t = s
         \/ /\ CanEdit(s) /\ Current(s, e) /\ s.reading = 0
            /\ t \in Panels /\ SameFacts(s, t) /\ t.reading = s.reading
            /\ t.conflict = NoConflict /\ t.phase = "PREVIEWING" /\ t.effect = e.id
            /\ t.source = e.request /\ t.draft = e.request
            /\ t.effects = s.effects \cup {e}
  <1> DEFINE u == Enter(s, "PREVIEWING", e.request, e.id)
             v == [u EXCEPT !.draft = e.request, !.conflict = NoConflict]
  <1>1. e.request \in Sources /\ e.id \in EffectIds /\ e.request \in Drafts
    BY DEF Effects, Sources, Requests, Drafts
  <1>2. NoConflict \in Conflicts
    <2>1. 0 \in 0..MaxRevision
      BY OperationAssumption
    <2> QED
      BY <2>1 DEF NoConflict, Conflicts, Sources
  <1>3. /\ u \in Panels /\ SameFacts(s, u) /\ SameReads(s, u) /\ u.effects = s.effects
        /\ u.phase = "PREVIEWING" /\ u.source = e.request /\ u.effect = e.id
    BY <1>1 DEF Enter, Panels, Phases, SameFacts, SameReads
  <1>4. t = s \/ (CanEdit(s) /\ Current(s, e) /\ s.reading = 0 /\ t = Append(v, e))
    BY DEF ReviewLatest
  <1> HIDE DEF u
  <1>5. /\ v \in Panels /\ SameFacts(s, v) /\ v.reading = s.reading /\ v.effects = s.effects
        /\ v.phase = "PREVIEWING" /\ v.source = e.request /\ v.effect = e.id
        /\ v.draft = e.request /\ v.conflict = NoConflict
    BY <1>1, <1>2, <1>3 DEF Panels, SameFacts, SameReads
  <1> HIDE DEF v
  <1> QED
    BY <1>4, <1>5 DEF Append, Panels, SameFacts

LEMMA HandoffFields ==
  ASSUME NEW s \in Panels, NEW e \in Effects, NEW t, t = Handoff(s, e)
  PROVE  \/ t = s /\ ~(Completing(s, e) /\ s.phase = "PREPARING")
         \/ /\ Completing(s, e) /\ s.phase = "PREPARING"
            /\ t \in Panels /\ SameFacts(s, t) /\ SameReads(s, t) /\ t.effects = s.effects
            /\ t.phase = "SUBMITTING" /\ t.source = s.source /\ t.effect = s.effect
            /\ t.draft = s.draft
  <1>1. s.source \in Sources /\ s.effect \in EffectIds \cup {0}
    BY DEF Panels
  <1> QED
    BY <1>1 DEF Handoff, Enter, Panels, Phases, SameFacts, SameReads

(* Withdrawn disclosure: what is unknown or accepted stays so, the rest is edited anew. *)
Withdrawn(s, t) ==
  /\ t \in Panels /\ t.owner = s.owner /\ t.source = s.source /\ t.draft = s.draft
  /\ t.seen = s.seen /\ t.reading = 0 /\ t.effects = {}
  /\ t.effect = IF s.phase = "ACCEPTED" THEN s.effect ELSE 0
  /\ t.phase = IF s.phase \in {"SUBMITTING", "UNRESOLVED"} THEN "UNRESOLVED"
               ELSE IF s.phase = "ACCEPTED" THEN "ACCEPTED" ELSE "EDITING"

LEMMA InvalidateFields ==
  ASSUME NEW s \in Panels, NEW refusal \in BOOLEAN, NEW t, t = Invalidate(s, refusal)
  PROVE  /\ Withdrawn(s, t) /\ t.ctx = s.ctx /\ t.refused = (s.refused \/ refusal)
  <1> DEFINE u == IF s.phase \in {"SUBMITTING", "UNRESOLVED"}
                  THEN Enter(s, "UNRESOLVED", s.source, 0)
                  ELSE IF s.phase = "ACCEPTED" THEN [s EXCEPT !.receipt = FALSE]
                       ELSE Enter(s, "EDITING", Source(s), 0)
  <1>1. t = [u EXCEPT !.refused = @ \/ refusal, !.reading = 0, !.effects = {}]
    BY DEF Invalidate
  <1>2. /\ u \in Panels /\ SameFacts(s, u) /\ u.source = s.source /\ u.draft = s.draft
        /\ u.effect = IF s.phase = "ACCEPTED" THEN s.effect ELSE 0
        /\ u.phase = IF s.phase \in {"SUBMITTING", "UNRESOLVED"} THEN "UNRESOLVED"
                     ELSE IF s.phase = "ACCEPTED" THEN "ACCEPTED" ELSE "EDITING"
    BY DEF Enter, Source, Panels, Phases, SameFacts
  <1> HIDE DEF u
  <1> QED
    BY <1>1, <1>2 DEF Withdrawn, Panels, SameFacts

LEMMA ContextChangedFields ==
  ASSUME NEW s \in Panels, s.ctx + 1 \in 0..MaxContexts, NEW t, t = ContextChanged(s)
  PROVE  /\ Withdrawn(s, t) /\ t.ctx = s.ctx + 1
  <1> DEFINE u == Invalidate(s, FALSE)
  <1>1. Withdrawn(s, u) /\ u.ctx = s.ctx
    BY InvalidateFields
  <1>2. NoConflict \in Conflicts
    <2>1. 0 \in 0..MaxRevision
      BY OperationAssumption
    <2> QED
      BY <2>1 DEF NoConflict, Conflicts, Sources
  <1>3. t = [u EXCEPT !.conflict = NoConflict, !.ctx = s.ctx + 1]
    BY <1>1 DEF ContextChanged
  <1> HIDE DEF u
  <1> QED
    BY ZenonT(30), <1>1, <1>2, <1>3 DEF Withdrawn, Panels

LEMMA ReturnedFields ==
  ASSUME NEW s \in Panels, CanEdit(s), NEW t, t = Returned(s)
  PROVE  /\ t \in Panels /\ SameFacts(s, t) /\ SameReads(s, t) /\ t.effects = s.effects
         /\ t.phase = "EDITING" /\ t.source = s.source /\ t.effect = 0 /\ t.draft = s.draft
  BY DEF Returned, Enter, Source, Panels, Phases, SameFacts, SameReads

(* A draft begun anew has its own identity, nothing exposed and nothing under way. *)
Emptied(t, op) ==
  /\ t \in Panels /\ t.phase = "EDITING" /\ t.source = NoRequest /\ t.effect = 0
  /\ t.draft.op = op /\ t.reading = 0 /\ t.effects = {}

Renewed(requester, op, revision, owner, seen, ctx, refused) ==
  [Fresh(requester, op, revision) EXCEPT
     !.refused = refused, !.ctx = ctx, !.seen = seen, !.owner = owner]

LEMMA FreshFields ==
  ASSUME NEW requester \in Requesters, NEW op \in Operations, NEW revision \in 0..MaxRevision,
         NEW owner \in Actors, NEW seen \in 0..MaxContexts, NEW ctx \in 0..MaxContexts,
         NEW refused \in BOOLEAN
  PROVE  LET t == Renewed(requester, op, revision, owner, seen, ctx, refused)
         IN /\ Emptied(t, op) /\ t.owner = owner /\ t.ctx = ctx /\ t.seen = seen
            /\ t.refused = refused
  <1>1. /\ 0 \in 0..MaxRevision /\ 0 \in 0..MaxText /\ 0 \in 0..MaxContexts
        /\ (IF subject = "CASE" THEN revision ELSE 0) \in 0..MaxRevision
    BY OperationAssumption
  <1>2. NoConflict \in Conflicts
    BY <1>1 DEF NoConflict, Conflicts, Sources
  <1>3. [op |-> op, rev |-> IF subject = "CASE" THEN revision ELSE 0, text |-> 0] \in Drafts
    BY <1>1 DEF Drafts
  <1> DEFINE d == [op |-> op, rev |-> IF subject = "CASE" THEN revision ELSE 0, text |-> 0]
             o == IF subject = "CASE" THEN revision ELSE 0
             f == [owner |-> requester, target |-> requester, draft |-> d, observed |-> o,
                   phase |-> "EDITING", source |-> NoRequest, effect |-> 0, confirmed |-> FALSE,
                   receipt |-> FALSE, partial |-> FALSE, conflict |-> NoConflict, reading |-> 0,
                   ctx |-> 0, seen |-> 0, refused |-> FALSE, effects |-> {}]
             t == [f EXCEPT !.refused = refused, !.ctx = ctx, !.seen = seen, !.owner = owner]
  <1>4. Fresh(requester, op, revision) = f
    BY DEF Fresh
  <1>5. d \in Drafts /\ d.op = op /\ o \in 0..MaxRevision
    BY <1>1, <1>3
  <1> HIDE DEF d, o
  <1>6. "EDITING" \in Phases /\ NoRequest \in Sources
    BY DEF Phases, Sources
  <1>7. t \in Panels
    BY <1>1, <1>2, <1>5, <1>6 DEF Panels
  <1>8. /\ t.phase = "EDITING" /\ t.source = NoRequest /\ t.effect = 0
        /\ t.draft = d /\ t.reading = 0 /\ t.effects = {}
        /\ t.owner = owner /\ t.ctx = ctx /\ t.seen = seen /\ t.refused = refused
    OBVIOUS
  <1> HIDE DEF f, t
  <1> QED
    BY <1>4, <1>5, <1>7, <1>8 DEF Emptied, Renewed, t

LEMMA MountedFields ==
  ASSUME NEW requester \in Actors, NEW op \in Operations, NEW revision \in 0..MaxRevision
  PROVE  LET t == Fresh(requester, op, revision)
         IN /\ Emptied(t, op) /\ t.owner = requester /\ t.ctx = 0 /\ t.seen = 0
            /\ t.refused = FALSE
  <1>1. /\ 0 \in 0..MaxRevision /\ 0 \in 0..MaxText /\ 0 \in 0..MaxContexts
        /\ (IF subject = "CASE" THEN revision ELSE 0) \in 0..MaxRevision
        /\ requester \in Requesters
    BY OperationAssumption DEF Requesters
  <1>2. NoConflict \in Conflicts
    BY <1>1 DEF NoConflict, Conflicts, Sources
  <1> DEFINE d == [op |-> op, rev |-> IF subject = "CASE" THEN revision ELSE 0, text |-> 0]
             o == IF subject = "CASE" THEN revision ELSE 0
             f == [owner |-> requester, target |-> requester, draft |-> d, observed |-> o,
                   phase |-> "EDITING", source |-> NoRequest, effect |-> 0, confirmed |-> FALSE,
                   receipt |-> FALSE, partial |-> FALSE, conflict |-> NoConflict, reading |-> 0,
                   ctx |-> 0, seen |-> 0, refused |-> FALSE, effects |-> {}]
  <1>3. Fresh(requester, op, revision) = f
    BY DEF Fresh
  <1>4. d \in Drafts /\ d.op = op /\ o \in 0..MaxRevision
    BY <1>1 DEF Drafts
  <1> HIDE DEF d, o
  <1>5. "EDITING" \in Phases /\ NoRequest \in Sources
    BY DEF Phases, Sources
  <1>6. f \in Panels
    BY <1>1, <1>2, <1>4, <1>5 DEF Panels
  <1>7. /\ f.phase = "EDITING" /\ f.source = NoRequest /\ f.effect = 0
        /\ f.draft = d /\ f.reading = 0 /\ f.effects = {}
        /\ f.owner = requester /\ f.ctx = 0 /\ f.seen = 0 /\ f.refused = FALSE
    OBVIOUS
  <1> HIDE DEF f
  <1> QED
    BY <1>3, <1>4, <1>6, <1>7 DEF Emptied

(* What an ended effect leaves: it schedules at most a report or a read of its own. *)
Leaves(s, t, e) ==
  /\ t \in Panels /\ t.owner = s.owner /\ t.ctx = s.ctx /\ t.effect = 0
  /\ t.draft.text = s.draft.text
  /\ t.reading = s.reading \/ (t.reading = e.id /\ t.phase = "EDITING" /\ s.reading = 0)
  /\ \A f \in t.effects : \/ f \in s.effects
                          \/ f.id = e.id /\ f.ctx = e.ctx /\ f.kind \notin Carries

Sticky(s, answer) == s.phase = "UNRESOLVED" \/ answer = "UNCERTAIN"

(* How the reducer takes an answer. *)
Took(s, t, e, answer) ==
  /\ Completing(s, e)
  /\ Leaves(s, t, e)
  /\ CASE answer = "RECORD" ->
            /\ s.phase # "PREPARING" /\ t.phase = "ACCEPTED"
            /\ t.source = s.source /\ t.draft = s.draft /\ t.reading = s.reading
            /\ t.seen = t.ctx /\ ~t.refused
       [] answer = "REVIEWED" ->
            /\ s.phase = "PREVIEWING" /\ t.phase = "REVIEWING"
            /\ t.source = s.source /\ t.draft = s.draft /\ t.reading = s.reading
            /\ t.conflict = s.conflict /\ t.seen = t.ctx /\ ~t.refused
       [] answer = "NOT_ACCEPTED" ->
            /\ t.phase = "EDITING" /\ t.source = NoRequest /\ t.reading = s.reading
            /\ t.draft.op = FreshOperation /\ t.seen = s.seen /\ t.refused = s.refused
       [] answer = "STATUS_UNRESOLVED" ->
            /\ s.phase = "UNRESOLVED" /\ t.phase = "UNRESOLVED" /\ t.reading = s.reading
            /\ t.source = s.source /\ t.draft = s.draft /\ SameFacts(s, t)
       [] OTHER ->
            /\ t.phase = IF Sticky(s, answer) THEN "UNRESOLVED" ELSE "EDITING"
            /\ t.source = s.source /\ t.draft = s.draft /\ t.seen = s.seen
            /\ t.refused = (s.refused \/ answer = "DENIED")
            /\ answer # "CONFLICT" => t.reading = s.reading

LEMMA AppendFields ==
  ASSUME NEW s \in Panels, NEW e \in Effects, NEW kind \in EffectKinds \ Carries, NEW t,
         t = Append(s, [e EXCEPT !.kind = kind])
  PROVE  /\ t \in Panels /\ SameFacts(s, t) /\ SameReads(s, t) /\ SameWork(s, t)
         /\ \A f \in t.effects : \/ f \in s.effects
                                 \/ f.id = e.id /\ f.ctx = e.ctx /\ f.kind \notin Carries
  <1> DEFINE f == [e EXCEPT !.kind = kind]
  <1>1. f \in Effects /\ f.id = e.id /\ f.ctx = e.ctx /\ f.kind = kind
    BY DEF Effects
  <1>2. t = [s EXCEPT !.effects = @ \cup {f}]
    BY DEF Append
  <1> HIDE DEF f
  <1> QED
    BY <1>1, <1>2 DEF Panels, SameFacts, SameReads, SameWork

LEMMA RecordFields ==
  ASSUME NEW s \in Panels, NEW e \in Effects, NEW t, t = Record(s, e)
  PROVE  t = s \/ Took(s, t, e, "RECORD")
  <1> DEFINE u == [Enter(s, "ACCEPTED", s.source, 0) EXCEPT
                     !.receipt = TRUE, !.partial = FALSE, !.seen = s.ctx, !.refused = FALSE]
  <1>1. /\ u \in Panels /\ u.owner = s.owner /\ u.ctx = s.ctx /\ u.effect = 0
        /\ u.draft = s.draft /\ u.reading = s.reading /\ u.effects = s.effects
        /\ u.phase = "ACCEPTED" /\ u.source = s.source /\ u.seen = s.ctx /\ ~u.refused
    BY DEF Enter, Panels, Phases
  <1>2. \/ t = s
        \/ /\ Completing(s, e) /\ s.phase # "PREPARING"
           /\ t = Append(u, [e EXCEPT !.kind = "RECORDED"])
    BY DEF Record
  <1>3. "RECORDED" \in EffectKinds \ Carries
    BY DEF EffectKinds, Carries
  <1> HIDE DEF u
  <1> QED
    BY <1>1, <1>2, <1>3, AppendFields DEF Took, Leaves, SameFacts, SameReads, SameWork

LEMMA RecordTakes ==
  ASSUME NEW s \in Panels, NEW e \in Effects, Completing(s, e), s.phase # "PREPARING"
  PROVE  Record(s, e) # s
  <1> DEFINE u == [Enter(s, "ACCEPTED", s.source, 0) EXCEPT
                     !.receipt = TRUE, !.partial = FALSE, !.seen = s.ctx, !.refused = FALSE]
             f == [e EXCEPT !.kind = "RECORDED"]
  <1>1. u \in Panels /\ u.phase = "ACCEPTED"
    BY DEF Enter, Panels, Phases
  <1>2. Record(s, e) = Append(u, f)
    BY DEF Record
  <1> HIDE DEF u, f
  <1>3. Append(u, f).phase = "ACCEPTED"
    BY <1>1 DEF Append, Panels
  <1>4. s.phase # "ACCEPTED"
    BY DEF Completing, Busy
  <1> QED
    BY <1>2, <1>3, <1>4

LEMMA ReviewedFields ==
  ASSUME NEW s \in Panels, NEW e \in Effects, NEW t, t = Reviewed(s, e)
  PROVE  t = s \/ Took(s, t, e, "REVIEWED")
  BY DEF Reviewed, Enter, Panels, Phases, Took, Leaves

LEMMA NotAcceptedFields ==
  ASSUME NEW s \in Panels, NEW e \in Effects, FreshOperation \in Operations \cup {0},
         NEW t, t = NotAccepted(s, e, FreshOperation)
  PROVE  t = s \/ Took(s, t, e, "NOT_ACCEPTED")
  <1> DEFINE u == Enter(s, "EDITING", NoRequest, 0)
             d == [s.draft EXCEPT !.op = FreshOperation]
  <1>1. /\ u \in Panels /\ SameFacts(s, u) /\ SameReads(s, u) /\ u.effects = s.effects
        /\ u.phase = "EDITING" /\ u.source = NoRequest /\ u.effect = 0 /\ u.draft = s.draft
    BY EnterFields DEF Phases, Sources
  <1>2. d \in Drafts /\ d.op = FreshOperation /\ d.text = s.draft.text
    BY DEF Panels, Drafts
  <1>3. t = s \/ (Completing(s, e) /\ t = [u EXCEPT !.draft.op = FreshOperation])
    BY DEF NotAccepted
  <1> HIDE DEF u
  <1>4. [u EXCEPT !.draft.op = FreshOperation] = [u EXCEPT !.draft = d]
    BY <1>1
  <1> HIDE DEF d
  <1> QED
    BY <1>1, <1>2, <1>3, <1>4 DEF Panels, Took, Leaves, SameFacts, SameReads

LEMMA StillUnresolvedFields ==
  ASSUME NEW s \in Panels, NEW e \in Effects, NEW t, t = StillUnresolved(s, e)
  PROVE  t = s \/ Took(s, t, e, "STATUS_UNRESOLVED")
  BY DEF StillUnresolved, Panels, Took, Leaves, SameFacts

(* The answers that the reducer takes as a refusal. *)
Refusing == Answers \ {"RECORD", "REVIEWED", "NOT_ACCEPTED", "STATUS_UNRESOLVED"}

LEMMA RefuseFields ==
  ASSUME NEW s \in Panels, NEW e \in Effects, NEW answer \in Refusing, NEW t,
         t = Refuse(s, e, [uncertain  |-> answer = "UNCERTAIN",
                           disclosure |-> answer = "DENIED",
                           conflict   |-> answer = "CONFLICT"])
  PROVE  t = s \/ Took(s, t, e, answer)
  <1> DEFINE stale == answer = "CONFLICT" /\ ~Sticky(s, answer)
             phase == IF Sticky(s, answer) THEN "UNRESOLVED" ELSE "EDITING"
             c == IF stale THEN [id |-> e.id, source |-> s.source, latest |-> 0] ELSE s.conflict
             w == Enter(s, phase, s.source, 0)
             next == [w EXCEPT !.refused = @ \/ answer = "DENIED", !.conflict = c]
  <1>1. c \in Conflicts
    BY OperationAssumption DEF Conflicts, Panels, Effects
  <1>2. phase \in Phases /\ s.source \in Sources
    BY DEF Phases, Panels
  <1>3. t = IF ~Completing(s, e) THEN s
            ELSE IF stale THEN ReadConflict(next, [e EXCEPT !.kind = "READ_CONFLICT"])
            ELSE IF answer = "DENIED" THEN Append(next, [e EXCEPT !.kind = "DISCLOSURE_REFUSED"])
            ELSE next
    <2>1. w.conflict = s.conflict
      BY <1>2 DEF Enter, Panels
    <2> HIDE DEF w
    <2> QED
      BY <2>1 DEF Refuse, Sticky, w
  <1>4. /\ w \in Panels /\ w.owner = s.owner /\ w.ctx = s.ctx /\ w.effect = 0
        /\ w.draft = s.draft /\ w.reading = s.reading /\ w.effects = s.effects
        /\ w.phase = phase /\ w.source = s.source /\ w.seen = s.seen /\ w.refused = s.refused
    BY <1>2 DEF Enter, Panels
  <1> HIDE DEF w
  <1>5. phase = IF Sticky(s, answer) THEN "UNRESOLVED" ELSE "EDITING"
    OBVIOUS
  <1>6. stale => answer = "CONFLICT" /\ phase = "EDITING"
    OBVIOUS
  <1> HIDE DEF c, phase, stale
  <1>7. /\ next \in Panels /\ next.owner = s.owner /\ next.ctx = s.ctx /\ next.effect = 0
        /\ next.draft = s.draft /\ next.reading = s.reading /\ next.effects = s.effects
        /\ next.phase = phase /\ next.source = s.source /\ next.seen = s.seen
        /\ next.refused = (s.refused \/ answer = "DENIED")
    BY ZenonT(30), <1>1, <1>4 DEF Panels
  <1> HIDE DEF next
  <1>8. answer \notin {"RECORD", "REVIEWED", "NOT_ACCEPTED", "STATUS_UNRESOLVED"}
    BY DEF Refusing
  <1>9. ASSUME Completing(s, e), stale PROVE Took(s, t, e, answer)
    <2> DEFINE f == [e EXCEPT !.kind = "READ_CONFLICT"]
    <2>1. f \in Effects /\ f.id = e.id /\ f.ctx = e.ctx /\ f.kind = "READ_CONFLICT"
      BY DEF Effects, EffectKinds
    <2>2. t = ReadConflict(next, f)
      BY <1>3, <1>9
    <2> HIDE DEF f
    <2>3. t = next \/ (next.reading = 0 /\ ReadBegins(next, t, f))
      BY <1>7, <2>1, <2>2, OperationAssumption, ReadConflictFields
    <2> QED
      BY <1>5, <1>6, <1>7, <1>8, <1>9, <2>1, <2>3
      DEF Took, Leaves, ReadBegins, SameFacts, SameWork, Carries
  <1>10. ASSUME Completing(s, e), ~stale PROVE Took(s, t, e, answer)
    <2>1. t = next \/ t = Append(next, [e EXCEPT !.kind = "DISCLOSURE_REFUSED"])
      BY <1>3, <1>10
    <2>2. "DISCLOSURE_REFUSED" \in EffectKinds \ Carries
      BY DEF EffectKinds, Carries
    <2>3. t = next \/ /\ t \in Panels /\ SameFacts(next, t) /\ SameReads(next, t) /\ SameWork(next, t)
                      /\ \A f \in t.effects : \/ f \in next.effects
                                              \/ f.id = e.id /\ f.ctx = e.ctx /\ f.kind \notin Carries
      BY <1>7, <2>1, <2>2, AppendFields
    <2> QED
      BY <1>5, <1>7, <1>8, <1>10, <2>3 DEF Took, Leaves, SameFacts, SameReads, SameWork
  <1> QED
    BY <1>3, <1>9, <1>10

LEMMA CompletedFields ==
  ASSUME NEW s \in Panels, NEW e \in Effects, NEW answer \in Answers \cup {"REVIEWED"},
         nextOperation \in Nat, NEW t, t = Completed(s, e, answer)
  PROVE  t = s \/ Took(s, t, e, answer)
  <1>1. FreshOperation \in Operations \cup {0}
    BY DEF FreshOperation
  <1>2. CASE answer = "RECORD"
    BY <1>2, RecordFields DEF Completed
  <1>3. CASE answer = "REVIEWED"
    BY <1>3, ReviewedFields DEF Completed
  <1>4. CASE answer = "NOT_ACCEPTED"
    BY <1>1, <1>4, NotAcceptedFields DEF Completed
  <1>5. CASE answer = "STATUS_UNRESOLVED"
    BY <1>5, StillUnresolvedFields DEF Completed
  <1>6. CASE answer \in Refusing
    <2>1. t = Refuse(s, e, [uncertain  |-> answer = "UNCERTAIN",
                            disclosure |-> answer = "DENIED",
                            conflict   |-> answer = "CONFLICT"])
      BY <1>6 DEF Completed, Refusing
    <2> QED
      BY <1>6, <2>1, RefuseFields
  <1> QED
    BY <1>2, <1>3, <1>4, <1>5, <1>6 DEF Refusing

(* How the reducer takes the answer of a disclosure read. *)
Read(s, t, e, answer) ==
  /\ Current(s, e) /\ s.reading = e.id
  /\ t \in Panels /\ t.owner = s.owner /\ t.ctx = s.ctx /\ t.reading = 0
  /\ SameWork(s, t) /\ t.effects = s.effects
  /\ \/ answer = "OBSERVED" /\ t.seen = t.ctx /\ ~t.refused
     \/ t.seen = s.seen /\ t.refused = (s.refused \/ answer = "DENIED")

LEMMA ReadCompletedFields ==
  ASSUME NEW s \in Panels, NEW e \in Effects, NEW answer \in {"OBSERVED", "FAILED", "DENIED"},
         head \in 0..MaxRevision, NEW t, t = ReadCompleted(s, e, answer)
  PROVE  t = s \/ Read(s, t, e, answer)
  <1> DEFINE revision == IF answer = "OBSERVED" THEN head ELSE 0
  <1>1. revision \in 0..MaxRevision /\ (revision # 0 => answer = "OBSERVED")
    BY OperationAssumption
  <1>2. \/ t = ConflictObservation(s, e, revision, answer = "DENIED")
        \/ t = Disclosed(s, e, revision, answer = "DENIED")
    BY DEF ReadCompleted
  <1> HIDE DEF revision
  <1>3. ASSUME t = Disclosed(s, e, revision, answer = "DENIED") PROVE t = s \/ Read(s, t, e, answer)
    <2>1. \/ t = s
          \/ /\ s.reading = e.id /\ Current(s, e)
             /\ \/ t = [s EXCEPT !.reading = 0, !.refused = @ \/ answer = "DENIED"]
                \/ /\ revision # 0
                   /\ t = [s EXCEPT !.observed = revision, !.reading = 0,
                                    !.seen = s.ctx, !.refused = FALSE]
      BY <1>3 DEF Disclosed
    <2>2. CASE t = [s EXCEPT !.reading = 0, !.refused = @ \/ answer = "DENIED"]
      BY <2>1, <2>2 DEF Read, SameWork, Panels
    <2>3. CASE revision # 0 /\ t = [s EXCEPT !.observed = revision, !.reading = 0,
                                             !.seen = s.ctx, !.refused = FALSE]
      BY <1>1, <2>1, <2>3 DEF Read, SameWork, Panels
    <2> QED
      BY <2>1, <2>2, <2>3
  <1>4. ASSUME t = ConflictObservation(s, e, revision, answer = "DENIED")
        PROVE  t = s \/ Read(s, t, e, answer)
    <2> DEFINE c == [s.conflict EXCEPT !.latest = revision]
    <2>1. c \in Conflicts
      BY <1>1 DEF Panels, Conflicts
    <2>2. \/ t = s
          \/ /\ s.reading = e.id /\ Current(s, e)
             /\ \/ t = [s EXCEPT !.reading = 0, !.refused = @ \/ answer = "DENIED"]
                \/ /\ revision # 0
                   /\ t = [s EXCEPT !.conflict = c, !.observed = revision, !.reading = 0,
                                    !.seen = s.ctx, !.refused = FALSE]
      BY <1>4 DEF ConflictObservation
    <2> HIDE DEF c
    <2>3. CASE t = [s EXCEPT !.reading = 0, !.refused = @ \/ answer = "DENIED"]
      BY <2>2, <2>3 DEF Read, SameWork, Panels
    <2>4. CASE revision # 0 /\ t = [s EXCEPT !.conflict = c, !.observed = revision, !.reading = 0,
                                             !.seen = s.ctx, !.refused = FALSE]
      BY ZenonT(30), <1>1, <2>1, <2>2, <2>4 DEF Read, SameWork, Panels
    <2> QED
      BY <2>2, <2>3, <2>4
  <1> QED
    BY <1>2, <1>3, <1>4

----------------------------------------------------------------------------
(* What an event of the person is to the panel: a step of one of these forms. *)
histories == <<sent, reviewed, heard, told, abandoned, proof, barrier>>
outside == <<scenario, page, attempts, journal, wire, ledger, head>>

AtRest == ~Busy(panel) /\ panel.effect = 0

EditStep ==
  /\ AtRest /\ panel.phase = "EDITING" /\ panel.reading = 0
  /\ panel' \in Panels /\ SameFacts(panel, panel') /\ SameReads(panel, panel')
  /\ panel'.effects = panel.effects
  /\ \/ SameWork(panel, panel') /\ nextOperation' = nextOperation
     \/ /\ panel'.phase = "EDITING" /\ panel'.source = NoRequest /\ panel'.effect = 0
        /\ \/ /\ panel.source = NoRequest /\ panel'.draft.op = panel.draft.op
              /\ nextOperation' = nextOperation
           \/ /\ nextOperation \in Operations /\ panel'.draft.op = nextOperation
              /\ nextOperation' = nextOperation + 1
  /\ UNCHANGED <<outside, runs, nextEffect, histories>>

BeginStep(e, phase) ==
  /\ AtRest /\ page = panel.owner
  /\ e \in Effects /\ e.id = nextEffect /\ e.ctx = panel.ctx /\ e.request \in Requests
  /\ nextEffect \in EffectIds /\ nextEffect' = nextEffect + 1
  /\ \/ /\ e.kind = "PREVIEW" /\ phase = "PREVIEWING" /\ panel.phase = "EDITING"
        /\ panel.reading = 0 /\ panel.conflict = NoConflict
        /\ e.request = IF panel.source = NoRequest THEN panel.draft ELSE panel.source
     \/ /\ e.kind = "EXECUTE" /\ phase = "PREPARING" /\ panel.phase = "REVIEWING"
        /\ e.request = panel.source
     \/ /\ e.kind \in {"EXECUTE", "CHECK_STATUS"} /\ phase = "UNRESOLVED"
        /\ panel.phase = "UNRESOLVED" /\ e.request = panel.source
  /\ Begins(panel, panel', e, phase)
  /\ UNCHANGED <<outside, runs, nextOperation, histories>>

ReadStep(e) ==
  /\ AtRest /\ panel.phase = "EDITING" /\ panel.reading = 0
  /\ e \in Effects /\ e.id = nextEffect /\ e.ctx = panel.ctx
  /\ e.kind \in {"READ_CONFLICT", "READ_CURRENT"}
  /\ nextEffect \in EffectIds /\ nextEffect' = nextEffect + 1
  /\ ReadBegins(panel, panel', e)
  /\ UNCHANGED <<outside, runs, nextOperation, histories>>

(* An effect identity drawn by an event the reducer ignored. *)
IdleStep ==
  /\ panel' = panel /\ nextOperation' \in {nextOperation, nextOperation + 1}
  /\ nextOperation' \in 1..(MaxOperations + 1)
  /\ nextEffect' \in {nextEffect, nextEffect + 1} /\ nextEffect' \in 1..(MaxEffects + 1)
  /\ UNCHANGED <<outside, runs, histories>>

RebaseStep(e) ==
  /\ AtRest /\ panel.phase = "EDITING" /\ panel.reading = 0
  /\ e \in Effects /\ e.id = nextEffect /\ e.ctx = panel.ctx /\ e.kind = "PREVIEW"
  /\ e.request \in Requests /\ e.request.op = nextOperation
  /\ e.request.text = panel.draft.text
  /\ nextEffect \in EffectIds /\ nextEffect' = nextEffect + 1
  /\ nextOperation \in Operations /\ nextOperation' = nextOperation + 1
  /\ panel' \in Panels /\ SameFacts(panel, panel') /\ panel'.reading = panel.reading
  /\ panel'.conflict = NoConflict /\ panel'.phase = "PREVIEWING" /\ panel'.effect = e.id
  /\ panel'.source = e.request /\ panel'.draft = e.request
  /\ panel'.effects = panel.effects \cup {e}
  /\ UNCHANGED <<outside, runs, histories>>

ReturnStep ==
  /\ AtRest /\ panel.phase = "REVIEWING"
  /\ panel' \in Panels /\ SameFacts(panel, panel') /\ SameReads(panel, panel')
  /\ panel'.effects = panel.effects
  /\ panel'.phase = "EDITING" /\ panel'.source = panel.source /\ panel'.effect = 0
  /\ panel'.draft = panel.draft
  /\ UNCHANGED <<outside, runs, nextOperation, nextEffect, histories>>

DiscardStep ==
  /\ AtRest
  /\ nextOperation \in Operations /\ nextOperation' = nextOperation + 1
  /\ Emptied(panel', nextOperation) /\ SameFacts(panel, panel')
  /\ abandoned' = IF panel.phase = "UNRESOLVED" THEN abandoned \cup {panel.source.op}
                  ELSE abandoned
  /\ UNCHANGED <<outside, runs, nextEffect, sent, reviewed, heard, told, proof, barrier>>

LEMMA RestIsQuiet ==
  ASSUME Typed, PanelShape, ~Busy(panel)
  PROVE  AtRest
  BY DEF PanelShape, AtRest

LEMMA EditsAreSteps ==
  ASSUME Typed, PanelShape, EditDraft \/ EnterPartialDate
  PROVE  EditStep
  <1>1. /\ AtRest /\ panel.phase = "EDITING" /\ panel.reading = 0 /\ panel \in Panels
        /\ UNCHANGED <<outside, runs, nextEffect, histories>>
    BY RestIsQuiet
    DEF EditDraft, EnterPartialDate, FormShown, Blocked, Typed, outside, histories, ghosts, service
  <1>2. nextOperation \in Nat /\ (panel.source = NoRequest \/ panel.source \in Requests)
    BY DEF Typed, Panels, Sources
  <1>3. CASE EditDraft
    <2>1. PICK text \in 0..MaxText :
            IF Source(panel) = NoRequest \/ text = panel.draft.text
            THEN panel' = Edit(panel, text, 0) /\ UNCHANGED nextOperation
            ELSE DrawOperation /\ panel' = Edit(panel, text, nextOperation)
      BY <1>3 DEF EditDraft
    <2>2. CASE text = panel.draft.text /\ panel.source # NoRequest
      <3>1. panel' = [panel EXCEPT !.partial = FALSE] /\ nextOperation' = nextOperation
        BY <2>1, <2>2 DEF Edit
      <3> QED
        BY <1>1, <3>1 DEF EditStep, Panels, SameFacts, SameReads, SameWork
    <2>3. CASE panel.source = NoRequest
      <3>1. Edited(panel, panel', 0) /\ nextOperation' = nextOperation
        BY <1>1, <2>1, <2>3, EditFields DEF Source
      <3> QED
        BY <1>1, <2>3, <3>1 DEF EditStep, Edited
    <2>4. CASE text # panel.draft.text /\ panel.source # NoRequest
      <3>1. /\ nextOperation \in Operations /\ nextOperation' = nextOperation + 1
            /\ panel' = Edit(panel, text, nextOperation)
        BY <2>1, <2>4 DEF Source, DrawOperation
      <3>2. Edited(panel, panel', nextOperation)
        BY <1>1, <3>1, EditFields
      <3>3. panel'.source = NoRequest
        BY <1>1, <2>4, <3>1 DEF Edit, Enter, Panels
      <3> QED
        BY <1>1, <2>4, <3>1, <3>2, <3>3 DEF EditStep, Edited, SameWork
    <2> QED
      BY <2>2, <2>3, <2>4
  <1>4. CASE EnterPartialDate
    <2>1. IF Source(panel) = NoRequest \/ panel.draft.text = 0
          THEN panel' = DateEntry(panel, 0) /\ UNCHANGED nextOperation
          ELSE DrawOperation /\ panel' = DateEntry(panel, nextOperation)
      BY <1>4 DEF EnterPartialDate
    <2>2. CASE panel.draft.text = 0 /\ panel.source # NoRequest
      <3>1. panel' = [panel EXCEPT !.partial = TRUE] /\ nextOperation' = nextOperation
        BY <2>1, <2>2 DEF DateEntry
      <3> QED
        BY <1>1, <3>1 DEF EditStep, Panels, SameFacts, SameReads, SameWork
    <2>3. CASE panel.source = NoRequest
      <3>1. Edited(panel, panel', 0) /\ nextOperation' = nextOperation
        BY <1>1, <2>1, <2>3, OperationAssumption, DateEntryFields DEF Source
      <3> QED
        BY <1>1, <2>3, <3>1 DEF EditStep, Edited
    <2>4. CASE panel.draft.text # 0 /\ panel.source # NoRequest
      <3>1. /\ nextOperation \in Operations /\ nextOperation' = nextOperation + 1
            /\ panel' = DateEntry(panel, nextOperation)
        BY <2>1, <2>4 DEF Source, DrawOperation
      <3>2. Edited(panel, panel', nextOperation)
        BY <1>1, <3>1, OperationAssumption, DateEntryFields
      <3>3. panel'.source = NoRequest
        BY <1>1, <2>4, <3>1 DEF DateEntry, Edit, Enter, Panels
      <3> QED
        BY <1>1, <2>4, <3>1, <3>2, <3>3 DEF EditStep, Edited, SameWork
    <2> QED
      BY <2>2, <2>3, <2>4
  <1> QED
    BY <1>3, <1>4

(* A drawn effect identity is new and is the event's own. *)
LEMMA DrawnEffect ==
  ASSUME Typed, DrawEffect, NEW kind \in EffectKinds, NEW request \in Sources, NEW e,
         e = NewEffect(kind, request)
  PROVE  /\ e \in Effects /\ e.id = nextEffect /\ e.ctx = panel.ctx /\ e.kind = kind
         /\ e.request = request /\ nextEffect \in EffectIds /\ nextEffect' = nextEffect + 1
  <1>1. nextEffect \in EffectIds /\ nextEffect' = nextEffect + 1
    <2>1. scenario.effects \in 1..MaxEffects /\ nextEffect \in 1..(MaxEffects + 1)
      BY ScenarioAssumption DEF Typed
    <2> QED
      BY <2>1, OperationAssumption DEF DrawEffect, EffectIds
  <1> QED
    BY <1>1 DEF NewEffect, Effects, Typed, Panels, Sources

LEMMA PreviewsAreSteps ==
  ASSUME Typed, PanelShape, PreviewDraft
  PROVE  (\E e \in Effects : BeginStep(e, "PREVIEWING")) \/ IdleStep
  <1> DEFINE request == IF panel.source = NoRequest THEN panel.draft ELSE panel.source
             e == NewEffect("PREVIEW", request)
  <1>1. /\ AtRest /\ panel.phase = "EDITING" /\ panel.reading = 0 /\ panel \in Panels
        /\ panel.conflict = NoConflict /\ page = panel.owner /\ panel.draft.op # 0 /\ DrawEffect
        /\ panel' = Preview(panel, e)
        /\ UNCHANGED <<outside, runs, nextOperation, histories>>
    BY RestIsQuiet
    DEF PreviewDraft, OwnerVerified, Blocked, Typed, Source, outside, histories, ghosts, service
  <1>2. request \in Requests
    BY <1>1 DEF Panels, Drafts, Sources, Requests, Operations
  <1>3. "PREVIEW" \in EffectKinds
    BY DEF EffectKinds
  <1>4. /\ e \in Effects /\ e.id = nextEffect /\ e.ctx = panel.ctx /\ e.kind = "PREVIEW"
        /\ e.request = request /\ nextEffect \in EffectIds /\ nextEffect' = nextEffect + 1
    BY <1>1, <1>2, <1>3, DrawnEffect DEF Sources
  <1>5. request = IF panel.source = NoRequest THEN panel.draft ELSE panel.source
    OBVIOUS
  <1> HIDE DEF e, request
  <1>6. panel' = panel \/ Begins(panel, panel', e, "PREVIEWING")
    BY <1>1, <1>4, PreviewFields
  <1>7. CASE panel' = panel
    BY <1>1, <1>4, <1>7, OperationAssumption DEF IdleStep, Typed, EffectIds
  <1>8. CASE Begins(panel, panel', e, "PREVIEWING")
    BY <1>1, <1>2, <1>4, <1>5, <1>8 DEF BeginStep
  <1> QED
    BY <1>6, <1>7, <1>8

LEMMA SubmissionsAreSteps ==
  ASSUME Typed, PanelShape, SubmitReviewed
  PROVE  \E e \in Effects : BeginStep(e, "PREPARING")
  <1> DEFINE e == NewEffect("EXECUTE", panel.source)
             s == Confirmed(panel, TRUE)
  <1>1. /\ AtRest /\ panel.phase = "REVIEWING" /\ panel \in Panels
        /\ page = panel.owner /\ DrawEffect
        /\ panel' = Execute(s, e)
        /\ UNCHANGED <<outside, runs, nextOperation, histories>>
    BY RestIsQuiet
    DEF SubmitReviewed, ReviewShown, Shown, OwnerVerified, Blocked, Typed, outside, histories,
        ghosts, service
  <1>2. panel.source \in Requests
    BY <1>1 DEF PanelShape
  <1>3. /\ e \in Effects /\ e.id = nextEffect /\ e.ctx = panel.ctx /\ e.kind = "EXECUTE"
        /\ e.request = panel.source /\ nextEffect \in EffectIds /\ nextEffect' = nextEffect + 1
    BY <1>1, <1>2, DrawnEffect DEF Sources, EffectKinds
  <1>4. /\ s \in Panels /\ SameFacts(panel, s) /\ SameReads(panel, s) /\ SameWork(panel, s)
        /\ s.effects = panel.effects
    BY <1>1, ConfirmedFields
  <1>5. s.confirmed /\ s.phase = "REVIEWING" /\ ~s.refused /\ s.seen = s.ctx
    BY <1>1 DEF Confirmed, SubmitReviewed, ReviewShown, Shown, Panels
  <1> HIDE DEF e, s
  <1>6. panel'.effect = e.id
    <2>1. Current(s, e) /\ ~Busy(s)
      BY <1>3, <1>4, <1>5 DEF Current, Busy, SameFacts
    <2>2. panel' = Append(Enter(s, "PREPARING", s.source, e.id), e)
      BY <1>1, <1>5, <2>1 DEF Execute
    <2> QED
      BY <1>4, <2>2 DEF Append, Enter, Panels
  <1>7. s.effect # e.id
    BY <1>1, <1>3, <1>4 DEF SameWork, AtRest, EffectIds
  <1>8. panel' = s \/ Begins(s, panel', e, "PREPARING")
    BY <1>1, <1>3, <1>4, <1>5, ExecuteFields DEF SameWork
  <1>9. Begins(panel, panel', e, "PREPARING")
    BY <1>4, <1>6, <1>7, <1>8 DEF Begins, SameFacts, SameReads, SameWork
  <1> QED
    BY <1>1, <1>2, <1>3, <1>9 DEF BeginStep

LEMMA RepetitionsAreSteps ==
  ASSUME Typed, PanelShape, SendAgain \/ CheckStatus
  PROVE  (\E e \in Effects : BeginStep(e, "UNRESOLVED")) \/ IdleStep
  <1>1. /\ AtRest /\ panel.phase = "UNRESOLVED" /\ panel \in Panels
        /\ page = panel.owner /\ DrawEffect
        /\ UNCHANGED <<outside, runs, nextOperation, histories>>
    BY RestIsQuiet
    DEF SendAgain, CheckStatus, UnknownShown, OwnerVerified, Typed, outside, histories, ghosts, service
  <1>2. panel.source \in Requests /\ panel.phase # "REVIEWING"
    BY <1>1 DEF PanelShape
  <1>3. ASSUME NEW kind \in {"EXECUTE", "CHECK_STATUS"}, NEW e, e = NewEffect(kind, panel.source),
               panel' = panel \/ Begins(panel, panel', e, "UNRESOLVED")
        PROVE  (\E f \in Effects : BeginStep(f, "UNRESOLVED")) \/ IdleStep
    <2>1. kind \in EffectKinds
      BY DEF EffectKinds
    <2>2. /\ e \in Effects /\ e.id = nextEffect /\ e.ctx = panel.ctx /\ e.kind = kind
          /\ e.request = panel.source /\ nextEffect \in EffectIds /\ nextEffect' = nextEffect + 1
      BY <1>1, <1>2, <1>3, <2>1, DrawnEffect DEF Sources
    <2>3. CASE panel' = panel
      BY <1>1, <2>2, <2>3, OperationAssumption DEF IdleStep, Typed, EffectIds
    <2>4. CASE Begins(panel, panel', e, "UNRESOLVED")
      BY <1>1, <1>2, <2>2, <2>4 DEF BeginStep
    <2> QED
      BY <1>3, <2>3, <2>4
  <1>4. ASSUME NEW kind \in {"EXECUTE", "CHECK_STATUS"}
        PROVE  /\ NewEffect(kind, panel.source) \in Effects
               /\ NewEffect(kind, panel.source).request = panel.source
    <2>1. kind \in EffectKinds
      BY DEF EffectKinds
    <2> QED
      BY <1>1, <1>2, <2>1, DrawnEffect DEF Sources
  <1>5. CASE SendAgain
    <2> DEFINE e == NewEffect("EXECUTE", panel.source)
    <2>1. e \in Effects /\ e.request = panel.source
      BY <1>4
    <2>2. panel' = Execute(panel, e) /\ e = NewEffect("EXECUTE", panel.source)
      BY <1>5 DEF SendAgain
    <2> HIDE DEF e
    <2>3. panel' = panel \/ Begins(panel, panel', e, "UNRESOLVED")
      BY <1>1, <1>2, <2>1, <2>2, ExecuteFields
    <2> QED
      BY <1>3, <2>2, <2>3
  <1>6. CASE CheckStatus
    <2> DEFINE e == NewEffect("CHECK_STATUS", panel.source)
    <2>1. e \in Effects /\ e.request = panel.source
      BY <1>4
    <2>2. panel' = CheckingStatus(panel, e) /\ e = NewEffect("CHECK_STATUS", panel.source)
      BY <1>6 DEF CheckStatus
    <2> HIDE DEF e
    <2>3. panel' = panel \/ Begins(panel, panel', e, "UNRESOLVED")
      BY <1>1, <2>1, <2>2, CheckingStatusFields
    <2> QED
      BY <1>3, <2>2, <2>3
  <1> QED
    BY <1>5, <1>6

LEMMA ReloadsAreSteps ==
  ASSUME Typed, PanelShape, RevalidateDisclosure
  PROVE  (\E e \in Effects : ReadStep(e)) \/ IdleStep
  <1>1. /\ AtRest /\ panel.reading = 0 /\ panel \in Panels
        /\ page = panel.owner /\ DrawEffect
        /\ panel.conflict # NoConflict \/ ~Shown(panel)
        /\ UNCHANGED <<outside, runs, nextOperation, histories>>
    BY RestIsQuiet
    DEF RevalidateDisclosure, OwnerVerified, Blocked, Typed, outside, histories, ghosts, service
  <1>2. panel.phase = "EDITING"
    <2>1. panel.target = page
      BY DEF RevalidateDisclosure, Blocked, ChangedTarget
    <2>2. panel.phase \in {"EDITING", "REVIEWING"}
      BY <1>1 DEF RevalidateDisclosure, Blocked, Busy, Panels, Phases
    <2>3. panel.phase = "REVIEWING" => panel.conflict = NoConflict /\ Shown(panel)
      BY <1>1, <2>1 DEF PanelShape, Shown, OwnerVerified
    <2> QED
      BY <1>1, <2>2, <2>3
  <1>3. ASSUME NEW kind \in {"READ_CONFLICT", "READ_CURRENT"}, NEW request \in Sources, NEW e,
               e = NewEffect(kind, request), panel' = panel \/ ReadBegins(panel, panel', e)
        PROVE  (\E f \in Effects : ReadStep(f)) \/ IdleStep
    <2>1. kind \in EffectKinds
      BY DEF EffectKinds
    <2>2. /\ e \in Effects /\ e.id = nextEffect /\ e.ctx = panel.ctx /\ e.kind = kind
          /\ nextEffect \in EffectIds /\ nextEffect' = nextEffect + 1
      BY <1>1, <1>3, <2>1, DrawnEffect
    <2>3. CASE panel' = panel
      BY <1>1, <2>2, <2>3, OperationAssumption DEF IdleStep, Typed, EffectIds
    <2>4. CASE ReadBegins(panel, panel', e)
      BY <1>1, <1>2, <2>2, <2>4 DEF ReadStep
    <2> QED
      BY <1>3, <2>3, <2>4
  <1>4. CASE panel.conflict # NoConflict
    <2> DEFINE e == NewEffect("READ_CONFLICT", panel.conflict.source)
    <2>1. panel.conflict.source \in Sources
      BY <1>1 DEF Panels, Conflicts
    <2>2. e \in Effects
      BY <1>1, <2>1, DrawnEffect DEF EffectKinds
    <2>3. panel' = ReadConflict(panel, e) /\ e = NewEffect("READ_CONFLICT", panel.conflict.source)
      BY <1>4 DEF RevalidateDisclosure
    <2> HIDE DEF e
    <2>4. panel' = panel \/ ReadBegins(panel, panel', e)
      BY <1>1, <2>2, <2>3, OperationAssumption, ReadConflictFields
    <2> QED
      BY <1>3, <2>1, <2>3, <2>4
  <1>5. CASE panel.conflict = NoConflict
    <2> DEFINE e == NewEffect("READ_CURRENT", NoRequest)
    <2>1. e \in Effects
      BY <1>1, DrawnEffect DEF EffectKinds, Sources
    <2>2. panel' = ReadCurrent(panel, e) /\ e = NewEffect("READ_CURRENT", NoRequest)
      BY <1>5 DEF RevalidateDisclosure
    <2> HIDE DEF e
    <2>3. panel' = panel \/ ReadBegins(panel, panel', e)
      BY <1>1, <2>1, <2>2, ReadCurrentFields
    <2> QED
      BY <1>3, <2>2, <2>3 DEF Sources
  <1> QED
    BY <1>4, <1>5

LEMMA RebasesAreSteps ==
  ASSUME Typed, PanelShape, ReviewLatestDraft
  PROVE  (\E e \in Effects : RebaseStep(e)) \/ IdleStep
  <1> DEFINE request == LatestOperationValues(panel, nextOperation)
             e == NewEffect("PREVIEW", request)
  <1>1. /\ AtRest /\ panel.phase = "EDITING" /\ panel.reading = 0 /\ panel \in Panels
        /\ DrawEffect /\ nextOperation \in Operations /\ nextOperation' = nextOperation + 1
        /\ panel' = ReviewLatest(panel, e)
        /\ UNCHANGED <<outside, runs, histories>>
    BY RestIsQuiet
    DEF ReviewLatestDraft, FormShown, Blocked, DrawOperation, Typed, outside, histories,
        ghosts, service
  <1>2. /\ request \in Requests /\ request.op = nextOperation
        /\ request.text = panel.draft.text
    BY <1>1 DEF LatestOperationValues, Panels, Drafts, Conflicts, Requests, Operations
  <1>3. /\ e \in Effects /\ e.id = nextEffect /\ e.ctx = panel.ctx /\ e.kind = "PREVIEW"
        /\ e.request = request /\ nextEffect \in EffectIds /\ nextEffect' = nextEffect + 1
    BY <1>1, <1>2, DrawnEffect DEF Sources, EffectKinds
  <1> HIDE DEF e, request
  <1>4. \/ panel' = panel
        \/ /\ panel' \in Panels /\ SameFacts(panel, panel') /\ panel'.reading = panel.reading
           /\ panel'.conflict = NoConflict /\ panel'.phase = "PREVIEWING" /\ panel'.effect = e.id
           /\ panel'.source = e.request /\ panel'.draft = e.request
           /\ panel'.effects = panel.effects \cup {e}
    BY <1>1, <1>2, <1>3, ReviewLatestFields
  <1>5. CASE panel' = panel
    BY <1>1, <1>3, <1>5, OperationAssumption DEF IdleStep, Typed, EffectIds, Operations
  <1>6. CASE panel' # panel
    BY <1>1, <1>2, <1>3, <1>4, <1>6 DEF RebaseStep
  <1> QED
    BY <1>5, <1>6

LEMMA ReturnsAreSteps ==
  ASSUME Typed, PanelShape, ReturnToEdit
  PROVE  ReturnStep
  <1>1. /\ AtRest /\ panel.phase = "REVIEWING" /\ panel \in Panels
        /\ panel' = Returned(panel) /\ CanEdit(panel)
        /\ UNCHANGED <<outside, runs, nextOperation, nextEffect, histories>>
    BY RestIsQuiet
    DEF ReturnToEdit, ReviewShown, Blocked, CanEdit, Typed, outside, histories, ghosts, service
  <1> QED
    BY <1>1, ReturnedFields DEF ReturnStep

LEMMA DiscardsAreSteps ==
  ASSUME Typed, PanelShape, Discard
  PROVE  DiscardStep
  <1> DEFINE observation == panel.observed # 0 /\ panel.seen = panel.ctx /\ ~ChangedTarget
             revision == IF observation THEN panel.observed ELSE head
  <1>1. /\ AtRest /\ panel \in Panels /\ page \in Requesters /\ head \in 0..MaxRevision
        /\ nextOperation \in Operations /\ nextOperation' = nextOperation + 1
        /\ abandoned' = IF panel.phase = "UNRESOLVED" THEN abandoned \cup {panel.source.op}
                        ELSE abandoned
        /\ UNCHANGED <<outside, runs, nextEffect, sent, reviewed, heard, told, proof, barrier>>
    BY RestIsQuiet DEF Discard, DrawOperation, Typed, outside, service
  <1>2. panel' = [Fresh(page, nextOperation, revision) EXCEPT
                    !.refused = panel.refused, !.ctx = panel.ctx, !.seen = panel.seen,
                    !.owner = panel.owner]
    BY DEF Discard, Reset
  <1>3. revision \in 0..MaxRevision
    BY <1>1 DEF Panels
  <1> HIDE DEF revision
  <1> DEFINE owner == panel.owner
             seen == panel.seen
             ctx == panel.ctx
             refused == panel.refused
             t == Renewed(page, nextOperation, revision, owner, seen, ctx, refused)
  <1>4. /\ owner \in Actors /\ seen \in 0..MaxContexts /\ ctx \in 0..MaxContexts
        /\ refused \in BOOLEAN
    BY <1>1 DEF Panels
  <1>5. panel' = t
    BY <1>2 DEF Renewed
  <1>6. SameFacts(panel, panel') <=> /\ panel'.owner = owner /\ panel'.ctx = ctx
                                     /\ panel'.seen = seen /\ panel'.refused = refused
    BY DEF SameFacts
  <1> HIDE DEF owner, seen, ctx, refused
  <1>7. /\ Emptied(t, nextOperation) /\ t.owner = owner /\ t.ctx = ctx /\ t.seen = seen
        /\ t.refused = refused
    BY <1>1, <1>3, <1>4, FreshFields
  <1> HIDE DEF t
  <1> QED
    BY <1>1, <1>5, <1>6, <1>7 DEF DiscardStep

----------------------------------------------------------------------------
(* What an event around the panel is to it. *)
ContextStep ==
  /\ Withdrawn(panel, panel') /\ panel'.ctx = panel.ctx + 1
  /\ page' \in Requesters /\ runs' = AbortReads /\ barrier' = nextEffect
  /\ UNCHANGED <<scenario, attempts, journal, wire, ledger, head, nextOperation, nextEffect,
                 sent, reviewed, heard, told, abandoned, proof>>

WithdrawStep ==
  /\ panel.phase \in scenario.withdraw
  /\ Withdrawn(panel, panel') /\ panel'.ctx = panel.ctx /\ panel'.refused
  /\ barrier' = nextEffect
  /\ UNCHANGED <<outside, runs, nextOperation, nextEffect, sent, reviewed, heard, told,
                 abandoned, proof>>

AccessStep ==
  /\ page = panel.owner
  /\ panel' \in Panels /\ SameWork(panel, panel') /\ SameReads(panel, panel')
  /\ panel'.effects = panel.effects /\ panel'.owner = panel.owner /\ panel'.ctx = panel.ctx
  /\ panel'.seen \in {panel.seen, panel.ctx} /\ ~panel'.refused
  /\ proof' = nextEffect
  /\ UNCHANGED <<outside, runs, nextOperation, nextEffect, sent, reviewed, heard, told,
                 abandoned, barrier>>

MountStep ==
  /\ nextOperation \in Operations /\ nextOperation' = nextOperation + 1
  /\ Emptied(panel', nextOperation) /\ panel'.ctx = 0 /\ panel'.seen = 0
  /\ runs' = [i \in EffectIds |-> Idle]
  /\ attempts' = {} /\ heard' = {} /\ abandoned' = {}
  /\ proof' = nextEffect /\ barrier' = nextEffect
  /\ UNCHANGED <<scenario, page, journal, wire, ledger, head, nextEffect, sent, reviewed, told>>

LEMMA ChangesAreSteps ==
  ASSUME Typed, ChangeContext
  PROVE  ContextStep
  <1>1. /\ panel \in Panels /\ panel.ctx + 1 \in 0..MaxContexts
    <2>1. scenario.contexts \in 0..MaxContexts
      BY ScenarioAssumption DEF Typed
    <2> QED
      BY <2>1, OperationAssumption DEF ChangeContext, Typed, Panels
  <1> QED
    BY <1>1, ContextChangedFields DEF ChangeContext, ContextStep, service

LEMMA WithdrawalsAreSteps ==
  ASSUME Typed, WithdrawDisclosure
  PROVE  WithdrawStep
  BY InvalidateFields DEF Typed, WithdrawDisclosure, WithdrawStep, outside, service

LEMMA ObservationsAreSteps ==
  ASSUME Typed, ObserveAccess
  PROVE  AccessStep
  <1>1. panel \in Panels
    BY DEF Typed
  <1>2. \/ panel' = [panel EXCEPT !.refused = FALSE]
        \/ panel' = [panel EXCEPT !.seen = panel.ctx, !.refused = FALSE]
    BY DEF ObserveAccess, RestoreCreationDraft
  <1>3. /\ panel' \in Panels /\ SameWork(panel, panel') /\ SameReads(panel, panel')
        /\ panel'.effects = panel.effects /\ panel'.owner = panel.owner
        /\ panel'.ctx = panel.ctx /\ panel'.seen \in {panel.seen, panel.ctx} /\ ~panel'.refused
    BY <1>1, <1>2 DEF Panels, SameWork, SameReads
  <1> QED
    BY <1>3 DEF ObserveAccess, AccessStep, outside, service

LEMMA RemountsAreSteps ==
  ASSUME Typed, Remount
  PROVE  MountStep
  BY MountedFields DEF Typed, Remount, DrawOperation, MountStep, service

----------------------------------------------------------------------------
(* What a step of an effect is to the panel and to its run. *)
Placed(i, run) ==
  /\ runs' \in [EffectIds -> Runs] /\ runs'[i] = run
  /\ \A j \in EffectIds : j # i => runs'[j] = runs[j]

Marked(i, stage, answer) ==
  /\ runs' \in [EffectIds -> Runs]
  /\ runs'[i].stage = stage /\ runs'[i].answer = answer
  /\ runs'[i].effect = runs[i].effect /\ runs'[i].record = runs[i].record
  /\ \A j \in EffectIds : j # i => runs'[j] = runs[j]

LEMMA IdleIsRun == Idle \in Runs
  BY DEF Idle, Runs, Stages, Answers

LEMMA Places ==
  ASSUME Typed, NEW i \in EffectIds, NEW run \in Runs, runs' = [runs EXCEPT ![i] = run]
  PROVE  Placed(i, run)
  BY DEF Typed, Placed

LEMMA StageMarks ==
  ASSUME Typed, NEW i \in EffectIds, NEW stage \in Stages, runs' = [runs EXCEPT ![i].stage = stage]
  PROVE  Marked(i, stage, runs[i].answer)
  <1> DEFINE run == [runs[i] EXCEPT !.stage = stage]
  <1>1. /\ run \in Runs /\ run.stage = stage /\ run.answer = runs[i].answer
        /\ run.effect = runs[i].effect /\ run.record = runs[i].record
    BY DEF Typed, Runs
  <1>2. runs' = [runs EXCEPT ![i] = run]
    BY DEF Typed
  <1> HIDE DEF run
  <1> QED
    BY <1>1, <1>2, Places DEF Placed, Marked

LEMMA AnswerMarks ==
  ASSUME Typed, NEW i \in EffectIds, NEW answer \in Answers,
         runs' = [runs EXCEPT ![i].stage = "ANSWERED", ![i].answer = answer]
  PROVE  Marked(i, "ANSWERED", answer)
  <1> DEFINE run == [runs[i] EXCEPT !.stage = "ANSWERED", !.answer = answer]
  <1>1. /\ run \in Runs /\ run.stage = "ANSWERED" /\ run.answer = answer
        /\ run.effect = runs[i].effect /\ run.record = runs[i].record
    BY DEF Typed, Runs, Stages
  <1>2. runs' = [runs EXCEPT ![i] = run]
    BY DEF Typed
  <1> HIDE DEF run
  <1> QED
    BY <1>1, <1>2, Places DEF Placed, Marked

StartStep(e, run) ==
  /\ e \in panel.effects
  /\ panel' \in Panels /\ SameFacts(panel, panel') /\ SameReads(panel, panel')
  /\ SameWork(panel, panel')
  /\ panel'.effects = {f \in panel.effects : f.id # e.id}
  /\ Placed(e.id, run)
  /\ \/ e.kind \notin Carries /\ run = runs[e.id] /\ attempts' = attempts
     \/ /\ e.kind = "EXECUTE" /\ run.effect = e /\ run.answer = "UNSENT"
        /\ run.record \in Records /\ run.record.op = e.request.op
        /\ run.stage = IF run.record.actor = page THEN "PUTTING" ELSE "ANSWERED"
        /\ run.record \in attempts \/ (run.record.actor = page /\ Owned(e.request.op) = {})
        /\ attempts' = attempts \cup {run.record}
     \/ /\ e.kind = "CHECK_STATUS" /\ run.effect = e /\ attempts' = attempts
        /\ \/ run.stage = "ANSWERED" /\ run.answer = "UNAVAILABLE" /\ run.record = NoRecord
           \/ /\ run.stage = "READING" /\ run.answer = "NONE"
              /\ run.record \in attempts /\ run.record.op = e.request.op
     \/ /\ e.kind \notin {"EXECUTE", "CHECK_STATUS"} /\ run.effect = e
        /\ run.stage = "READING" /\ run.answer = "NONE" /\ run.record = NoRecord
        /\ attempts' = attempts
  /\ UNCHANGED <<scenario, page, journal, wire, ledger, head, nextOperation, nextEffect, histories>>

SendStep(i) ==
  LET e == runs[i].effect IN
  /\ runs[i].stage = "PUT" /\ Current(panel, e)
  /\ \/ panel' = panel /\ ~(Completing(panel, e) /\ panel.phase = "PREPARING")
     \/ /\ Completing(panel, e) /\ panel.phase = "PREPARING"
        /\ panel' \in Panels /\ SameFacts(panel, panel') /\ SameReads(panel, panel')
        /\ panel'.effects = panel.effects
        /\ panel'.phase = "SUBMITTING" /\ panel'.source = panel.source
        /\ panel'.effect = panel.effect /\ panel'.draft = panel.draft
  /\ wire' = wire \cup {[id |-> i, request |-> e.request]}
  /\ sent' = sent \cup {[request |-> e.request, actor |-> page, ctx |-> panel.ctx,
                         first |-> \A m \in sent : m.request.op # e.request.op]}
  /\ Marked(i, "SENT", runs[i].answer)
  /\ UNCHANGED <<scenario, page, attempts, journal, ledger, head, nextOperation, nextEffect,
                 reviewed, heard, told, abandoned, proof, barrier>>

StopStep(i) ==
  /\ runs[i].stage = "PUT" /\ ~Current(panel, runs[i].effect)
  /\ Marked(i, "ANSWERED", runs[i].answer)
  /\ UNCHANGED <<outside, panel, nextOperation, nextEffect, histories>>

CheckedStep(i, answer) ==
  /\ runs[i].stage = "READING" /\ runs[i].effect.kind = "CHECK_STATUS"
  /\ Marked(i, "ANSWERED", answer)
  /\ heard' = IF answer = "RECORD" THEN heard \cup {runs[i].effect.request.op} ELSE heard
  /\ UNCHANGED <<outside, panel, nextOperation, nextEffect, sent, reviewed, told, abandoned,
                 proof, barrier>>

DeliverStep(i) ==
  /\ runs[i].stage \in {"ANSWERED", "CLEARED"}
  /\ panel' \in Panels
  /\ panel' = panel \/ Took(panel, panel', runs[i].effect, runs[i].answer)
  /\ runs[i].answer = "RECORD" /\ Completing(panel, runs[i].effect) =>
       panel.phase = "PREPARING" \/ panel' # panel
  /\ nextOperation' = IF panel'.draft.op = nextOperation THEN nextOperation + 1 ELSE nextOperation
  /\ Placed(i, Idle)
  /\ Witnessed(runs[i].effect, runs[i].answer)
  /\ UNCHANGED <<outside, nextEffect, sent, heard, abandoned>>

PreviewedStep(i, answer) ==
  /\ runs[i].stage = "READING" /\ runs[i].effect.kind = "PREVIEW"
  /\ panel' \in Panels
  /\ panel' = panel \/ Took(panel, panel', runs[i].effect, answer)
  /\ Placed(i, Idle)
  /\ Witnessed(runs[i].effect, answer)
  /\ UNCHANGED <<outside, nextOperation, nextEffect, sent, heard, abandoned>>

ObservedStep(i, answer) ==
  /\ runs[i].stage = "READING" /\ runs[i].effect.kind \notin {"PREVIEW", "CHECK_STATUS"}
  /\ panel' \in Panels
  /\ panel' = panel \/ Read(panel, panel', runs[i].effect, answer)
  /\ Placed(i, Idle)
  /\ Witnessed(runs[i].effect, answer)
  /\ UNCHANGED <<outside, nextOperation, nextEffect, sent, heard, abandoned>>

PreviewedAnswers == {"REFUSED", "DENIED", "CONFLICT", "REVIEWED"}
ObservedAnswers  == {"OBSERVED", "FAILED", "DENIED"}

(* The host's answer, if the page still listens. *)
DecideStep(m, answer) ==
  /\ m \in wire /\ wire' = wire \ {m}
  /\ \/ answer = "RECORD" /\ ledger[m.request.op] = "NONE"
        /\ ledger' = [ledger EXCEPT ![m.request.op] = "ACCEPTED"]
     \/ answer = "RECORD" /\ ledger[m.request.op] = "ACCEPTED" /\ ledger' = ledger
     \/ /\ answer \in {"CONFLICT", "DENIED", "REFUSED"}
        /\ ledger[m.request.op] # "ACCEPTED" /\ ledger' = ledger
  /\ head' \in 0..MaxRevision
  /\ IF runs[m.id].stage = "SENT"
     THEN /\ Marked(m.id, "ANSWERED", answer)
          /\ heard' = IF answer = "RECORD" THEN heard \cup {m.request.op} ELSE heard
     ELSE UNCHANGED <<runs, heard>>
  /\ UNCHANGED <<scenario, page, panel, attempts, journal, nextOperation, nextEffect,
                 sent, reviewed, told, abandoned, proof, barrier>>

LEMMA DecisionsAreSteps ==
  ASSUME Typed, NEW m \in wire, Decide(m)
  PROVE  \E answer \in Answers : DecideStep(m, answer)
  <1>1. /\ m.id \in EffectIds /\ m.request.op \in Operations /\ head \in 0..MaxRevision
        /\ subject \in {"CASE", "OPEN", "AUTHORITY"}
    BY ScenarioAssumption DEF Typed, Requests, subject
  <1>2. ASSUME NEW answer \in Answers, Hear(m, answer)
        PROVE  IF runs[m.id].stage = "SENT"
               THEN /\ Marked(m.id, "ANSWERED", answer)
                    /\ heard' = IF answer = "RECORD" THEN heard \cup {m.request.op} ELSE heard
               ELSE UNCHANGED <<runs, heard>>
    BY <1>1, <1>2, AnswerMarks DEF Hear
  <1>3. {"RECORD", "CONFLICT", "DENIED", "REFUSED"} \subseteq Answers
    BY DEF Answers
  <1>4. ASSUME Acceptable(m.request), ledger' = [ledger EXCEPT ![m.request.op] = "ACCEPTED"],
               head' = (IF subject = "AUTHORITY" THEN head ELSE head + 1), Hear(m, "RECORD")
        PROVE  DecideStep(m, "RECORD")
    <2>1. head' \in 0..MaxRevision
      BY <1>1, <1>4, OperationAssumption DEF Acceptable
    <2> QED
      BY <1>2, <1>3, <1>4, <2>1 DEF Decide, DecideStep, Acceptable
  <1>5. ASSUME ledger[m.request.op] = "ACCEPTED", UNCHANGED service, Hear(m, "RECORD")
        PROVE  DecideStep(m, "RECORD")
    BY <1>1, <1>2, <1>3, <1>5 DEF Decide, DecideStep, service
  <1>6. ASSUME ledger[m.request.op] # "ACCEPTED", UNCHANGED service,
               NEW answer \in Refusals(m.request), Hear(m, answer)
        PROVE  answer \in Answers /\ DecideStep(m, answer)
    <2>1. answer \in {"CONFLICT", "DENIED", "REFUSED"}
      BY <1>6 DEF Refusals
    <2> QED
      BY <1>1, <1>2, <1>3, <1>6, <2>1 DEF Decide, DecideStep, service
  <1> QED
    BY <1>3, <1>4, <1>5, <1>6 DEF Decide

LEMMA StartsAreSteps ==
  ASSUME Typed, EffectsShape, StartEffect
  PROVE  \E e \in Effects : \E run : StartStep(e, run)
  <1>1. PICK e \in panel.effects :
          /\ panel' = [panel EXCEPT !.effects = {f \in @ : f.id # e.id}]
          /\ runs' = [runs EXCEPT ![e.id] = Started(e)]
          /\ attempts' = IF e.kind = "EXECUTE" THEN attempts \cup {Started(e).record} ELSE attempts
          /\ UNCHANGED <<scenario, page, journal, wire, ledger, head, nextOperation, nextEffect,
                         histories>>
    BY DEF StartEffect, service, histories, ghosts
  <1>2. /\ panel \in Panels /\ e \in Effects
        /\ panel' \in Panels /\ SameFacts(panel, panel') /\ SameReads(panel, panel')
        /\ SameWork(panel, panel') /\ panel'.effects = {f \in panel.effects : f.id # e.id}
    BY <1>1 DEF Typed, Panels, SameFacts, SameReads, SameWork
  <1> DEFINE owned == Owned(e.request.op)
             record == IF owned # {} THEN CHOOSE r \in owned : TRUE
                       ELSE [actor |-> page, attempt |-> e.id, op |-> e.request.op]
             run == Started(e)
  <1>3. owned # {} => record \in attempts /\ record.op = e.request.op
    BY DEF Owned
  <1>4. owned = {} => record = [actor |-> page, attempt |-> e.id, op |-> e.request.op]
    OBVIOUS
  <1>5. run = IF e.kind \in {"RECORDED", "DISCLOSURE_REFUSED"} THEN runs[e.id]
              ELSE IF e.kind = "EXECUTE"
                   THEN Run(IF record.actor = page THEN "PUTTING" ELSE "ANSWERED", e, record, "UNSENT")
              ELSE IF e.kind = "CHECK_STATUS" /\ (owned = {} \/ record.actor # page)
                   THEN Run("ANSWERED", e, NoRecord, "UNAVAILABLE")
              ELSE Run("READING", e, IF e.kind = "CHECK_STATUS" THEN record ELSE NoRecord, "NONE")
    BY DEF Started
  <1>6. e.kind = "EXECUTE" => page \in Actors /\ e.request.op \in Operations /\ e.id \in EffectIds
    BY <1>1, <1>2 DEF EffectsShape, Carries, Requests, Effects, Panels
  <1>7. attempts \subseteq Records
    BY DEF Typed
  <1>8. owned = Owned(e.request.op)
    OBVIOUS
  <1> HIDE DEF owned, record, run
  <1>9. CASE e.kind \in {"RECORDED", "DISCLOSURE_REFUSED"}
    <2>1. Placed(e.id, run)
      BY <1>1, <1>2, <1>5, <1>9, Places DEF Typed, Effects, run
    <2>2. StartStep(e, run)
      BY <1>1, <1>2, <1>5, <1>9, <2>1 DEF StartStep, Carries
    <2> QED
      BY <1>2, <2>2
  <1>10. CASE e.kind = "EXECUTE"
    <2>1. run = Run(IF record.actor = page THEN "PUTTING" ELSE "ANSWERED", e, record, "UNSENT")
      BY <1>5, <1>10
    <2>2. record \in Records /\ record.op = e.request.op
      BY <1>3, <1>4, <1>6, <1>7, <1>10 DEF Records
    <2>3. record \in attempts \/ (record.actor = page /\ owned = {})
      BY <1>3, <1>4
    <2>4. /\ run.effect = e /\ run.answer = "UNSENT" /\ run.record = record
          /\ run.stage = IF record.actor = page THEN "PUTTING" ELSE "ANSWERED"
      BY <2>1 DEF Run
    <2>5. attempts' = attempts \cup {record}
      BY <1>1, <1>10, <2>4 DEF run
    <2>6. Placed(e.id, run)
      <3>1. run \in Runs
        BY <1>2, <2>1, <2>2 DEF Run, Runs, Stages, Answers
      <3> QED
        BY <1>1, <1>6, <1>10, <3>1, Places DEF run
    <2>7. StartStep(e, run)
      BY <1>1, <1>2, <1>8, <1>10, <2>2, <2>3, <2>4, <2>5, <2>6 DEF StartStep
    <2> QED
      BY <1>2, <2>7
  <1>11. CASE e.kind = "CHECK_STATUS"
    <2>1. attempts' = attempts /\ e.id \in EffectIds /\ runs' = [runs EXCEPT ![e.id] = run]
      BY <1>1, <1>2, <1>11 DEF run, Effects
    <2>2. \/ run = Run("ANSWERED", e, NoRecord, "UNAVAILABLE")
          \/ /\ run = Run("READING", e, record, "NONE")
             /\ record \in attempts /\ record.op = e.request.op
      BY <1>3, <1>5, <1>11
    <2>3. /\ run.effect = e
          /\ \/ run.stage = "ANSWERED" /\ run.answer = "UNAVAILABLE" /\ run.record = NoRecord
             \/ /\ run.stage = "READING" /\ run.answer = "NONE"
                /\ run.record \in attempts /\ run.record.op = e.request.op
      BY <2>2 DEF Run
    <2>4. run \in Runs
      BY <1>2, <1>7, <2>2 DEF Run, Runs, Stages, Answers
    <2>5. StartStep(e, run)
      BY <1>1, <1>2, <1>11, <2>1, <2>3, <2>4, Places DEF StartStep
    <2> QED
      BY <1>2, <2>5
  <1>12. CASE e.kind \notin {"RECORDED", "DISCLOSURE_REFUSED", "EXECUTE", "CHECK_STATUS"}
    <2>1. attempts' = attempts /\ e.id \in EffectIds /\ runs' = [runs EXCEPT ![e.id] = run]
      BY <1>1, <1>2, <1>12 DEF run, Effects
    <2>2. run = Run("READING", e, NoRecord, "NONE")
      BY <1>5, <1>12
    <2>3. run.effect = e /\ run.stage = "READING" /\ run.answer = "NONE" /\ run.record = NoRecord
      BY <2>2 DEF Run
    <2>4. run \in Runs
      BY <1>2, <2>2 DEF Run, Runs, Stages, Answers
    <2>5. StartStep(e, run)
      BY <1>1, <1>2, <1>12, <2>1, <2>3, <2>4, Places DEF StartStep
    <2> QED
      BY <1>2, <2>5
  <1> QED
    BY <1>9, <1>10, <1>11, <1>12

LEMMA DispatchesAreSteps ==
  ASSUME Typed, RunsShape, NEW i \in EffectIds, Dispatch(i)
  PROVE  SendStep(i) \/ StopStep(i)
  <1>1. runs[i].effect \in Effects /\ panel \in Panels
    BY DEF Dispatch, RunsShape, RunShape, Typed
  <1>2. CASE Current(panel, runs[i].effect)
    BY <1>1, <1>2, HandoffFields, StageMarks DEF Dispatch, SendStep, Stages, service
  <1>3. CASE ~Current(panel, runs[i].effect)
    BY <1>3, StageMarks DEF Dispatch, StopStep, Stages, outside, histories, service
  <1> QED
    BY <1>2, <1>3

LEMMA DeliveriesAreSteps ==
  ASSUME Typed, RunsShape, NEW i \in EffectIds, Deliver(i)
  PROVE  DeliverStep(i)
  <1> DEFINE e == runs[i].effect
             answer == runs[i].answer
  <1>1. runs[i].stage \in {"ANSWERED", "CLEARED"}
    BY DEF Deliver
  <1>2. e \in Effects /\ panel \in Panels /\ answer \in Answers /\ nextOperation \in Nat
    BY <1>1 DEF RunsShape, RunShape, Typed, Runs
  <1>3. /\ panel' = IF Current(panel, e) THEN Completed(panel, e, answer) ELSE panel
        /\ nextOperation' = IF panel'.draft.op = nextOperation THEN nextOperation + 1
                            ELSE nextOperation
        /\ runs' = [runs EXCEPT ![i] = Idle]
        /\ Witnessed(runs[i].effect, runs[i].answer)
        /\ UNCHANGED <<outside, nextEffect, sent, heard, abandoned>>
    BY DEF Deliver, outside, service
  <1>6. Placed(i, Idle)
    BY <1>3, IdleIsRun, Places
  <1> HIDE DEF e, answer
  <1>4. panel' = panel \/ Took(panel, panel', e, answer)
    BY <1>2, <1>3, CompletedFields
  <1>5. panel' \in Panels
    BY <1>2, <1>4 DEF Took, Leaves
  <1>7. answer = "RECORD" /\ Completing(panel, e) => panel.phase = "PREPARING" \/ panel' # panel
    BY <1>2, <1>3, RecordTakes DEF Completing, Completed
  <1> QED
    BY <1>1, <1>3, <1>4, <1>5, <1>6, <1>7 DEF DeliverStep, e, answer

LEMMA ReadsAreSteps ==
  ASSUME Typed, RunsShape, NEW i \in EffectIds, FinishRead(i)
  PROVE  \/ \E answer \in PreviewedAnswers : PreviewedStep(i, answer)
         \/ \E answer \in ObservedAnswers : ObservedStep(i, answer)
  <1> DEFINE e == runs[i].effect
  <1>1. /\ e \in Effects /\ panel \in Panels /\ nextOperation \in Nat /\ head \in 0..MaxRevision
        /\ runs[i].stage = "READING" /\ e.kind # "CHECK_STATUS"
    BY DEF FinishRead, RunsShape, RunShape, Typed
  <1>2. CASE e.kind = "PREVIEW"
    <2>1. PICK answer \in PreviewAnswers(e.request) :
            panel' = Completed(panel, e, answer) /\ Witnessed(e, answer)
      BY <1>2 DEF FinishRead
    <2>2. answer \in PreviewedAnswers
      BY DEF PreviewAnswers, PreviewedAnswers
    <2>3. answer \in Answers \cup {"REVIEWED"}
      BY <2>2 DEF PreviewedAnswers, Answers
    <2>4. Placed(i, Idle) /\ UNCHANGED <<outside, nextOperation, nextEffect, sent, heard, abandoned>>
      BY IdleIsRun, Places DEF FinishRead, outside, service
    <2> HIDE DEF e
    <2>5. panel' = panel \/ Took(panel, panel', e, answer)
      BY <1>1, <2>1, <2>3, CompletedFields
    <2>6. panel' \in Panels
      BY <1>1, <2>5 DEF Took, Leaves
    <2>7. PreviewedStep(i, answer)
      BY <1>1, <1>2, <2>1, <2>4, <2>5, <2>6 DEF PreviewedStep, e
    <2> QED
      BY <2>2, <2>7
  <1>3. CASE e.kind # "PREVIEW"
    <2>1. PICK answer \in ObservedAnswers :
            panel' = ReadCompleted(panel, e, answer) /\ Witnessed(e, answer)
      BY <1>3 DEF FinishRead, ObservedAnswers
    <2>2. Placed(i, Idle) /\ UNCHANGED <<outside, nextOperation, nextEffect, sent, heard, abandoned>>
      BY IdleIsRun, Places DEF FinishRead, outside, service
    <2> HIDE DEF e
    <2>3. panel' = panel \/ Read(panel, panel', e, answer)
      BY <1>1, <2>1, ReadCompletedFields DEF ObservedAnswers
    <2>4. panel' \in Panels
      BY <1>1, <2>3 DEF Read
    <2>5. ObservedStep(i, answer)
      BY <1>1, <1>3, <2>1, <2>2, <2>3, <2>4 DEF ObservedStep, e
    <2> QED
      BY <2>5
  <1> QED
    BY <1>2, <1>3

----------------------------------------------------------------------------
(* Every step has one of these forms; the others are named in the model. *)
AuthorStep ==
  \/ EditStep \/ IdleStep \/ ReturnStep \/ DiscardStep
  \/ \E e \in Effects : \/ \E phase \in Phases : BeginStep(e, phase)
                        \/ ReadStep(e) \/ RebaseStep(e)

AroundStep ==
  \/ ContextStep \/ WithdrawStep \/ AccessStep \/ MountStep
  \/ OtherAct \/ SettleElsewhere
  \/ \E m \in wire : \E answer \in Answers : DecideStep(m, answer)

RunStep(i) ==
  \/ CommitRecord(i) /\ Marked(i, "PUT", runs[i].answer)
  \/ FailRecord(i) /\ Marked(i, "ANSWERED", runs[i].answer)
  \/ SendStep(i) \/ StopStep(i)
  \/ LoseAnswer(i) /\ Marked(i, "ANSWERED", "UNCERTAIN")
  \/ \E answer \in StatusAnswers(runs[i].effect.request.op) : CheckedStep(i, answer)
  \/ ForgetRecord(i) /\ Marked(i, "CLEARED", runs[i].answer)
  \/ DeliverStep(i)
  \/ \E answer \in PreviewedAnswers : PreviewedStep(i, answer)
  \/ \E answer \in ObservedAnswers : ObservedStep(i, answer)

EffectStep == (\E e \in Effects : \E run : StartStep(e, run)) \/ \E i \in EffectIds : RunStep(i)

(* Every step but an edit, a discard and a remount. *)
QuietStep ==
  \/ IdleStep \/ ReturnStep
  \/ \E e \in Effects : \/ \E phase \in Phases : BeginStep(e, phase)
                        \/ ReadStep(e) \/ RebaseStep(e)
  \/ ContextStep \/ WithdrawStep \/ AccessStep \/ OtherAct \/ SettleElsewhere
  \/ \E m \in wire : \E answer \in Answers : DecideStep(m, answer)
  \/ EffectStep

LEMMA StepsHaveForms ==
  ASSUME Typed, Shape, [Next]_vars
  PROVE  \/ (EditDraft \/ EnterPartialDate) /\ EditStep
         \/ Discard /\ DiscardStep
         \/ Remount /\ MountStep
         \/ QuietStep
  <1>1. PanelShape /\ EffectsShape /\ RunsShape
    BY DEF Shape
  <1>2. CASE Author
    <2>1. "PREVIEWING" \in Phases /\ "PREPARING" \in Phases /\ "UNRESOLVED" \in Phases
      BY DEF Phases
    <2>2. CASE EditDraft \/ EnterPartialDate
      BY <1>1, <2>2, EditsAreSteps
    <2>3. CASE PreviewDraft
      BY <1>1, <2>1, <2>3, PreviewsAreSteps DEF QuietStep
    <2>4. CASE SubmitReviewed
      BY <1>1, <2>1, <2>4, SubmissionsAreSteps DEF QuietStep
    <2>5. CASE SendAgain \/ CheckStatus
      BY <1>1, <2>1, <2>5, RepetitionsAreSteps DEF QuietStep
    <2>6. CASE RevalidateDisclosure
      BY <1>1, <2>6, ReloadsAreSteps DEF QuietStep
    <2>7. CASE ReviewLatestDraft
      BY <1>1, <2>7, RebasesAreSteps DEF QuietStep
    <2>8. CASE ReturnToEdit
      BY <1>1, <2>8, ReturnsAreSteps DEF QuietStep
    <2>9. CASE Discard
      BY <1>1, <2>9, DiscardsAreSteps
    <2> QED
      BY <1>2, <2>2, <2>3, <2>4, <2>5, <2>6, <2>7, <2>8, <2>9 DEF Author
  <1>3. CASE Around
    BY <1>3, ChangesAreSteps, WithdrawalsAreSteps, ObservationsAreSteps, RemountsAreSteps,
       DecisionsAreSteps
    DEF Around, QuietStep
  <1>4. CASE Executing
    <2>1. CASE StartEffect
      BY <1>1, <2>1, StartsAreSteps DEF EffectStep, QuietStep
    <2>2. ASSUME NEW i \in EffectIds, Progress(i) PROVE RunStep(i)
      <3>1. CASE CommitRecord(i) \/ FailRecord(i) \/ ForgetRecord(i)
        BY <3>1, StageMarks DEF CommitRecord, FailRecord, ForgetRecord, Stages, RunStep
      <3>2. CASE LoseAnswer(i)
        BY <3>2, AnswerMarks DEF LoseAnswer, Answers, RunStep
      <3>3. CASE AnswerCheck(i)
        <4>1. PICK answer \in StatusAnswers(runs[i].effect.request.op) :
                /\ runs' = [runs EXCEPT ![i].stage = "ANSWERED", ![i].answer = answer]
                /\ heard' = IF answer = "RECORD" THEN heard \cup {runs[i].effect.request.op} ELSE heard
          BY <3>3 DEF AnswerCheck
        <4>2. answer \in Answers
          BY DEF StatusAnswers, Answers
        <4>3. CheckedStep(i, answer)
          BY <3>3, <4>1, <4>2, AnswerMarks DEF AnswerCheck, CheckedStep, outside, service
        <4> QED
          BY <4>3 DEF RunStep
      <3> QED
        BY <1>1, <2>2, <3>1, <3>2, <3>3, DispatchesAreSteps, DeliveriesAreSteps, ReadsAreSteps
        DEF Progress, RunStep
    <2> QED
      BY <1>4, <2>1, <2>2 DEF Executing, EffectStep, QuietStep
  <1>5. CASE UNCHANGED vars
    <2>1. nextOperation \in 1..(MaxOperations + 1) /\ nextEffect \in 1..(MaxEffects + 1)
      BY DEF Typed
    <2>2. IdleStep
      BY <1>5, <2>1 DEF vars, IdleStep, outside, histories, ghosts
    <2> QED
      BY <2>2 DEF QuietStep
  <1> QED
    BY <1>2, <1>3, <1>4, <1>5 DEF Next

----------------------------------------------------------------------------
(* What an answer means to the histories keeps their types. *)
LEMMA WitnessedTyped ==
  ASSUME Typed, NEW e \in Effects, NEW answer, Witnessed(e, answer),
         answer = "RECORD" /\ panel' # panel => e.request \in Requests
  PROVE  /\ told' \subseteq Operations
         /\ proof' \in 1..(MaxEffects + 1) /\ barrier' \in 1..(MaxEffects + 1)
  <1>1. e.id \in 1..(MaxEffects + 1)
    BY OperationAssumption DEF Effects, EffectIds
  <1>2. e.request \in Requests => e.request.op \in Operations
    BY DEF Requests
  <1> QED
    BY <1>1, <1>2 DEF Witnessed, Typed

LEMMA TypedAuthor ==
  ASSUME Typed, PanelShape, AuthorStep
  PROVE  Typed'
  <1> USE OperationAssumption
  <1>1. /\ panel \in Panels /\ nextOperation \in 1..(MaxOperations + 1)
        /\ nextEffect \in 1..(MaxEffects + 1) /\ abandoned \subseteq Operations
    BY DEF Typed
  <1>2. /\ panel' \in Panels /\ nextOperation' \in 1..(MaxOperations + 1)
        /\ nextEffect' \in 1..(MaxEffects + 1)
    <2>1. CASE EditStep
      BY <1>1, <2>1 DEF EditStep, Operations
    <2>2. CASE IdleStep
      BY <1>1, <2>2 DEF IdleStep
    <2>3. CASE ReturnStep
      BY <1>1, <2>3 DEF ReturnStep
    <2>4. CASE DiscardStep
      BY <1>1, <2>4 DEF DiscardStep, Emptied, Operations
    <2>5. ASSUME NEW e \in Effects, NEW phase \in Phases, BeginStep(e, phase)
          PROVE  /\ panel' \in Panels /\ nextOperation' \in 1..(MaxOperations + 1)
                 /\ nextEffect' \in 1..(MaxEffects + 1)
      BY <1>1, <2>5 DEF BeginStep, Begins, EffectIds
    <2>6. ASSUME NEW e \in Effects, ReadStep(e) \/ RebaseStep(e)
          PROVE  /\ panel' \in Panels /\ nextOperation' \in 1..(MaxOperations + 1)
                 /\ nextEffect' \in 1..(MaxEffects + 1)
      BY <1>1, <2>6 DEF ReadStep, ReadBegins, RebaseStep, EffectIds, Operations
    <2> QED
      BY <2>1, <2>2, <2>3, <2>4, <2>5, <2>6 DEF AuthorStep
  <1>3. UNCHANGED <<scenario, page, runs, attempts, journal, wire, ledger, head, sent, heard,
                    told, proof, barrier>>
    BY DEF AuthorStep, EditStep, IdleStep, ReturnStep, DiscardStep, BeginStep, ReadStep,
           RebaseStep, outside, histories
  <1>4. abandoned' \subseteq Operations
    <2>1. CASE DiscardStep
      <3>1. panel.phase = "UNRESOLVED" => panel.source.op \in Operations
        BY DEF PanelShape, Requests
      <3> QED
        BY <1>1, <2>1, <3>1 DEF DiscardStep
    <2>2. CASE ~DiscardStep
      BY <1>1, <2>2
      DEF AuthorStep, EditStep, IdleStep, ReturnStep, BeginStep, ReadStep, RebaseStep, histories
    <2> QED
      BY <2>1, <2>2
  <1> QED
    BY <1>2, <1>3, <1>4 DEF Typed

LEMMA AbortedRuns ==
  ASSUME Typed, runs' = AbortReads
  PROVE  /\ runs' \in [EffectIds -> Runs]
         /\ \A i \in EffectIds :
              runs'[i] = IF runs[i].stage = "READING" THEN Idle ELSE runs[i]
  BY IdleIsRun DEF Typed, AbortReads

LEMMA TypedAround ==
  ASSUME Typed, AroundStep
  PROVE  Typed'
  <1> USE OperationAssumption
  <1>1. CASE ContextStep
    BY <1>1, AbortedRuns DEF ContextStep, Withdrawn, Typed
  <1>2. CASE WithdrawStep
    BY <1>2 DEF WithdrawStep, Withdrawn, outside, Typed
  <1>3. CASE AccessStep
    BY <1>3 DEF AccessStep, outside, Typed
  <1>4. CASE MountStep
    BY <1>4, IdleIsRun DEF MountStep, Emptied, Typed, Operations
  <1>5. CASE OtherAct
    BY <1>5 DEF OtherAct, ghosts, Typed
  <1>6. CASE SettleElsewhere
    BY <1>6 DEF SettleElsewhere, ghosts, Typed, Records
  <1>7. ASSUME NEW m \in wire, NEW answer \in Answers, DecideStep(m, answer) PROVE Typed'
    <2>1. m.request.op \in Operations /\ m.id \in EffectIds
      BY DEF Typed, Requests
    <2>2. ledger' \in [Operations -> {"NONE", "ACCEPTED", "FENCED"}]
      BY <1>7, <2>1 DEF DecideStep, Typed
    <2>3. runs' \in [EffectIds -> Runs] /\ heard' \subseteq Operations
      BY <1>7, <2>1 DEF DecideStep, Marked, Typed
    <2>4. wire' \subseteq [id : EffectIds, request : Requests] /\ head' \in 0..MaxRevision
      BY <1>7 DEF DecideStep, Typed
    <2> QED
      BY <1>7, <2>2, <2>3, <2>4 DEF DecideStep, Typed
  <1> QED
    BY <1>1, <1>2, <1>3, <1>4, <1>5, <1>6, <1>7 DEF AroundStep

LEMMA TypedEffect ==
  ASSUME Typed, RunsShape, EffectStep
  PROVE  Typed'
  <1> USE OperationAssumption
  <1>1. ASSUME NEW e \in Effects, NEW run, StartStep(e, run) PROVE Typed'
    <2>1. attempts' \subseteq Records
      BY <1>1 DEF StartStep, Typed
    <2> QED
      BY <1>1, <2>1 DEF StartStep, Placed, histories, Typed
  <1>2. ASSUME NEW i \in EffectIds, RunStep(i) PROVE Typed'
    <2>1. ASSUME CommitRecord(i), Marked(i, "PUT", runs[i].answer) PROVE Typed'
      <3>1. runs[i].record \in Records
        BY <2>1 DEF CommitRecord, RunsShape, RunShape
      <3> QED
        BY <2>1, <3>1 DEF CommitRecord, Marked, Typed, service, ghosts
    <2>2. ASSUME FailRecord(i), Marked(i, "ANSWERED", runs[i].answer) PROVE Typed'
      BY <2>2 DEF FailRecord, Marked, Typed, service, ghosts
    <2>3. CASE SendStep(i)
      <3>1. /\ runs[i].effect.request \in Requests /\ panel \in Panels /\ page \in Requesters
            /\ panel' \in Panels
        BY <2>3 DEF SendStep, RunsShape, RunShape, Carries, Typed
      <3>2. wire' \subseteq [id : EffectIds, request : Requests]
        BY <2>3, <3>1 DEF SendStep, Typed
      <3>3. sent' \subseteq [request : Requests, actor : Requesters, ctx : 0..MaxContexts,
                             first : BOOLEAN]
        <4> DEFINE first == \A m \in sent : m.request.op # runs[i].effect.request.op
        <4>1. first \in BOOLEAN
          OBVIOUS
        <4>2. sent' = sent \cup {[request |-> runs[i].effect.request, actor |-> page,
                                  ctx |-> panel.ctx, first |-> first]}
          BY <2>3 DEF SendStep
        <4> HIDE DEF first
        <4> QED
          BY <3>1, <4>1, <4>2 DEF Typed, Panels
      <3> QED
        BY <2>3, <3>1, <3>2, <3>3 DEF SendStep, Marked, Typed
    <2>4. CASE StopStep(i)
      BY <2>4 DEF StopStep, Marked, Typed, outside, histories
    <2>5. ASSUME LoseAnswer(i), Marked(i, "ANSWERED", "UNCERTAIN") PROVE Typed'
      BY <2>5 DEF LoseAnswer, Marked, Typed, service, ghosts
    <2>6. ASSUME NEW answer, CheckedStep(i, answer) PROVE Typed'
      <3>1. runs[i].effect.request.op \in Operations
        BY <2>6 DEF CheckedStep, RunsShape, RunShape, Carries, Requests
      <3> QED
        BY <2>6, <3>1 DEF CheckedStep, Marked, Typed, outside
    <2>7. ASSUME ForgetRecord(i), Marked(i, "CLEARED", runs[i].answer) PROVE Typed'
      BY <2>7 DEF ForgetRecord, Marked, Typed, service, ghosts
    <2>8. CASE DeliverStep(i)
      <3>1. runs[i].effect \in Effects /\ runs[i].effect.request \in Requests
        BY <2>8 DEF DeliverStep, RunsShape, RunShape, Carries
      <3>2. /\ told' \subseteq Operations
            /\ proof' \in 1..(MaxEffects + 1) /\ barrier' \in 1..(MaxEffects + 1)
        BY <2>8, <3>1, WitnessedTyped DEF DeliverStep
      <3>3. nextOperation' \in 1..(MaxOperations + 1)
        <4>1. panel'.draft.op \in Operations \cup {0}
          BY <2>8 DEF DeliverStep, Panels, Drafts
        <4> QED
          BY <2>8, <4>1 DEF DeliverStep, Typed, Operations
      <3> QED
        BY <2>8, <3>2, <3>3 DEF DeliverStep, Placed, Typed, outside
    <2>9. ASSUME NEW answer \in PreviewedAnswers, PreviewedStep(i, answer) PROVE Typed'
      <3>1. runs[i].effect \in Effects
        BY <2>9 DEF PreviewedStep, RunsShape, RunShape
      <3>2. answer # "RECORD"
        BY DEF PreviewedAnswers
      <3>3. /\ told' \subseteq Operations
            /\ proof' \in 1..(MaxEffects + 1) /\ barrier' \in 1..(MaxEffects + 1)
        BY <2>9, <3>1, <3>2, WitnessedTyped DEF PreviewedStep
      <3> QED
        BY <2>9, <3>3 DEF PreviewedStep, Placed, Typed, outside
    <2>10. ASSUME NEW answer \in ObservedAnswers, ObservedStep(i, answer) PROVE Typed'
      <3>1. runs[i].effect \in Effects
        BY <2>10 DEF ObservedStep, RunsShape, RunShape
      <3>2. answer # "RECORD"
        BY DEF ObservedAnswers
      <3>3. /\ told' \subseteq Operations
            /\ proof' \in 1..(MaxEffects + 1) /\ barrier' \in 1..(MaxEffects + 1)
        BY <2>10, <3>1, <3>2, WitnessedTyped DEF ObservedStep
      <3> QED
        BY <2>10, <3>3 DEF ObservedStep, Placed, Typed, outside
    <2> QED
      BY <1>2, <2>1, <2>2, <2>3, <2>4, <2>5, <2>6, <2>7, <2>8, <2>9, <2>10 DEF RunStep
  <1> QED
    BY <1>1, <1>2 DEF EffectStep

----------------------------------------------------------------------------
(* The shape of the panel, of its scheduled effects and of the runs. *)
Step == AuthorStep \/ AroundStep \/ EffectStep

LEMMA NumbersTyped ==
  ASSUME Typed
  PROVE  /\ panel.effect \in Nat /\ panel.reading \in Nat /\ panel.draft.op \in Nat
         /\ nextOperation \in Nat /\ nextEffect \in Nat /\ nextOperation >= 1 /\ nextEffect >= 1
         /\ panel.ctx \in Nat /\ panel.seen \in Nat
  <1>1. /\ panel.effect \in EffectIds \cup {0} /\ panel.reading \in EffectIds \cup {0}
        /\ panel.draft.op \in Operations \cup {0}
        /\ panel.ctx \in 0..MaxContexts /\ panel.seen \in 0..MaxContexts
    BY DEF Typed, Panels, Drafts
  <1> QED
    BY SMTT(30), <1>1 DEF Typed, EffectIds, Operations

(* The panel is left alone by the runs that it does not wait for. *)
LEMMA PanelAlone ==
  ASSUME Typed, PanelShape, panel' = panel,
         nextOperation' \in Nat, nextOperation' >= nextOperation,
         nextEffect' \in Nat, nextEffect' >= nextEffect
  PROVE  PanelShape'
  <1>1. /\ panel.effect \in Nat /\ panel.reading \in Nat /\ panel.draft.op \in Nat
        /\ nextOperation \in Nat /\ nextEffect \in Nat
    BY SMTT(30) DEF Typed, Panels, Drafts, EffectIds, Operations
  <1> QED
    BY <1>1 DEF PanelShape, Busy

LEMMA TakenPanel ==
  ASSUME Typed, PanelShape, NEW e \in Effects, NEW answer, Took(panel, panel', e, answer),
         e.id < nextEffect, nextEffect' = nextEffect, nextOperation' \in Nat,
         nextOperation' >= nextOperation, panel'.draft.op < nextOperation'
  PROVE  PanelShape'
  <1>1. /\ panel \in Panels /\ panel' \in Panels /\ panel'.ctx = panel.ctx /\ panel'.effect = 0
        /\ Busy(panel) /\ panel.reading = 0 /\ nextEffect \in Nat /\ nextEffect >= 1
        /\ e.id \in Nat /\ e.id >= 1
        /\ (panel'.reading = 0 \/ (panel'.reading = e.id /\ panel'.phase = "EDITING"))
        /\ panel'.ctx \in Nat
    BY DEF Took, Leaves, Completing, PanelShape, Busy, Typed, Effects, EffectIds, Panels
  <1>2. /\ panel'.phase # "EDITING" => panel'.source \in Requests
        /\ panel'.source # NoRequest => panel'.draft = panel'.source
    BY <1>1 DEF Took, PanelShape, Busy, SameFacts
  <1>3. panel'.phase \in {"PREVIEWING", "REVIEWING"} =>
          panel'.conflict = NoConflict /\ panel'.phase = "REVIEWING"
          /\ panel'.seen = panel'.ctx /\ ~panel'.refused
    BY <1>1 DEF Took, PanelShape, Busy, SameFacts
  <1>4. panel'.seen <= panel'.ctx
    BY <1>1 DEF Took, PanelShape, Busy, SameFacts
  <1> QED
    BY <1>1, <1>2, <1>3, <1>4 DEF PanelShape

LEMMA PanelShapeStep ==
  ASSUME Typed, Typed', Shape, Step
  PROVE  PanelShape'
  <1>1. PanelShape /\ EffectsShape /\ RunsShape
    BY DEF Shape
  <1>2. /\ panel.effect \in Nat /\ panel.reading \in Nat /\ panel.draft.op \in Nat
        /\ nextOperation \in Nat /\ nextEffect \in Nat /\ nextOperation >= 1 /\ nextEffect >= 1
        /\ panel \in Panels /\ panel' \in Panels /\ panel.ctx \in Nat /\ panel.seen \in Nat
    BY NumbersTyped DEF Typed
  <1>3. CASE AuthorStep
    <2>1. CASE EditStep
      BY <1>1, <1>2, <2>1 DEF EditStep, SameFacts, SameReads, SameWork, AtRest, PanelShape, Busy
    <2>2. CASE IdleStep
      BY <1>1, <1>2, <2>2, PanelAlone DEF IdleStep
    <2>3. CASE ReturnStep
      BY <1>1, <1>2, <2>3 DEF ReturnStep, SameFacts, SameReads, AtRest, PanelShape
    <2>4. CASE DiscardStep
      BY <1>1, <1>2, <2>4 DEF DiscardStep, Emptied, SameFacts, PanelShape
    <2>5. ASSUME NEW e \in Effects, NEW phase \in Phases, BeginStep(e, phase)
          PROVE  PanelShape'
      <3>1. /\ panel'.phase = phase /\ panel'.source = e.request /\ panel'.effect = nextEffect
            /\ panel'.draft = panel.draft /\ SameFacts(panel, panel') /\ SameReads(panel, panel')
            /\ nextEffect' = nextEffect + 1 /\ nextOperation' = nextOperation
            /\ e.request \in Requests /\ phase \in {"PREVIEWING", "PREPARING", "UNRESOLVED"}
            /\ phase = "PREVIEWING" => panel.conflict = NoConflict
            /\ phase = "UNRESOLVED" => panel.phase = "UNRESOLVED"
            /\ phase = "PREPARING" => panel.phase = "REVIEWING"
            /\ phase = "PREVIEWING" => panel.reading = 0
            /\ e.request = IF panel.source = NoRequest THEN panel.draft ELSE panel.source
        BY <1>1, <2>5 DEF BeginStep, Begins, PanelShape, NoRequest, Requests, Operations
      <3> QED
        BY <1>1, <1>2, <3>1 DEF SameFacts, SameReads, PanelShape, Busy
    <2>6. ASSUME NEW e \in Effects, ReadStep(e) PROVE PanelShape'
      BY <1>1, <1>2, <2>6 DEF ReadStep, ReadBegins, SameFacts, SameWork, AtRest, PanelShape, Busy
    <2>7. ASSUME NEW e \in Effects, RebaseStep(e) PROVE PanelShape'
      BY <1>1, <1>2, <2>7 DEF RebaseStep, SameFacts, AtRest, PanelShape, Busy
    <2> QED
      BY <1>3, <2>1, <2>2, <2>3, <2>4, <2>5, <2>6, <2>7 DEF AuthorStep
  <1>4. CASE AroundStep
    <2>1. ASSUME Withdrawn(panel, panel'), panel'.ctx >= panel.ctx, panel'.ctx \in Nat,
                 UNCHANGED <<nextOperation, nextEffect>>
          PROVE  PanelShape'
      <3>1. panel'.effect = 0
        BY <1>1, <2>1 DEF Withdrawn, PanelShape, Busy
      <3> QED
        BY <1>1, <1>2, <2>1, <3>1 DEF Withdrawn, PanelShape, Busy
    <2>2. CASE ContextStep \/ WithdrawStep
      BY <1>2, <2>1, <2>2 DEF ContextStep, WithdrawStep
    <2>3. CASE AccessStep
      BY <1>1, <1>2, <2>3 DEF AccessStep, SameWork, SameReads, PanelShape, Busy
    <2>4. CASE MountStep
      BY <1>1, <1>2, <2>4 DEF MountStep, Emptied, PanelShape
    <2>5. CASE OtherAct \/ SettleElsewhere
      BY <1>1, <1>2, <2>5, PanelAlone DEF OtherAct, SettleElsewhere
    <2>6. ASSUME NEW m \in wire, NEW answer \in Answers, DecideStep(m, answer) PROVE PanelShape'
      BY <1>1, <1>2, <2>6, PanelAlone DEF DecideStep
    <2> QED
      BY <1>4, <2>2, <2>3, <2>4, <2>5, <2>6 DEF AroundStep
  <1>5. CASE EffectStep
    <2>1. ASSUME NEW e \in Effects, NEW run, StartStep(e, run) PROVE PanelShape'
      BY <1>1, <1>2, <2>1 DEF StartStep, SameFacts, SameReads, SameWork, PanelShape, Busy
    <2>2. ASSUME NEW i \in EffectIds, RunStep(i) PROVE PanelShape'
      <3>1. CASE CommitRecord(i) \/ FailRecord(i) \/ StopStep(i) \/ LoseAnswer(i) \/ ForgetRecord(i)
        BY <1>1, <1>2, <3>1, PanelAlone
        DEF CommitRecord, FailRecord, StopStep, LoseAnswer, ForgetRecord
      <3>2. ASSUME NEW answer, CheckedStep(i, answer) PROVE PanelShape'
        BY <1>1, <1>2, <3>2, PanelAlone DEF CheckedStep
      <3>3. CASE SendStep(i)
        <4>1. CASE panel' = panel
          BY <1>1, <1>2, <3>3, <4>1, PanelAlone DEF SendStep
        <4>2. CASE panel' # panel
          BY <1>1, <1>2, <3>3, <4>2 DEF SendStep, SameFacts, SameReads, PanelShape, Busy
        <4> QED
          BY <4>1, <4>2
      <3>4. CASE DeliverStep(i)
        <4>1. runs[i].effect \in Effects /\ runs[i].effect.id < nextEffect
          BY <1>1, <3>4 DEF DeliverStep, RunsShape, RunShape
        <4>2. /\ nextOperation' \in Nat /\ nextOperation' >= nextOperation
              /\ nextEffect' = nextEffect
          BY <1>2, <3>4 DEF DeliverStep
        <4>3. panel' # panel => panel'.draft.op < nextOperation'
          <5>1. SUFFICES ASSUME panel' # panel PROVE panel'.draft.op < nextOperation'
            OBVIOUS
          <5>2. /\ panel'.draft = panel.draft \/ panel'.draft.op = FreshOperation
            BY <3>4, <5>1 DEF DeliverStep, Took
          <5>3. panel'.draft.op = panel.draft.op \/ panel'.draft.op \in {nextOperation, 0}
            BY <5>2 DEF FreshOperation
          <5> QED
            BY <1>1, <1>2, <3>4, <5>3 DEF DeliverStep, PanelShape
        <4> QED
          BY <1>1, <1>2, <3>4, <4>1, <4>2, <4>3, PanelAlone, TakenPanel DEF DeliverStep
      <3>5. ASSUME NEW answer \in PreviewedAnswers, PreviewedStep(i, answer) PROVE PanelShape'
        <4>1. runs[i].effect \in Effects /\ runs[i].effect.id < nextEffect
          BY <1>1, <3>5 DEF PreviewedStep, RunsShape, RunShape
        <4>2. panel' # panel => panel'.draft = panel.draft
          BY <3>5 DEF PreviewedStep, PreviewedAnswers, Took
        <4>3. panel.draft.op < nextOperation
          BY <1>1 DEF PanelShape
        <4> QED
          BY <1>1, <1>2, <3>5, <4>1, <4>2, <4>3, PanelAlone, TakenPanel DEF PreviewedStep
      <3>6. ASSUME NEW answer \in ObservedAnswers, ObservedStep(i, answer) PROVE PanelShape'
        <4>1. CASE panel' = panel
          BY <1>1, <1>2, <3>6, <4>1, PanelAlone DEF ObservedStep
        <4>2. CASE panel' # panel
          <5>1. /\ panel.reading # 0 /\ panel.phase = "EDITING"
                /\ panel'.ctx = panel.ctx /\ panel'.reading = 0 /\ SameWork(panel, panel')
                /\ panel'.seen = panel'.ctx \/ panel'.seen = panel.seen
                /\ UNCHANGED <<nextOperation, nextEffect>>
            BY <1>1, <3>6, <4>2 DEF ObservedStep, Read, RunsShape, RunShape, PanelShape, Effects,
               EffectIds
          <5> QED
            BY <1>1, <1>2, <5>1 DEF SameWork, PanelShape, Busy
        <4> QED
          BY <4>1, <4>2
      <3> QED
        BY <2>2, <3>1, <3>2, <3>3, <3>4, <3>5, <3>6 DEF RunStep
    <2> QED
      BY <1>5, <2>1, <2>2 DEF EffectStep
  <1> QED
    BY <1>3, <1>4, <1>5 DEF Step

(* A scheduled effect keeps its shape when the panel still waits for it, or for none. *)
EffectShape(e) ==
  /\ e.id < nextEffect /\ e.ctx = panel.ctx
  /\ e.kind \in Carries => e.request \in Requests
  /\ e.kind = "EXECUTE" => page = panel.owner
  /\ runs[e.id].stage = "IDLE"
  /\ e.id = panel.effect =>
       e.request = panel.source /\ Fits(e.kind, panel.phase) /\ panel.phase # "SUBMITTING"

(* The panel waits for what it waited for, for nothing, or for an effect just drawn. *)
Waits ==
  \/ panel'.effect = panel.effect /\ panel'.source = panel.source /\ panel'.phase = panel.phase
  \/ panel'.effect = 0
  \/ panel'.effect = nextEffect

LEMMA EffectKept ==
  ASSUME Typed, NEW e \in Effects, EffectShape(e), Waits, panel'.ctx = panel.ctx,
         page' = page, panel'.owner = panel.owner, nextEffect' \in Nat, nextEffect' >= nextEffect,
         runs[e.id].stage = "IDLE" => runs'[e.id].stage = "IDLE"
  PROVE  EffectShape(e)'
  <1>1. e.id \in Nat /\ e.id >= 1 /\ nextEffect \in Nat
    BY DEF Effects, EffectIds, Typed
  <1> QED
    BY <1>1 DEF EffectShape, Waits

LEMMA EffectsShapeStep ==
  ASSUME Typed, Typed', Shape, Step
  PROVE  EffectsShape'
  <1>1. PanelShape /\ EffectsShape /\ RunsShape
    BY DEF Shape
  <1>2. /\ nextEffect \in Nat /\ nextEffect >= 1 /\ panel \in Panels /\ panel' \in Panels
        /\ panel.effects \subseteq Effects /\ panel'.effects \subseteq Effects
    BY NumbersTyped DEF Typed, Panels
  <1>3. \A e \in panel.effects : EffectShape(e)
    BY <1>1 DEF EffectsShape, EffectShape
  <1>4. SUFFICES \A e \in panel'.effects : EffectShape(e)'
    BY DEF EffectsShape, EffectShape
  <1>5. ASSUME Waits, panel'.ctx = panel.ctx, page' = page, panel'.owner = panel.owner,
               nextEffect' \in Nat, nextEffect' >= nextEffect,
               \A j \in EffectIds : runs[j].stage = "IDLE" => runs'[j].stage = "IDLE"
        PROVE  \A e \in panel.effects : EffectShape(e)'
    <2>1. \A e \in panel.effects : e.id \in EffectIds
      BY <1>2 DEF Effects
    <2> QED
      BY <1>2, <1>3, <1>5, <2>1, EffectKept
  <1>9. \A e \in Effects : e.id = nextEffect => runs[e.id].stage = "IDLE"
    BY <1>1, <1>2 DEF RunsShape, RunShape, Effects
  <1>6. CASE AuthorStep
    <2>1. CASE EditStep
      <3>1. Waits /\ panel'.effects = panel.effects
        BY <2>1 DEF EditStep, SameWork, Waits
      <3> QED
        BY <1>2, <1>5, <2>1, <3>1 DEF EditStep, SameFacts, outside
    <2>2. CASE IdleStep
      BY <1>2, <1>5, <2>2 DEF IdleStep, outside, Waits
    <2>3. CASE ReturnStep
      BY <1>2, <1>5, <2>3 DEF ReturnStep, SameFacts, outside, Waits
    <2>4. CASE DiscardStep
      BY <2>4 DEF DiscardStep, Emptied
    <2>5. ASSUME NEW e \in Effects, NEW phase \in Phases, BeginStep(e, phase)
          PROVE  \A f \in panel'.effects : EffectShape(f)'
      <3>1. /\ panel'.phase = phase /\ panel'.source = e.request /\ panel'.effect = nextEffect
            /\ panel'.ctx = panel.ctx /\ panel'.owner = panel.owner
            /\ panel'.effects = panel.effects \cup {e}
            /\ e.id = nextEffect /\ nextEffect' = nextEffect + 1 /\ e.ctx = panel.ctx
            /\ page' = page /\ page = panel.owner /\ e.request \in Requests /\ runs' = runs
            /\ phase \in {"PREVIEWING", "PREPARING", "UNRESOLVED"}
        BY <2>5 DEF BeginStep, Begins, SameFacts, outside
      <3>2. Fits(e.kind, phase)
        BY <2>5 DEF BeginStep, Fits
      <3>3. EffectShape(e)'
        BY <1>2, <1>9, <3>1, <3>2 DEF EffectShape
      <3>4. \A f \in panel.effects : EffectShape(f)'
        BY <1>2, <1>5, <3>1 DEF Waits
      <3> QED
        BY <3>1, <3>3, <3>4
    <2>6. ASSUME NEW e \in Effects, ReadStep(e)
          PROVE  \A f \in panel'.effects : EffectShape(f)'
      <3>1. /\ SameWork(panel, panel') /\ panel'.effect = 0
            /\ panel'.ctx = panel.ctx /\ panel'.owner = panel.owner
            /\ panel'.effects = panel.effects \cup {e} /\ e.kind \notin Carries
            /\ e.id = nextEffect /\ nextEffect' = nextEffect + 1 /\ e.ctx = panel.ctx
            /\ page' = page /\ runs' = runs
        BY <2>6 DEF ReadStep, ReadBegins, SameFacts, SameWork, AtRest, outside, Carries
      <3>2. EffectShape(e)'
        BY <1>2, <1>9, <3>1 DEF EffectShape, Carries, Effects, EffectIds
      <3>3. \A f \in panel.effects : EffectShape(f)'
        BY <1>2, <1>5, <3>1 DEF Waits
      <3> QED
        BY <3>1, <3>2, <3>3
    <2>7. ASSUME NEW e \in Effects, RebaseStep(e)
          PROVE  \A f \in panel'.effects : EffectShape(f)'
      <3>1. /\ panel'.effect = nextEffect /\ panel'.phase = "PREVIEWING"
            /\ panel'.ctx = panel.ctx /\ panel'.owner = panel.owner /\ panel'.source = e.request
            /\ panel'.effects = panel.effects \cup {e} /\ e.kind = "PREVIEW"
            /\ e.id = nextEffect /\ nextEffect' = nextEffect + 1 /\ e.ctx = panel.ctx
            /\ page' = page /\ e.request \in Requests /\ runs' = runs
        BY <2>7 DEF RebaseStep, SameFacts, outside
      <3>2. EffectShape(e)'
        BY <1>2, <1>9, <3>1 DEF EffectShape, Carries, Fits
      <3>3. \A f \in panel.effects : EffectShape(f)'
        BY <1>2, <1>5, <3>1 DEF Waits
      <3> QED
        BY <3>1, <3>2, <3>3
    <2> QED
      BY <1>6, <2>1, <2>2, <2>3, <2>4, <2>5, <2>6, <2>7 DEF AuthorStep
  <1>7. CASE AroundStep
    <2>1. CASE ContextStep \/ WithdrawStep \/ MountStep
      BY <2>1 DEF ContextStep, WithdrawStep, MountStep, Withdrawn, Emptied
    <2>2. CASE AccessStep
      BY <1>2, <1>5, <2>2 DEF AccessStep, SameWork, Waits, outside
    <2>3. CASE OtherAct \/ SettleElsewhere
      BY <1>2, <1>5, <2>3 DEF OtherAct, SettleElsewhere, Waits
    <2>4. ASSUME NEW m \in wire, NEW answer \in Answers, DecideStep(m, answer)
          PROVE  \A e \in panel'.effects : EffectShape(e)'
      BY <1>2, <1>5, <2>4 DEF DecideStep, Marked, Waits
    <2> QED
      BY <1>7, <2>1, <2>2, <2>3, <2>4 DEF AroundStep
  <1>8. CASE EffectStep
    <2>1. ASSUME NEW e \in Effects, NEW run, StartStep(e, run)
          PROVE  \A f \in panel'.effects : EffectShape(f)'
      <3>1. /\ Waits /\ panel'.effects = {f \in panel.effects : f.id # e.id}
            /\ panel'.ctx = panel.ctx /\ panel'.owner = panel.owner
            /\ UNCHANGED <<page, nextEffect>>
        BY <2>1 DEF StartStep, SameFacts, SameWork, Waits
      <3>2. ASSUME NEW f \in panel'.effects PROVE EffectShape(f)'
        <4>1. f \in panel.effects /\ f \in Effects /\ f.id # e.id /\ f.id \in EffectIds
          BY <1>2, <3>1 DEF Effects
        <4>2. runs'[f.id] = runs[f.id]
          BY <2>1, <4>1 DEF StartStep, Placed
        <4> QED
          BY <1>2, <1>3, <3>1, <4>1, <4>2, EffectKept
      <3> QED
        BY <3>2
    <2>2. ASSUME NEW i \in EffectIds, RunStep(i) PROVE \A e \in panel'.effects : EffectShape(e)'
      <3>0. \A j \in EffectIds : runs[j].stage = "IDLE" => runs'[j].stage = "IDLE"
        BY <2>2
        DEF RunStep, CommitRecord, FailRecord, SendStep, StopStep, LoseAnswer, CheckedStep,
            ForgetRecord, DeliverStep, PreviewedStep, ObservedStep, Marked, Placed, Idle
      <3>1. CASE CommitRecord(i) \/ FailRecord(i) \/ StopStep(i) \/ LoseAnswer(i) \/ ForgetRecord(i)
        BY <1>2, <1>5, <2>2, <3>1, <3>0
        DEF CommitRecord, FailRecord, StopStep, LoseAnswer, ForgetRecord, Waits, outside
      <3>2. ASSUME NEW answer, CheckedStep(i, answer) PROVE \A e \in panel'.effects : EffectShape(e)'
        BY <1>2, <1>5, <3>2 DEF CheckedStep, Marked, Waits, outside
      <3>3. CASE SendStep(i)
        <4>1. CASE panel' = panel
          BY <1>2, <1>5, <3>0, <3>3, <4>1 DEF SendStep, Waits
        <4>2. CASE panel' # panel
          <5>1. /\ panel.effect = runs[i].effect.id /\ panel.phase = "PREPARING"
                /\ panel'.effects = panel.effects /\ panel'.phase = "SUBMITTING"
                /\ panel'.effect = panel.effect /\ panel'.source = panel.source
                /\ SameFacts(panel, panel') /\ UNCHANGED <<page, nextEffect>>
            BY <3>3, <4>2 DEF SendStep, Completing
          <5>2. ASSUME NEW e \in panel.effects PROVE EffectShape(e)'
            <6>1. runs[i].effect.id = i /\ runs[i].stage # "IDLE"
              BY <1>1, <3>3 DEF SendStep, RunsShape, RunShape
            <6>2. e.id \in EffectIds
              BY <1>2 DEF Effects
            <6> QED
              BY <1>3, <3>0, <5>1, <6>1, <6>2 DEF EffectShape, SameFacts
          <5> QED
            BY <5>1, <5>2
        <4> QED
          BY <4>1, <4>2
      <3>4. ASSUME NEW answer, Took(panel, panel', runs[i].effect, answer),
                   runs[i].effect \in Effects, runs[i].effect.id < nextEffect,
                   UNCHANGED <<page, nextEffect>>, runs[i].effect.id = i, Placed(i, Idle)
            PROVE  \A e \in panel'.effects : EffectShape(e)'
        <4>1. /\ panel'.effect = 0 /\ panel'.ctx = panel.ctx /\ panel'.owner = panel.owner
              /\ runs[i].effect.ctx = panel.ctx
              /\ \A f \in panel'.effects : \/ f \in panel.effects
                                           \/ /\ f.id = runs[i].effect.id /\ f.ctx = runs[i].effect.ctx
                                              /\ f.kind \notin Carries
          BY <3>4 DEF Took, Leaves, Completing, Current
        <4>2. \A e \in panel.effects : EffectShape(e)'
          BY <1>2, <1>5, <3>0, <3>4, <4>1 DEF Waits
        <4>3. ASSUME NEW f \in panel'.effects, f \notin panel.effects PROVE EffectShape(f)'
          <5>1. f.id # 0
            BY <1>2 DEF Effects, EffectIds
          <5> QED
            BY <3>4, <4>1, <4>3, <5>1 DEF EffectShape, Carries, Placed, Idle
        <4> QED
          BY <4>2, <4>3
      <3>5. ASSUME runs[i].stage # "IDLE"
            PROVE  /\ runs[i].effect \in Effects /\ runs[i].effect.id < nextEffect
                   /\ runs[i].effect.id = i
        BY <1>1, <3>5 DEF RunsShape, RunShape
      <3>6. CASE DeliverStep(i)
        <4>1. CASE panel' = panel
          BY <1>2, <1>5, <3>0, <3>6, <4>1 DEF DeliverStep, Waits, outside
        <4>2. CASE panel' # panel
          BY <3>4, <3>5, <3>6, <4>2 DEF DeliverStep, outside
        <4> QED
          BY <4>1, <4>2
      <3>7. ASSUME NEW answer, PreviewedStep(i, answer) PROVE \A e \in panel'.effects : EffectShape(e)'
        <4>1. CASE panel' = panel
          BY <1>2, <1>5, <3>0, <3>7, <4>1 DEF PreviewedStep, Waits, outside
        <4>2. CASE panel' # panel
          BY <3>4, <3>5, <3>7, <4>2 DEF PreviewedStep, outside
        <4> QED
          BY <4>1, <4>2
      <3>8. ASSUME NEW answer, ObservedStep(i, answer) PROVE \A e \in panel'.effects : EffectShape(e)'
        <4>1. Waits /\ panel'.effects = panel.effects /\ panel'.ctx = panel.ctx
              /\ panel'.owner = panel.owner
          BY <3>8 DEF ObservedStep, Read, SameWork, Waits
        <4> QED
          BY <1>2, <1>5, <3>0, <3>8, <4>1 DEF ObservedStep, outside
      <3> QED
        BY <2>2, <3>1, <3>2, <3>3, <3>6, <3>7, <3>8 DEF RunStep
    <2> QED
      BY <1>8, <2>1, <2>2 DEF EffectStep
  <1> QED
    BY <1>6, <1>7, <1>8 DEF Step

LEMMA RunKept ==
  ASSUME Typed, NEW i \in EffectIds, RunShape(i), runs'[i] = runs[i], Waits,
         panel'.ctx = panel.ctx, nextEffect' \in Nat, nextEffect' >= nextEffect
  PROVE  RunShape(i)'
  <1>1. i \in Nat /\ i >= 1 /\ nextEffect \in Nat
    BY DEF EffectIds, Typed
  <1> QED
    BY <1>1 DEF RunShape, Waits

LEMMA RunMarked ==
  ASSUME Typed, NEW i \in EffectIds, RunShape(i), NEW stage, NEW answer, Marked(i, stage, answer),
         UNCHANGED <<panel, nextEffect>>, stage # "READING",
         stage \in {"PUTTING", "PUT", "SENT"} =>
           /\ runs[i].effect.kind = "EXECUTE" /\ answer \in {"NONE", "UNSENT"},
         stage \in {"PUTTING", "PUT"} => runs[i].stage \in {"PUTTING", "PUT"},
         stage \in {"ANSWERED", "CLEARED"} => runs[i].effect.kind \in {"EXECUTE", "CHECK_STATUS"},
         (panel.effect = i /\ (stage = "SENT" \/ answer = "RECORD")) => panel.phase # "PREPARING"
  PROVE  RunShape(i)'
  BY DEF RunShape, Marked

LEMMA RunsShapeStep ==
  ASSUME Typed, Typed', Shape, Step
  PROVE  RunsShape'
  <1>1. PanelShape /\ EffectsShape /\ RunsShape
    BY DEF Shape
  <1>2. /\ nextEffect \in Nat /\ nextEffect >= 1 /\ panel \in Panels /\ panel' \in Panels
        /\ panel.ctx \in Nat
    BY NumbersTyped DEF Typed
  <1>3. \A i \in EffectIds : runs[i].stage # "IDLE" => RunShape(i)
    BY <1>1 DEF RunsShape
  <1>4. SUFFICES \A i \in EffectIds : runs'[i].stage # "IDLE" => RunShape(i)'
    BY DEF RunsShape
  <1>5. ASSUME Waits, panel'.ctx = panel.ctx, nextEffect' \in Nat, nextEffect' >= nextEffect,
               NEW i \in EffectIds, runs'[i] = runs[i], runs[i].stage # "IDLE"
        PROVE  RunShape(i)'
    BY <1>3, <1>5, RunKept
  <1>6. CASE AuthorStep
    <2>1. Waits /\ panel'.ctx = panel.ctx
      BY <1>6 DEF AuthorStep, EditStep, IdleStep, ReturnStep, DiscardStep, BeginStep, Begins,
         ReadStep, ReadBegins, RebaseStep, Emptied, SameFacts, SameWork, Waits
    <2>2. nextEffect' \in Nat /\ nextEffect' >= nextEffect /\ runs' = runs
      BY <1>2, <1>6
      DEF AuthorStep, EditStep, IdleStep, ReturnStep, DiscardStep, BeginStep, ReadStep, RebaseStep
    <2> QED
      BY <1>5, <2>1, <2>2
  <1>7. CASE AroundStep
    <2>1. CASE ContextStep
      <3>1. panel'.effect = 0 /\ panel'.ctx = panel.ctx + 1 /\ nextEffect' = nextEffect
        BY <1>1, <2>1 DEF ContextStep, Withdrawn, PanelShape, Busy
      <3>2. ASSUME NEW i \in EffectIds, runs'[i].stage # "IDLE" PROVE RunShape(i)'
        <4>1. runs'[i] = runs[i] /\ runs[i].stage \notin {"IDLE", "READING"}
          BY <2>1, <3>2, AbortedRuns DEF ContextStep, Idle
        <4>2. RunShape(i) /\ i # 0 /\ runs[i].effect.ctx \in Nat
          BY <1>3, <4>1 DEF EffectIds, RunShape, Effects
        <4> QED
          BY <1>2, <3>1, <4>1, <4>2 DEF RunShape
      <3> QED
        BY <3>2
    <2>2. CASE WithdrawStep
      <3>1. panel'.effect = 0 /\ panel'.ctx = panel.ctx /\ UNCHANGED <<nextEffect, runs>>
        BY <1>1, <2>2 DEF WithdrawStep, Withdrawn, PanelShape, Busy
      <3> QED
        BY <1>2, <1>5, <3>1 DEF Waits
    <2>3. CASE AccessStep
      BY <1>2, <1>5, <2>3 DEF AccessStep, SameWork, Waits
    <2>4. CASE MountStep
      BY <2>4 DEF MountStep, Idle
    <2>5. CASE OtherAct \/ SettleElsewhere
      BY <1>2, <1>5, <2>5 DEF OtherAct, SettleElsewhere, Waits
    <2>6. ASSUME NEW m \in wire, NEW answer \in Answers, DecideStep(m, answer),
                 NEW i \in EffectIds, runs'[i].stage # "IDLE"
          PROVE  RunShape(i)'
      <3>1. UNCHANGED <<panel, nextEffect>> /\ m.id \in EffectIds
        BY <2>6 DEF DecideStep, Typed
      <3>2. CASE runs'[i] = runs[i]
        BY <1>2, <1>5, <2>6, <3>1, <3>2 DEF Waits
      <3>3. CASE runs'[i] # runs[i]
        <4>1. i = m.id /\ runs[i].stage = "SENT" /\ Marked(i, "ANSWERED", answer)
          BY <2>6, <3>1, <3>3 DEF DecideStep, Marked
        <4>2. RunShape(i)
          BY <1>3, <4>1
        <4>3. runs[i].effect.kind = "EXECUTE"
          BY <4>1, <4>2 DEF RunShape
        <4>4. panel.effect = i => panel.phase # "PREPARING"
          BY <4>1, <4>2 DEF RunShape
        <4> QED
          BY <3>1, <4>1, <4>2, <4>3, <4>4, RunMarked
      <3> QED
        BY <3>2, <3>3
    <2> QED
      BY <1>7, <2>1, <2>2, <2>3, <2>4, <2>5, <2>6 DEF AroundStep
  <1>8. CASE EffectStep
    <2>1. ASSUME NEW e \in Effects, NEW run, StartStep(e, run), NEW i \in EffectIds,
                 runs'[i].stage # "IDLE"
          PROVE  RunShape(i)'
      <3>1. /\ Waits /\ panel'.ctx = panel.ctx /\ nextEffect' = nextEffect
            /\ panel'.effect = panel.effect /\ panel'.phase = panel.phase
            /\ panel'.source = panel.source
        BY <2>1 DEF StartStep, SameFacts, SameWork, Waits
      <3>2. CASE i # e.id \/ (e.kind \notin Carries /\ run = runs[e.id])
        <4>1. runs'[i] = runs[i]
          BY <2>1, <3>2 DEF StartStep, Placed
        <4> QED
          BY <1>2, <1>5, <2>1, <3>1, <4>1
      <3>3. CASE i = e.id /\ ~(e.kind \notin Carries /\ run = runs[e.id])
        <4>1. /\ runs'[i] = run /\ run.effect = e
              /\ e.id < nextEffect /\ e.ctx = panel.ctx
              /\ e.kind \in Carries => e.request \in Requests
              /\ e.id = panel.effect =>
                   e.request = panel.source /\ Fits(e.kind, panel.phase) /\ panel.phase # "SUBMITTING"
          BY <1>1, <2>1, <3>3 DEF StartStep, Placed, EffectsShape
        <4>2. /\ run.stage \in {"PUTTING", "ANSWERED", "READING"}
              /\ run.stage \in {"PUTTING", "READING"} => run.answer \in {"NONE", "UNSENT"}
              /\ run.stage = "PUTTING" => e.kind = "EXECUTE" /\ run.record \in Records
              /\ run.stage = "ANSWERED" => e.kind \in {"EXECUTE", "CHECK_STATUS"}
              /\ run.stage = "READING" => e.kind # "EXECUTE"
              /\ run.answer # "RECORD"
          BY <2>1, <3>3 DEF StartStep
        <4>3. e.ctx <= panel.ctx
          BY <1>2, <4>1
        <4> QED
          BY <3>1, <3>3, <4>1, <4>2, <4>3 DEF RunShape
      <3> QED
        BY <3>2, <3>3
    <2>2. ASSUME NEW i \in EffectIds, RunStep(i), NEW j \in EffectIds, runs'[j].stage # "IDLE"
          PROVE  RunShape(j)'
      <3>1. nextEffect' = nextEffect
        BY <2>2
        DEF RunStep, CommitRecord, FailRecord, SendStep, StopStep, LoseAnswer, CheckedStep,
            ForgetRecord, DeliverStep, PreviewedStep, ObservedStep
      <3>2. runs[i].stage # "IDLE" => RunShape(i)
        BY <1>3
      <3>3. ASSUME NEW stage, NEW answer, Marked(i, stage, answer), panel' = panel,
                   runs[i].stage # "IDLE", i = j => RunShape(i)'
            PROVE  RunShape(j)'
        BY <1>2, <1>5, <2>2, <3>1, <3>3 DEF Marked, Waits
      <3>4. ASSUME CommitRecord(i), Marked(i, "PUT", runs[i].answer) PROVE RunShape(j)'
        <4>1. /\ runs[i].stage = "PUTTING" /\ panel' = panel /\ runs[i].effect.kind = "EXECUTE"
              /\ runs[i].answer \in {"NONE", "UNSENT"}
          BY <3>2, <3>4 DEF CommitRecord, RunShape
        <4>2. RunShape(i)'
          BY <3>1, <3>2, <3>4, <4>1, RunMarked
        <4> QED
          BY <3>3, <3>4, <4>1, <4>2
      <3>5. ASSUME FailRecord(i) \/ StopStep(i), Marked(i, "ANSWERED", runs[i].answer)
            PROVE  RunShape(j)'
        <4>1. /\ runs[i].stage \in {"PUTTING", "PUT"} /\ panel' = panel
              /\ runs[i].effect.kind = "EXECUTE" /\ runs[i].answer \in {"NONE", "UNSENT"}
          BY <3>2, <3>5 DEF FailRecord, StopStep, RunShape
        <4>2. RunShape(i)'
          BY <3>1, <3>2, <3>5, <4>1, RunMarked
        <4> QED
          BY <3>3, <3>5, <4>1, <4>2
      <3>6. ASSUME LoseAnswer(i), Marked(i, "ANSWERED", "UNCERTAIN") PROVE RunShape(j)'
        <4>1. /\ runs[i].stage = "SENT" /\ panel' = panel /\ runs[i].effect.kind = "EXECUTE"
          BY <3>2, <3>6 DEF LoseAnswer, RunShape
        <4>2. RunShape(i)'
          BY <3>1, <3>2, <3>6, <4>1, RunMarked
        <4> QED
          BY <3>3, <3>6, <4>1, <4>2
      <3>7. ASSUME NEW answer, CheckedStep(i, answer) PROVE RunShape(j)'
        <4>1. /\ runs[i].stage = "READING" /\ panel' = panel /\ runs[i].effect.kind = "CHECK_STATUS"
              /\ Marked(i, "ANSWERED", answer)
          BY <3>7 DEF CheckedStep
        <4>2. panel.effect = i => panel.phase = "UNRESOLVED"
          BY <3>2, <4>1 DEF RunShape, Fits
        <4>3. RunShape(i)'
          BY <3>1, <3>2, <4>1, <4>2, RunMarked
        <4> QED
          BY <3>3, <4>1, <4>3
      <3>8. ASSUME ForgetRecord(i), Marked(i, "CLEARED", runs[i].answer) PROVE RunShape(j)'
        <4>1. runs[i].stage = "ANSWERED" /\ panel' = panel
          BY <3>8 DEF ForgetRecord
        <4>2. /\ runs[i].effect.kind \in {"EXECUTE", "CHECK_STATUS"}
              /\ (panel.effect = i /\ runs[i].answer = "RECORD") => panel.phase # "PREPARING"
          BY <3>2, <4>1 DEF RunShape
        <4>3. RunShape(i)'
          BY <3>1, <3>2, <3>8, <4>1, <4>2, RunMarked
        <4> QED
          BY <3>3, <3>8, <4>1, <4>3
      <3>9. CASE SendStep(i)
        <4>1. /\ runs[i].stage = "PUT" /\ Marked(i, "SENT", runs[i].answer)
              /\ runs[i].effect.ctx = panel.ctx /\ RunShape(i)
          BY <3>2, <3>9 DEF SendStep, Current
        <4>2. runs[i].effect.kind = "EXECUTE" /\ runs[i].answer \in {"NONE", "UNSENT"}
              /\ runs[i].effect.id = i
          BY <4>1 DEF RunShape
        <4>3. CASE panel' = panel
          <5>1. panel.effect = i => panel.phase # "PREPARING"
            BY <3>9, <4>1, <4>2, <4>3 DEF SendStep, Completing, Busy, Current
          <5>2. RunShape(i)'
            BY <3>1, <4>1, <4>2, <4>3, <5>1, RunMarked
          <5> QED
            BY <3>3, <4>1, <4>3, <5>2
        <4>4. CASE panel' # panel
          <5>1. /\ panel.effect = i /\ panel'.effect = i /\ panel'.phase = "SUBMITTING"
                /\ panel'.source = panel.source /\ panel'.ctx = panel.ctx
            BY <3>9, <4>2, <4>4 DEF SendStep, Completing, SameFacts
          <5>2. CASE j = i
            BY <3>1, <4>1, <4>2, <5>1, <5>2 DEF RunShape, Marked, Fits
          <5>3. CASE j # i
            BY <1>3, <2>2, <3>1, <4>1, <5>1, <5>3 DEF RunShape, Marked
          <5> QED
            BY <5>2, <5>3
        <4> QED
          BY <4>3, <4>4
      <3>10. ASSUME Placed(i, Idle), panel' = panel \/ (panel'.effect = 0 /\ panel'.ctx = panel.ctx)
                    \/ (SameWork(panel, panel') /\ panel'.ctx = panel.ctx)
             PROVE  RunShape(j)'
        <4>1. Waits /\ panel'.ctx = panel.ctx
          BY <3>10 DEF Waits, SameWork
        <4>2. runs'[j] = runs[j]
          BY <2>2, <3>10 DEF Placed, Idle
        <4> QED
          BY <1>2, <1>5, <2>2, <3>1, <4>1, <4>2
      <3>11. CASE DeliverStep(i)
        BY <3>10, <3>11 DEF DeliverStep, Took, Leaves
      <3>12. ASSUME NEW answer, PreviewedStep(i, answer) PROVE RunShape(j)'
        BY <3>10, <3>12 DEF PreviewedStep, Took, Leaves
      <3>13. ASSUME NEW answer, ObservedStep(i, answer) PROVE RunShape(j)'
        BY <3>10, <3>13 DEF ObservedStep, Read
      <3> QED
        BY <2>2, <3>4, <3>5, <3>6, <3>7, <3>8, <3>9, <3>11, <3>12, <3>13 DEF RunStep, StopStep
    <2> QED
      BY <1>8, <2>1, <2>2 DEF EffectStep
  <1> QED
    BY <1>6, <1>7, <1>8 DEF Step

LEMMA TypedShapeStep ==
  ASSUME Typed, Shape, [Next]_vars
  PROVE  Step /\ Typed' /\ Shape'
  <1>1. PanelShape /\ EffectsShape /\ RunsShape
    BY DEF Shape
  <1>2. Step
    BY StepsHaveForms DEF Step, AuthorStep, AroundStep, QuietStep
  <1>3. Typed'
    BY <1>1, <1>2, TypedAuthor, TypedAround, TypedEffect DEF Step
  <1> QED
    BY <1>2, <1>3, PanelShapeStep, EffectsShapeStep, RunsShapeStep DEF Shape

----------------------------------------------------------------------------
(* What is shown rests on an answer asked for after the last refusal. *)
LEMMA FreshnessStep ==
  ASSUME Typed, Shape, Freshness, Step
  PROVE  Freshness'
  <1>1. PanelShape /\ RunsShape
    BY DEF Shape
  <1>2. /\ nextEffect \in Nat /\ nextEffect >= 1 /\ panel.effect \in Nat /\ panel.reading \in Nat
        /\ panel.ctx \in Nat /\ panel.seen \in Nat /\ proof \in Nat /\ barrier \in Nat
    BY NumbersTyped DEF Typed
  <1>3. ASSUME SameFacts(panel, panel'), UNCHANGED <<proof, barrier>>,
               panel'.effect \in {0, panel.effect, nextEffect},
               panel'.reading \in {0, panel.reading, nextEffect},
               nextEffect' \in Nat, nextEffect' >= nextEffect
        PROVE  Freshness'
    BY <1>2, <1>3 DEF Freshness, SameFacts
  <1>4. CASE AuthorStep
    <2>1. UNCHANGED <<proof, barrier>> /\ nextEffect' \in Nat /\ nextEffect' >= nextEffect
      BY <1>2, <1>4
      DEF AuthorStep, EditStep, IdleStep, ReturnStep, DiscardStep, BeginStep, ReadStep, RebaseStep,
          histories
    <2>2. SameFacts(panel, panel')
      BY <1>4
      DEF AuthorStep, EditStep, IdleStep, ReturnStep, DiscardStep, BeginStep, Begins, ReadStep,
          ReadBegins, RebaseStep, SameFacts
    <2>3. panel'.effect \in {0, panel.effect, nextEffect}
      BY <1>4
      DEF AuthorStep, EditStep, IdleStep, ReturnStep, DiscardStep, Emptied, BeginStep, Begins,
          ReadStep, ReadBegins, RebaseStep, SameWork
    <2>4. panel'.reading \in {0, panel.reading, nextEffect}
      BY <1>4
      DEF AuthorStep, EditStep, IdleStep, ReturnStep, DiscardStep, Emptied, BeginStep, Begins,
          ReadStep, ReadBegins, RebaseStep, SameReads
    <2> QED
      BY <1>3, <2>1, <2>2, <2>3, <2>4
  <1>5. CASE AroundStep
    <2>1. CASE ContextStep
      BY <1>1, <1>2, <2>1 DEF ContextStep, Withdrawn, PanelShape, Busy, Freshness
    <2>2. CASE WithdrawStep
      BY <1>1, <1>2, <2>2 DEF WithdrawStep, Withdrawn, PanelShape, Busy, Freshness
    <2>3. CASE AccessStep
      BY <1>2, <2>3 DEF AccessStep, SameWork, SameReads, Freshness
    <2>4. CASE MountStep
      BY <1>2, <2>4 DEF MountStep, Emptied, Freshness
    <2>5. CASE OtherAct \/ SettleElsewhere
      BY <1>2, <1>3, <2>5 DEF OtherAct, SettleElsewhere, ghosts, SameFacts
    <2>6. ASSUME NEW m \in wire, NEW answer \in Answers, DecideStep(m, answer) PROVE Freshness'
      BY <1>2, <1>3, <2>6 DEF DecideStep, SameFacts
    <2> QED
      BY <1>5, <2>1, <2>2, <2>3, <2>4, <2>5, <2>6 DEF AroundStep
  <1>6. CASE EffectStep
    <2>1. ASSUME NEW e \in Effects, NEW run, StartStep(e, run) PROVE Freshness'
      BY <1>2, <1>3, <2>1 DEF StartStep, SameReads, SameWork, histories
    <2>2. ASSUME NEW i \in EffectIds, RunStep(i) PROVE Freshness'
      <3>1. CASE CommitRecord(i) \/ FailRecord(i) \/ StopStep(i) \/ LoseAnswer(i) \/ ForgetRecord(i)
        BY <1>2, <1>3, <3>1
        DEF CommitRecord, FailRecord, StopStep, LoseAnswer, ForgetRecord, ghosts, histories, SameFacts
      <3>2. ASSUME NEW answer, CheckedStep(i, answer) PROVE Freshness'
        BY <1>2, <1>3, <3>2 DEF CheckedStep, SameFacts
      <3>3. CASE SendStep(i)
        BY <1>2, <1>3, <3>3 DEF SendStep, SameFacts, SameReads
      <3>4. ASSUME NEW answer, panel' = panel \/ Took(panel, panel', runs[i].effect, answer),
                   Witnessed(runs[i].effect, answer), nextEffect' = nextEffect,
                   runs[i].stage # "IDLE"
            PROVE  Freshness'
        <4>1. CASE panel' = panel
          BY <1>2, <1>3, <3>4, <4>1 DEF Witnessed, SameFacts
        <4>2. CASE panel' # panel
          <5> DEFINE e == runs[i].effect
          <5>1. /\ Took(panel, panel', e, answer) /\ e.id = panel.effect /\ panel.effect # 0
                /\ panel.reading = 0 /\ panel'.effect = 0
                /\ panel'.ctx = panel.ctx /\ panel'.reading \in {0, e.id}
            BY <1>1, <3>4, <4>2
            DEF Took, Leaves, Completing, PanelShape, Busy, RunsShape, RunShape, Effects, EffectIds
          <5>2. /\ proof' = IF answer \in {"RECORD", "REVIEWED", "OBSERVED"} THEN e.id ELSE proof
                /\ barrier' = IF answer = "DENIED" THEN nextEffect ELSE barrier
            BY <3>4, <4>2 DEF Witnessed
          <5> HIDE DEF e
          <5>3. panel.effect >= barrier /\ barrier <= nextEffect
            BY <5>1 DEF Freshness
          <5>4. CASE answer = "DENIED"
            <6>1. panel'.refused /\ panel'.reading = 0
              BY <5>1, <5>4 DEF Took
            <6> QED
              BY <1>2, <3>4, <5>1, <5>2, <5>4, <6>1 DEF Freshness
          <5>5. CASE answer \in {"RECORD", "REVIEWED", "OBSERVED"}
            BY <1>2, <3>4, <5>1, <5>2, <5>3, <5>5 DEF Freshness
          <5>6. CASE answer \notin {"DENIED", "RECORD", "REVIEWED", "OBSERVED"}
            <6>1. panel'.seen = panel.seen /\ (panel.refused => panel'.refused)
              BY <5>1, <5>6 DEF Took, SameFacts
            <6> QED
              BY <1>2, <3>4, <5>1, <5>2, <5>3, <5>6, <6>1 DEF Freshness
          <5> QED
            BY <5>4, <5>5, <5>6
        <4> QED
          BY <4>1, <4>2
      <3>5. CASE DeliverStep(i)
        BY <3>4, <3>5 DEF DeliverStep
      <3>6. ASSUME NEW answer, PreviewedStep(i, answer) PROVE Freshness'
        BY <3>4, <3>6 DEF PreviewedStep
      <3>7. ASSUME NEW answer \in ObservedAnswers, ObservedStep(i, answer) PROVE Freshness'
        <4>1. CASE panel' = panel
          BY <1>2, <1>3, <3>7, <4>1 DEF ObservedStep, Witnessed, SameFacts
        <4>2. CASE panel' # panel
          <5>1. /\ panel.reading = runs[i].effect.id /\ panel.reading # 0 /\ panel.effect = 0
                /\ panel'.reading = 0 /\ panel'.effect = 0 /\ panel'.ctx = panel.ctx
                /\ \/ answer = "OBSERVED"
                   \/ panel'.seen = panel.seen /\ panel'.refused = (panel.refused \/ answer = "DENIED")
                /\ nextEffect' = nextEffect
                /\ proof' = IF answer \in {"RECORD", "REVIEWED", "OBSERVED"}
                            THEN runs[i].effect.id ELSE proof
                /\ barrier' = IF answer = "DENIED" THEN nextEffect ELSE barrier
            BY <1>1, <3>7, <4>2
            DEF ObservedStep, Read, Witnessed, SameWork, RunsShape, RunShape, PanelShape, Busy,
                Effects, EffectIds
          <5>2. panel.reading >= barrier /\ barrier <= nextEffect
            BY <5>1 DEF Freshness
          <5>3. answer \in {"OBSERVED", "FAILED", "DENIED"}
            BY DEF ObservedAnswers
          <5>4. CASE answer = "OBSERVED"
            BY <1>2, <5>1, <5>2, <5>4 DEF Freshness
          <5>5. CASE answer # "OBSERVED"
            <6>1. (panel.refused => panel'.refused) /\ (answer = "DENIED" => panel'.refused)
              BY <5>1, <5>5
            <6> QED
              BY <1>2, <5>1, <5>2, <5>3, <5>5, <6>1 DEF Freshness
          <5> QED
            BY <5>4, <5>5
        <4> QED
          BY <4>1, <4>2
      <3> QED
        BY <2>2, <3>1, <3>2, <3>3, <3>5, <3>6, <3>7 DEF RunStep
    <2> QED
      BY <1>6, <2>1, <2>2 DEF EffectStep
  <1> QED
    BY <1>4, <1>5, <1>6 DEF Step

----------------------------------------------------------------------------
(* The frozen request and the draft's identity move together. *)
Moves ==
  /\ nextOperation' >= nextOperation
  /\ \/ panel'.source = panel.source /\ panel'.draft = panel.draft
     \/ /\ panel'.source = NoRequest /\ panel.source = NoRequest
        /\ panel'.draft.op = panel.draft.op
     \/ panel'.source = NoRequest /\ panel'.draft.op \in {0, nextOperation}
     \/ panel.source = NoRequest /\ panel'.source = panel.draft /\ panel'.source \in Requests
     \/ /\ panel'.source \in Requests /\ panel'.source.op = nextOperation
        /\ nextOperation' > nextOperation

LEMMA SourceMoves ==
  ASSUME Typed, Shape, Step
  PROVE  Moves
  <1>1. nextOperation \in Nat
    BY NumbersTyped
  <1>2. CASE AuthorStep
    <2>1. CASE EditStep \/ IdleStep \/ ReturnStep
      BY <1>1, <2>1 DEF EditStep, IdleStep, ReturnStep, SameWork, Moves
    <2>2. CASE DiscardStep
      BY <1>1, <2>2 DEF DiscardStep, Emptied, Moves
    <2>3. ASSUME NEW e \in Effects, NEW phase \in Phases, BeginStep(e, phase) PROVE Moves
      <3>1. /\ panel'.source = e.request /\ e.request \in Requests /\ panel'.draft = panel.draft
            /\ nextOperation' = nextOperation
            /\ e.request = IF panel.source = NoRequest THEN panel.draft ELSE panel.source
        BY <2>3 DEF BeginStep, Begins, NoRequest, Requests, Operations, Shape, PanelShape
      <3> QED
        BY <1>1, <3>1 DEF Moves
    <2>4. ASSUME NEW e \in Effects, ReadStep(e) PROVE Moves
      BY <1>1, <2>4 DEF ReadStep, ReadBegins, SameWork, Moves
    <2>5. ASSUME NEW e \in Effects, RebaseStep(e) PROVE Moves
      BY <1>1, <2>5 DEF RebaseStep, Moves
    <2> QED
      BY <1>2, <2>1, <2>2, <2>3, <2>4, <2>5 DEF AuthorStep
  <1>3. CASE AroundStep
    <2>1. CASE ContextStep \/ WithdrawStep
      BY <1>1, <2>1 DEF ContextStep, WithdrawStep, Withdrawn, Moves
    <2>2. CASE AccessStep
      BY <1>1, <2>2 DEF AccessStep, SameWork, Moves
    <2>3. CASE MountStep
      BY <1>1, <2>3 DEF MountStep, Emptied, Moves
    <2>4. CASE OtherAct \/ SettleElsewhere
      BY <1>1, <2>4 DEF OtherAct, SettleElsewhere, Moves
    <2>5. ASSUME NEW m \in wire, NEW answer \in Answers, DecideStep(m, answer) PROVE Moves
      BY <1>1, <2>5 DEF DecideStep, Moves
    <2> QED
      BY <1>3, <2>1, <2>2, <2>3, <2>4, <2>5 DEF AroundStep
  <1>4. CASE EffectStep
    <2>1. ASSUME NEW e \in Effects, NEW run, StartStep(e, run) PROVE Moves
      BY <1>1, <2>1 DEF StartStep, SameWork, Moves
    <2>2. ASSUME NEW i \in EffectIds, RunStep(i) PROVE Moves
      <3>1. CASE CommitRecord(i) \/ FailRecord(i) \/ StopStep(i) \/ LoseAnswer(i) \/ ForgetRecord(i)
        BY <1>1, <3>1 DEF CommitRecord, FailRecord, StopStep, LoseAnswer, ForgetRecord, Moves
      <3>2. ASSUME NEW answer, CheckedStep(i, answer) PROVE Moves
        BY <1>1, <3>2 DEF CheckedStep, Moves
      <3>3. CASE SendStep(i)
        BY <1>1, <3>3 DEF SendStep, Moves
      <3>4. ASSUME NEW answer, panel' = panel \/ Took(panel, panel', runs[i].effect, answer),
                   nextOperation' >= nextOperation
            PROVE  Moves
        <4>1. panel' # panel /\ answer # "NOT_ACCEPTED" =>
                panel'.source = panel.source /\ panel'.draft = panel.draft
          BY <3>4 DEF Took
        <4>2. panel' # panel /\ answer = "NOT_ACCEPTED" =>
                panel'.source = NoRequest /\ panel'.draft.op \in {0, nextOperation}
          BY <3>4 DEF Took, FreshOperation
        <4> QED
          BY <3>4, <4>1, <4>2 DEF Moves
      <3>5. CASE DeliverStep(i)
        BY <1>1, <3>4, <3>5 DEF DeliverStep
      <3>6. ASSUME NEW answer, PreviewedStep(i, answer) PROVE Moves
        BY <1>1, <3>4, <3>6 DEF PreviewedStep
      <3>7. ASSUME NEW answer, ObservedStep(i, answer) PROVE Moves
        BY <1>1, <3>7 DEF ObservedStep, Read, SameWork, Moves
      <3> QED
        BY <2>2, <3>1, <3>2, <3>3, <3>5, <3>6, <3>7 DEF RunStep
    <2> QED
      BY <1>4, <2>1, <2>2 DEF EffectStep
  <1> QED
    BY <1>2, <1>3, <1>4 DEF Step

(* A run in execution keeps its effect; it began as a scheduled effect. *)
RunsGo ==
  \A i \in EffectIds : runs'[i].stage # "IDLE" =>
    \/ runs[i].stage # "IDLE" /\ runs'[i].effect = runs[i].effect
    \/ runs'[i].effect \in panel.effects

LEMMA RunsMove ==
  ASSUME Typed, Step
  PROVE  RunsGo
  <1>1. CASE runs' = runs
    BY <1>1 DEF RunsGo
  <1>2. CASE AuthorStep
    BY <1>1, <1>2
    DEF AuthorStep, EditStep, IdleStep, ReturnStep, DiscardStep, BeginStep, ReadStep, RebaseStep
  <1>3. CASE AroundStep
    <2>1. CASE ContextStep
      BY <2>1, AbortedRuns DEF ContextStep, RunsGo, Idle
    <2>2. CASE MountStep
      BY <2>2 DEF MountStep, RunsGo, Idle
    <2>3. ASSUME NEW m \in wire, NEW answer \in Answers, DecideStep(m, answer) PROVE RunsGo
      <3>1. m.id \in EffectIds
        BY DEF Typed
      <3> QED
        BY <1>1, <2>3, <3>1 DEF DecideStep, Marked, RunsGo
    <2> QED
      BY <1>1, <1>3, <2>1, <2>2, <2>3
      DEF AroundStep, WithdrawStep, AccessStep, OtherAct, SettleElsewhere
  <1>4. CASE EffectStep
    <2>1. ASSUME NEW e \in Effects, NEW run, StartStep(e, run) PROVE RunsGo
      BY <2>1 DEF StartStep, Placed, RunsGo
    <2>2. ASSUME NEW i \in EffectIds, RunStep(i) PROVE RunsGo
      BY <2>2
      DEF RunStep, CommitRecord, FailRecord, SendStep, StopStep, LoseAnswer, CheckedStep,
          ForgetRecord, DeliverStep, PreviewedStep, ObservedStep, Marked, Placed, Idle, RunsGo
    <2> QED
      BY <1>4, <2>1, <2>2 DEF EffectStep
  <1> QED
    BY <1>2, <1>3, <1>4 DEF Step

(* A mutation is scheduled for the request the panel holds. *)
EffectsGo ==
  \A e \in panel'.effects : e.kind \in {"EXECUTE", "CHECK_STATUS"} =>
    \/ e \in panel.effects
    \/ /\ e.request = panel.source /\ panel'.source = panel.source /\ e.id = nextEffect
       /\ panel.effect = 0 /\ panel'.effect = e.id /\ page = panel.owner /\ e.ctx = panel.ctx
       /\ panel'.ctx = panel.ctx
       /\ \/ panel.phase = "UNRESOLVED" /\ panel'.phase = "UNRESOLVED"
          \/ e.kind = "EXECUTE" /\ panel.phase = "REVIEWING" /\ panel'.phase = "PREPARING"

LEMMA EffectsMove ==
  ASSUME Step
  PROVE  EffectsGo
  <1>1. CASE panel'.effects \subseteq panel.effects
    BY <1>1 DEF EffectsGo
  <1>2. CASE AuthorStep
    <2>1. CASE EditStep \/ IdleStep \/ ReturnStep \/ DiscardStep
      BY <1>1, <2>1 DEF EditStep, IdleStep, ReturnStep, DiscardStep, Emptied
    <2>2. ASSUME NEW e \in Effects, NEW phase \in Phases, BeginStep(e, phase) PROVE EffectsGo
      BY <2>2 DEF BeginStep, Begins, AtRest, SameFacts, EffectsGo
    <2>3. ASSUME NEW e \in Effects, ReadStep(e) \/ RebaseStep(e) PROVE EffectsGo
      BY <2>3 DEF ReadStep, ReadBegins, RebaseStep, EffectsGo
    <2> QED
      BY <1>2, <2>1, <2>2, <2>3 DEF AuthorStep
  <1>3. CASE AroundStep
    BY <1>1, <1>3
    DEF AroundStep, ContextStep, WithdrawStep, Withdrawn, AccessStep, MountStep, Emptied, OtherAct,
        SettleElsewhere, DecideStep
  <1>4. CASE EffectStep
    <2>1. ASSUME NEW e \in Effects, NEW run, StartStep(e, run) PROVE EffectsGo
      BY <1>1, <2>1 DEF StartStep
    <2>2. ASSUME NEW i \in EffectIds, RunStep(i) PROVE EffectsGo
      <3>1. ASSUME NEW e, NEW answer, Took(panel, panel', e, answer) PROVE EffectsGo
        BY <3>1 DEF Took, Leaves, Carries, EffectsGo
      <3> QED
        BY <1>1, <2>2, <3>1
        DEF RunStep, CommitRecord, FailRecord, SendStep, StopStep, LoseAnswer, CheckedStep,
            ForgetRecord, DeliverStep, PreviewedStep, ObservedStep, Read
    <2> QED
      BY <1>4, <2>1, <2>2 DEF EffectStep
  <1> QED
    BY <1>2, <1>3, <1>4 DEF Step

(* Only a dispatch sends. *)
LEMMA SentMoves ==
  ASSUME Step
  PROVE  sent' = sent \/ \E i \in EffectIds : SendStep(i)
  <1>1. CASE AuthorStep
    BY <1>1
    DEF AuthorStep, EditStep, IdleStep, ReturnStep, DiscardStep, BeginStep, ReadStep, RebaseStep,
        histories
  <1>2. CASE AroundStep
    BY <1>2
    DEF AroundStep, ContextStep, WithdrawStep, AccessStep, MountStep, OtherAct, SettleElsewhere,
        DecideStep, ghosts
  <1>3. CASE EffectStep
    <2>1. ASSUME NEW e \in Effects, NEW run, StartStep(e, run) PROVE sent' = sent
      BY <2>1 DEF StartStep, histories
    <2>2. ASSUME NEW i \in EffectIds, RunStep(i), ~SendStep(i) PROVE sent' = sent
      BY <2>2
      DEF RunStep, CommitRecord, FailRecord, StopStep, LoseAnswer, CheckedStep, ForgetRecord,
          DeliverStep, PreviewedStep, ObservedStep, ghosts, histories
    <2> QED
      BY <1>3, <2>1, <2>2 DEF EffectStep
  <1> QED
    BY <1>1, <1>2, <1>3 DEF Step

(* Nothing but the request the panel holds comes to life, and only what is live is sent. *)
LEMMA LiveGrows ==
  ASSUME Typed, Typed', Shape, Step
  PROVE  Live' \subseteq Live \cup {panel'.source}
  <1>1. RunsGo /\ EffectsGo
    BY RunsMove, EffectsMove
  <1>2. SUFFICES ASSUME NEW p \in Requests,
                        \/ p = panel'.source
                        \/ \E e \in panel'.effects : e.kind = "EXECUTE" /\ e.request = p
                        \/ \E i \in EffectIds : /\ runs'[i].stage # "IDLE"
                                                /\ runs'[i].effect.kind = "EXECUTE"
                                                /\ runs'[i].effect.request = p
                 PROVE  p \in Live \cup {panel'.source}
    BY DEF Live
  <1>3. ASSUME NEW e \in panel.effects, e.kind = "EXECUTE", e.request = p PROVE p \in Live
    BY <1>3 DEF Live
  <1>4. ASSUME NEW e \in panel'.effects, e.kind = "EXECUTE", e.request = p
        PROVE  p \in Live \cup {panel'.source}
    BY <1>1, <1>3, <1>4 DEF EffectsGo
  <1>5. ASSUME NEW i \in EffectIds, runs'[i].stage # "IDLE", runs'[i].effect.kind = "EXECUTE",
               runs'[i].effect.request = p
        PROVE  p \in Live
    <2>1. CASE runs[i].stage # "IDLE" /\ runs'[i].effect = runs[i].effect
      BY <1>5, <2>1 DEF Live
    <2>2. CASE runs'[i].effect \in panel.effects
      BY <1>3, <1>5, <2>2
    <2> QED
      BY <1>1, <1>5, <2>1, <2>2 DEF RunsGo
  <1> QED
    BY <1>2, <1>4, <1>5

LEMMA SendsLive ==
  ASSUME Typed, Shape, NEW i \in EffectIds, SendStep(i)
  PROVE  runs[i].effect.request \in Live
  <1>1. /\ runs[i].stage = "PUT" /\ runs[i].effect.kind = "EXECUTE"
        /\ runs[i].effect.request \in Requests
    BY DEF SendStep, Shape, RunsShape, RunShape, Carries
  <1> QED
    BY <1>1 DEF Live

LEMMA ExposedGrows ==
  ASSUME Typed, Typed', Shape, Step
  PROVE  Exposed' \subseteq Exposed \cup {panel'.source}
  <1>1. Live' \subseteq Live \cup {panel'.source}
    BY LiveGrows
  <1>2. {m.request : m \in sent'} \subseteq {m.request : m \in sent} \cup Live
    <2>1. CASE sent' = sent
      BY <2>1
    <2>2. ASSUME NEW i \in EffectIds, SendStep(i)
          PROVE  {m.request : m \in sent'} \subseteq {m.request : m \in sent} \cup Live
      <3>1. runs[i].effect.request \in Live
        BY <2>2, SendsLive
      <3>2. \A m \in sent' : m \in sent \/ m.request = runs[i].effect.request
        BY <2>2 DEF SendStep
      <3> QED
        BY <3>1, <3>2
    <2> QED
      BY <2>1, <2>2, SentMoves
  <1> QED
    BY <1>1, <1>2 DEF Exposed

LEMMA IdentitiesStep ==
  ASSUME Typed, Typed', Shape, Identities, Step
  PROVE  Identities'
  <1>1. Exposed' \subseteq Exposed \cup {panel'.source}
    BY ExposedGrows
  <1>2. Moves
    BY SourceMoves
  <1>3. /\ \A p, q \in Exposed : p.op = q.op => p = q
        /\ \A p \in Exposed : p.op < nextOperation
        /\ panel.source = NoRequest => \A p \in Exposed : p.op # panel.draft.op
    BY DEF Identities
  <1>4. /\ nextOperation \in Nat /\ nextOperation' \in Nat /\ nextOperation' >= nextOperation
        /\ panel.draft.op \in Nat /\ panel.draft.op < nextOperation
    BY <1>2, NumbersTyped DEF Moves, Shape, PanelShape, Typed
  <1>5. \A p \in Exposed' : p \in Requests /\ p.op \in Nat /\ p.op >= 1
    <2>1. Exposed' \subseteq Requests
      BY DEF Exposed, Live, Typed
    <2> QED
      BY <2>1 DEF Requests, Operations
  <1>6. panel.source \in Requests => panel.source \in Exposed
    BY DEF Exposed, Live
  <1>7. NoRequest \notin Requests /\ panel'.source \in Sources
    BY DEF NoRequest, Requests, Operations, Typed, Panels
  <1>8. Exposed \subseteq Requests
    BY DEF Exposed, Live, Typed
  <1>9. CASE panel'.source \in Exposed \/ panel'.source = NoRequest
    <2>1. Exposed' \subseteq Exposed
      BY <1>1, <1>5, <1>7, <1>9
    <2>2. panel'.source = NoRequest => \A p \in Exposed' : p.op # panel'.draft.op
      BY <1>2, <1>3, <1>4, <1>5, <1>7, <2>1 DEF Moves
    <2> QED
      BY <1>3, <1>4, <1>5, <2>1, <2>2 DEF Identities
  <1>10. CASE panel'.source \notin Exposed /\ panel'.source # NoRequest
    <2>1. /\ \A p \in Exposed : p.op # panel'.source.op
          /\ panel'.source.op < nextOperation'
      BY <1>2, <1>3, <1>4, <1>6, <1>7, <1>8, <1>10 DEF Moves, Sources, Typed, Panels
    <2> QED
      BY <1>1, <1>3, <1>4, <1>5, <1>10, <2>1 DEF Identities
  <1> QED
    BY <1>9, <1>10

----------------------------------------------------------------------------
(* No run takes up the identity of a dispatch that is under way. *)
LEMMA WiredStep ==
  ASSUME Typed, Shape, Wired, Step
  PROVE  Wired'
  <1>1. PanelShape /\ EffectsShape /\ RunsShape
    BY DEF Shape
  <1>2. nextEffect \in Nat /\ \A m \in wire : m.id \in EffectIds /\ m.id \in Nat
    BY NumbersTyped DEF Typed, EffectIds
  <1>3. EffectsGo
    BY EffectsMove
  <1>4. ASSUME nextEffect' \in Nat, nextEffect' >= nextEffect, NEW m \in wire,
               runs'[m.id].stage \in {"PUTTING", "PUT"} => runs[m.id].stage \in {"PUTTING", "PUT"},
               runs'[m.id].stage = "SENT" =>
                 runs[m.id].stage \in {"PUTTING", "PUT", "SENT"}
                 /\ runs'[m.id].effect = runs[m.id].effect
        PROVE  /\ m.id < nextEffect'
               /\ runs'[m.id].stage \notin {"PUTTING", "PUT"}
               /\ runs'[m.id].stage = "SENT" => runs'[m.id].effect.request = m.request
               /\ \A e \in panel'.effects : e.kind = "EXECUTE" => e.id # m.id
    BY <1>2, <1>3, <1>4 DEF Wired, EffectsGo
  <1>5. CASE AuthorStep
    <2>1. runs' = runs /\ wire' = wire /\ nextEffect' \in Nat /\ nextEffect' >= nextEffect
      BY <1>2, <1>5
      DEF AuthorStep, EditStep, IdleStep, ReturnStep, DiscardStep, BeginStep, ReadStep, RebaseStep,
          outside
    <2> QED
      BY <1>4, <2>1 DEF Wired
  <1>6. CASE AroundStep
    <2>1. CASE ContextStep
      BY <1>2, <1>4, <2>1, AbortedRuns DEF ContextStep, Idle, Wired
    <2>2. CASE MountStep
      BY <1>2, <1>4, <2>2 DEF MountStep, Idle, Wired
    <2>3. CASE WithdrawStep \/ AccessStep \/ OtherAct \/ SettleElsewhere
      BY <1>2, <1>4, <2>3 DEF WithdrawStep, AccessStep, OtherAct, SettleElsewhere, outside, Wired
    <2>4. ASSUME NEW n \in wire, NEW answer \in Answers, DecideStep(n, answer) PROVE Wired'
      <3>1. \A m \in wire : m.id # n.id => runs'[m.id] = runs[m.id]
        BY <1>2, <2>4 DEF DecideStep, Marked
      <3>2. runs'[n.id] = runs[n.id] \/ runs'[n.id].stage = "ANSWERED"
        BY <2>4 DEF DecideStep, Marked
      <3>3. wire' \subseteq wire /\ nextEffect' = nextEffect
        BY <2>4 DEF DecideStep
      <3>4. ASSUME NEW m \in wire
            PROVE  runs'[m.id] = runs[m.id] \/ runs'[m.id].stage = "ANSWERED"
        BY <3>1, <3>2
      <3> QED
        BY <1>2, <1>4, <3>3, <3>4 DEF Wired
    <2> QED
      BY <1>6, <2>1, <2>2, <2>3, <2>4 DEF AroundStep
  <1>7. CASE EffectStep
    <2>1. ASSUME NEW e \in Effects, NEW run, StartStep(e, run) PROVE Wired'
      <3>1. wire' = wire /\ nextEffect' = nextEffect
        BY <2>1 DEF StartStep
      <3>2. ASSUME NEW m \in wire, m.id # e.id PROVE runs'[m.id] = runs[m.id]
        BY <1>2, <2>1, <3>2 DEF StartStep, Placed
      <3>3. ASSUME NEW m \in wire, m.id = e.id
            PROVE  runs'[m.id].stage \notin {"PUTTING", "PUT", "SENT"} \/ runs'[m.id] = runs[m.id]
        <4>1. e.kind # "EXECUTE"
          BY <2>1, <3>3 DEF StartStep, Wired
        <4> QED
          BY <2>1, <3>3, <4>1 DEF StartStep, Placed
      <3> QED
        BY <1>2, <1>4, <3>1, <3>2, <3>3 DEF Wired
    <2>2. ASSUME NEW i \in EffectIds, RunStep(i), ~SendStep(i) PROVE Wired'
      <3>1. wire' = wire /\ nextEffect' = nextEffect
        BY <2>2
        DEF RunStep, CommitRecord, FailRecord, StopStep, LoseAnswer, CheckedStep, ForgetRecord,
            DeliverStep, PreviewedStep, ObservedStep, outside
      <3>2. ASSUME NEW m \in wire, m.id # i PROVE runs'[m.id] = runs[m.id]
        BY <1>2, <2>2, <3>2
        DEF RunStep, StopStep, CheckedStep, DeliverStep, PreviewedStep, ObservedStep, Marked, Placed
      <3>3. \/ runs'[i].stage \notin {"PUTTING", "PUT", "SENT"}
            \/ runs'[i].stage = "PUT" /\ runs[i].stage = "PUTTING"
        BY <2>2
        DEF RunStep, CommitRecord, StopStep, CheckedStep, DeliverStep, PreviewedStep, ObservedStep,
            Marked, Placed, Idle
      <3> QED
        BY <1>2, <1>4, <3>1, <3>2, <3>3 DEF Wired
    <2>3. ASSUME NEW i \in EffectIds, SendStep(i) PROVE Wired'
      <3>1. /\ nextEffect' = nextEffect /\ wire' = wire \cup {[id |-> i, request |-> runs[i].effect.request]}
            /\ runs[i].stage = "PUT" /\ runs'[i].stage = "SENT" /\ runs'[i].effect = runs[i].effect
            /\ \A j \in EffectIds : j # i => runs'[j] = runs[j]
        BY <2>3 DEF SendStep, Marked
      <3>2. ASSUME NEW m \in wire
            PROVE  /\ m.id < nextEffect'
                   /\ runs'[m.id].stage \notin {"PUTTING", "PUT"}
                   /\ runs'[m.id].stage = "SENT" => runs'[m.id].effect.request = m.request
                   /\ \A e \in panel'.effects : e.kind = "EXECUTE" => e.id # m.id
        <4>1. m.id # i
          BY <3>1 DEF Wired
        <4> QED
          BY <1>2, <1>4, <3>1, <4>1
      <3>3. i < nextEffect
        BY <1>1, <3>1 DEF RunsShape, RunShape
      <3>4. \A e \in panel'.effects : e.kind = "EXECUTE" => e.id # i
        BY <1>1, <1>2, <1>3, <3>1, <3>3 DEF EffectsShape, EffectsGo
      <3>5. ASSUME NEW m \in wire', m \notin wire
            PROVE  m.id = i /\ m.request = runs[i].effect.request
        BY <3>1, <3>5
      <3> QED
        BY <3>1, <3>2, <3>3, <3>4, <3>5 DEF Wired
    <2> QED
      BY <1>7, <2>1, <2>2, <2>3 DEF EffectStep
  <1> QED
    BY <1>5, <1>6, <1>7 DEF Step

----------------------------------------------------------------------------
(* A fate is final, and the journal drops a record only when its fate is known. *)
LedgerGoes == \A op \in Operations : ledger[op] # "NONE" => ledger'[op] = ledger[op]
JournalGoes == \A r \in journal : r \in journal' \/ ledger'[r.op] # "NONE"

LEMMA LedgerMoves ==
  ASSUME Typed, Step
  PROVE  LedgerGoes
  <1>1. ledger' = ledger => LedgerGoes
    BY DEF LedgerGoes
  <1>2. CASE AuthorStep
    BY <1>1, <1>2
    DEF AuthorStep, EditStep, IdleStep, ReturnStep, DiscardStep, BeginStep, ReadStep, RebaseStep,
        outside
  <1>3. CASE AroundStep
    <2>1. CASE SettleElsewhere
      BY <2>1 DEF SettleElsewhere, LedgerGoes, Typed
    <2>2. ASSUME NEW m \in wire, NEW answer \in Answers, DecideStep(m, answer) PROVE LedgerGoes
      BY <2>2 DEF DecideStep, LedgerGoes, Typed
    <2> QED
      BY <1>1, <1>3, <2>1, <2>2
      DEF AroundStep, ContextStep, WithdrawStep, AccessStep, MountStep, OtherAct, outside
  <1>4. CASE EffectStep
    <2>1. ASSUME NEW e \in Effects, NEW run, StartStep(e, run) PROVE LedgerGoes
      BY <1>1, <2>1 DEF StartStep
    <2>2. ASSUME NEW i \in EffectIds, RunStep(i) PROVE LedgerGoes
      BY <1>1, <2>2
      DEF RunStep, CommitRecord, FailRecord, SendStep, StopStep, LoseAnswer, CheckedStep,
          ForgetRecord, DeliverStep, PreviewedStep, ObservedStep, service, outside
    <2> QED
      BY <1>4, <2>1, <2>2 DEF EffectStep
  <1> QED
    BY <1>2, <1>3, <1>4 DEF Step

LEMMA JournalMoves ==
  ASSUME Typed, Shape, Attempts, Step
  PROVE  JournalGoes
  <1>1. journal \subseteq journal' => JournalGoes
    BY DEF JournalGoes
  <1>2. CASE AuthorStep
    BY <1>1, <1>2
    DEF AuthorStep, EditStep, IdleStep, ReturnStep, DiscardStep, BeginStep, ReadStep, RebaseStep,
        outside
  <1>3. CASE AroundStep
    <2>1. CASE SettleElsewhere
      <3>1. PICK r \in journal : /\ ledger' = [ledger EXCEPT ![r.op] = "FENCED"]
                                 /\ journal' \in {journal, journal \ {r}}
        BY <2>1 DEF SettleElsewhere
      <3>2. r.op \in Operations
        BY DEF Typed, Records
      <3>3. ledger'[r.op] = "FENCED"
        BY <3>1, <3>2 DEF Typed
      <3> QED
        BY <3>1, <3>3 DEF JournalGoes
    <2>2. ASSUME NEW m \in wire, NEW answer \in Answers, DecideStep(m, answer) PROVE JournalGoes
      BY <1>1, <2>2 DEF DecideStep
    <2> QED
      BY <1>1, <1>3, <2>1, <2>2
      DEF AroundStep, ContextStep, WithdrawStep, AccessStep, MountStep, OtherAct, outside
  <1>4. CASE EffectStep
    <2>1. ASSUME NEW e \in Effects, NEW run, StartStep(e, run) PROVE JournalGoes
      BY <1>1, <2>1 DEF StartStep
    <2>2. ASSUME NEW i \in EffectIds, ForgetRecord(i) PROVE JournalGoes
      <3>1. /\ runs[i].stage = "ANSWERED" /\ runs[i].answer \in {"RECORD", "NOT_ACCEPTED"}
            /\ journal' \in {journal, journal \ {runs[i].record}} /\ ledger' = ledger
        BY <2>2 DEF ForgetRecord, Final, service
      <3>2. RunShape(i) /\ Attempted(i) /\ AnswersAreFinal(i)
        BY <3>1 DEF Attempts, Shape, RunsShape
      <3>3. runs[i].record.op = runs[i].effect.request.op
        BY <3>1, <3>2 DEF RunShape, Attempted
      <3>4. ledger[runs[i].record.op] # "NONE"
        BY <3>1, <3>2, <3>3 DEF AnswersAreFinal
      <3> QED
        BY <3>1, <3>4 DEF JournalGoes
    <2>3. ASSUME NEW i \in EffectIds, RunStep(i) PROVE JournalGoes
      BY <1>1, <2>2, <2>3
      DEF RunStep, CommitRecord, FailRecord, SendStep, StopStep, LoseAnswer, CheckedStep,
          DeliverStep, PreviewedStep, ObservedStep, outside
    <2> QED
      BY <1>4, <2>1, <2>3 DEF EffectStep
  <1> QED
    BY <1>2, <1>3, <1>4 DEF Step

----------------------------------------------------------------------------
(* Attempts: a run's record, its journal entry and its answer. *)
LEMMA AttemptKept ==
  ASSUME Typed, NEW i \in EffectIds, RunShape(i), Attempted(i), AnswersAreFinal(i),
         runs[i].stage # "IDLE", LedgerGoes, JournalGoes, attempts \subseteq attempts',
         runs'[i].effect = runs[i].effect, runs'[i].record = runs[i].record,
         runs[i].effect.ctx = panel'.ctx => panel'.ctx = panel.ctx /\ page' = page,
         runs'[i].stage \in {"PUTTING", "PUT"} => runs[i].stage \in {"PUTTING", "PUT"},
         runs'[i].stage = "PUT" => runs[i].stage = "PUT" \/ runs[i].record \in journal',
         \/ runs'[i].answer = runs[i].answer
         \/ /\ runs[i].answer # "UNAVAILABLE"
            /\ runs'[i].answer = "RECORD" => ledger'[runs[i].effect.request.op] = "ACCEPTED"
            /\ runs'[i].answer = "NOT_ACCEPTED" => ledger'[runs[i].effect.request.op] = "FENCED"
  PROVE  Attempted(i)' /\ AnswersAreFinal(i)'
  <1>1. Attempted(i)'
    <2>1. runs'[i].stage \in {"PUTTING", "PUT"} =>
            /\ runs'[i].record \in attempts'
            /\ runs'[i].effect.ctx = panel'.ctx => runs'[i].record.actor = page'
      BY DEF Attempted
    <2>2. (runs'[i].effect.kind \in {"EXECUTE", "CHECK_STATUS"} /\ runs'[i].answer # "UNAVAILABLE") =>
            runs'[i].record.op = runs'[i].effect.request.op
      BY DEF Attempted
    <2>3. runs'[i].stage = "PUT" =>
            runs'[i].record \in journal' \/ ledger'[runs'[i].record.op] # "NONE"
      <3>1. SUFFICES ASSUME runs[i].stage = "PUT", runs[i].record \notin journal'
                     PROVE  ledger'[runs[i].record.op] # "NONE"
        OBVIOUS
      <3>2. runs[i].record.op \in Operations
        BY <3>1 DEF RunShape, Records
      <3> QED
        BY <3>1, <3>2 DEF Attempted, JournalGoes, LedgerGoes
    <2> QED
      BY <2>1, <2>2, <2>3 DEF Attempted
  <1>2. AnswersAreFinal(i)'
    <2>1. runs[i].answer \in {"RECORD", "NOT_ACCEPTED"} => runs[i].effect.request.op \in Operations
      <3>1. runs[i].answer \in {"RECORD", "NOT_ACCEPTED"} =>
              runs[i].effect.kind \in {"EXECUTE", "CHECK_STATUS"}
        BY DEF RunShape, Typed, Runs, Stages
      <3> QED
        BY <3>1 DEF RunShape, Carries, Requests
    <2> QED
      BY <2>1 DEF AnswersAreFinal, LedgerGoes
  <1> QED
    BY <1>1, <1>2

LEMMA AttemptsMove ==
  ASSUME Step
  PROVE  attempts \subseteq attempts' \/ MountStep
  <1>1. CASE AuthorStep
    BY <1>1
    DEF AuthorStep, EditStep, IdleStep, ReturnStep, DiscardStep, BeginStep, ReadStep, RebaseStep,
        outside
  <1>2. CASE AroundStep
    BY <1>2
    DEF AroundStep, ContextStep, WithdrawStep, AccessStep, OtherAct, SettleElsewhere, DecideStep,
        outside
  <1>3. CASE EffectStep
    <2>1. ASSUME NEW e \in Effects, NEW run, StartStep(e, run) PROVE attempts \subseteq attempts'
      BY <2>1 DEF StartStep
    <2>2. ASSUME NEW i \in EffectIds, RunStep(i) PROVE attempts \subseteq attempts'
      BY <2>2
      DEF RunStep, CommitRecord, FailRecord, SendStep, StopStep, LoseAnswer, CheckedStep,
          ForgetRecord, DeliverStep, PreviewedStep, ObservedStep, outside
    <2> QED
      BY <1>3, <2>1, <2>2 DEF EffectStep
  <1> QED
    BY <1>1, <1>2, <1>3 DEF Step

AttemptedRuns == \A i \in EffectIds : runs[i].stage # "IDLE" => Attempted(i) /\ AnswersAreFinal(i)

LEMMA AttemptedRunsStep ==
  ASSUME Typed, Shape, Wired, Attempts, Step
  PROVE  AttemptedRuns'
  <1>1. LedgerGoes /\ JournalGoes
    BY LedgerMoves, JournalMoves
  <1>2. \A i \in EffectIds : runs[i].stage # "IDLE" => RunShape(i) /\ Attempted(i) /\ AnswersAreFinal(i)
    BY DEF Shape, RunsShape, Attempts
  <1>3. panel.ctx \in Nat /\ EffectsShape
    BY NumbersTyped DEF Shape
  <1>4. ASSUME attempts \subseteq attempts', page' = page, panel'.ctx = panel.ctx,
               NEW i \in EffectIds, runs'[i] = runs[i], runs'[i].stage # "IDLE"
        PROVE  Attempted(i)' /\ AnswersAreFinal(i)'
    BY <1>1, <1>2, <1>4, AttemptKept
  <1>5. CASE AuthorStep
    <2>1. runs' = runs /\ attempts' = attempts /\ page' = page
      BY <1>5
      DEF AuthorStep, EditStep, IdleStep, ReturnStep, DiscardStep, BeginStep, ReadStep, RebaseStep,
          outside
    <2>2. panel'.ctx = panel.ctx
      BY <1>5
      DEF AuthorStep, EditStep, IdleStep, ReturnStep, DiscardStep, BeginStep, Begins, ReadStep,
          ReadBegins, RebaseStep, SameFacts
    <2> QED
      BY <1>4, <2>1, <2>2 DEF AttemptedRuns
  <1>6. CASE AroundStep
    <2>1. CASE ContextStep
      <3>1. ASSUME NEW i \in EffectIds, runs'[i].stage # "IDLE"
            PROVE  Attempted(i)' /\ AnswersAreFinal(i)'
        <4>1. runs'[i] = runs[i] /\ runs[i].stage # "IDLE"
          BY <2>1, <3>1, AbortedRuns DEF ContextStep, Idle
        <4>2. runs[i].effect.ctx # panel'.ctx
          <5>1. runs[i].effect.ctx <= panel.ctx /\ panel'.ctx = panel.ctx + 1
            BY <1>2, <2>1, <4>1 DEF ContextStep, RunShape
          <5>2. runs[i].effect.ctx \in Nat
            BY <1>2, <4>1 DEF RunShape, Effects
          <5> QED
            BY <1>3, <5>1, <5>2
        <4>3. attempts' = attempts
          BY <2>1 DEF ContextStep
        <4> QED
          BY <1>1, <1>2, <4>1, <4>2, <4>3, AttemptKept
      <3> QED
        BY <3>1 DEF AttemptedRuns
    <2>2. CASE MountStep
      BY <2>2 DEF MountStep, Idle, AttemptedRuns
    <2>3. CASE WithdrawStep \/ AccessStep \/ OtherAct \/ SettleElsewhere
      BY <1>4, <2>3 DEF WithdrawStep, AccessStep, OtherAct, SettleElsewhere, outside, AttemptedRuns
    <2>4. ASSUME NEW m \in wire, NEW answer \in Answers, DecideStep(m, answer),
                 NEW i \in EffectIds, runs'[i].stage # "IDLE"
          PROVE  Attempted(i)' /\ AnswersAreFinal(i)'
      <3>1. /\ UNCHANGED <<panel, page, attempts>> /\ m.id \in EffectIds
            /\ m.request.op \in Operations
        BY <2>4 DEF DecideStep, Typed, Requests
      <3>2. CASE runs'[i] = runs[i]
        BY <1>4, <2>4, <3>1, <3>2
      <3>3. CASE runs'[i] # runs[i]
        <4>1. i = m.id /\ runs[i].stage = "SENT" /\ Marked(i, "ANSWERED", answer)
          BY <2>4, <3>1, <3>3 DEF DecideStep, Marked
        <4>2. runs[i].effect.request = m.request
          BY <4>1 DEF Wired
        <4>3. answer # "NOT_ACCEPTED" /\ (answer = "RECORD" => ledger'[m.request.op] = "ACCEPTED")
          BY <2>4, <3>1 DEF DecideStep, Typed
        <4>4. runs[i].answer # "UNAVAILABLE"
          BY <1>2, <4>1 DEF RunShape
        <4> QED
          BY <1>1, <1>2, <3>1, <4>1, <4>2, <4>3, <4>4, AttemptKept DEF Marked
      <3> QED
        BY <3>2, <3>3
    <2> QED
      BY <1>6, <2>1, <2>2, <2>3, <2>4 DEF AroundStep, AttemptedRuns
  <1>7. CASE EffectStep
    <2>1. ASSUME NEW e \in Effects, NEW run, StartStep(e, run), NEW i \in EffectIds,
                 runs'[i].stage # "IDLE"
          PROVE  Attempted(i)' /\ AnswersAreFinal(i)'
      <3>1. attempts \subseteq attempts' /\ page' = page /\ panel'.ctx = panel.ctx
        BY <2>1 DEF StartStep, SameFacts
      <3>2. CASE runs'[i] = runs[i]
        BY <1>4, <2>1, <3>1, <3>2
      <3>3. CASE runs'[i] # runs[i]
        <4>1. i = e.id /\ runs'[i] = run
          BY <2>1, <3>3 DEF StartStep, Placed
        <4>2. e.ctx = panel.ctx
          BY <1>3, <2>1 DEF StartStep, EffectsShape
        <4>3. /\ run.effect = e /\ run.answer \in {"NONE", "UNSENT", "UNAVAILABLE"}
              /\ run.stage # "PUT"
              /\ run.stage = "PUTTING" => run.record \in attempts' /\ run.record.actor = page
              /\ (e.kind \in {"EXECUTE", "CHECK_STATUS"} /\ run.answer # "UNAVAILABLE") =>
                   run.record.op = e.request.op
          BY <2>1, <3>3, <4>1 DEF StartStep
        <4> QED
          BY <3>1, <4>1, <4>2, <4>3 DEF Attempted, AnswersAreFinal
      <3> QED
        BY <3>2, <3>3
    <2>2. ASSUME NEW i \in EffectIds, RunStep(i), NEW j \in EffectIds, runs'[j].stage # "IDLE"
          PROVE  Attempted(j)' /\ AnswersAreFinal(j)'
      <3>1. /\ attempts' = attempts /\ page' = page
        BY <2>2
        DEF RunStep, CommitRecord, FailRecord, SendStep, StopStep, LoseAnswer, CheckedStep,
            ForgetRecord, DeliverStep, PreviewedStep, ObservedStep, outside
      <3>2. panel'.ctx = panel.ctx
        BY <2>2
        DEF RunStep, CommitRecord, FailRecord, SendStep, StopStep, LoseAnswer, CheckedStep,
            ForgetRecord, DeliverStep, PreviewedStep, ObservedStep, SameFacts, Took, Leaves, Read
      <3>3. CASE j # i
        <4>1. runs'[j] = runs[j]
          BY <2>2, <3>3
          DEF RunStep, SendStep, StopStep, CheckedStep, DeliverStep, PreviewedStep, ObservedStep,
              Marked, Placed
        <4> QED
          BY <1>4, <2>2, <3>1, <3>2, <4>1
      <3>4. CASE j = i
        <4>1. ASSUME NEW stage, NEW answer, Marked(i, stage, answer), runs[i].stage # "IDLE",
                     stage \in {"PUTTING", "PUT"} => runs[i].stage \in {"PUTTING", "PUT"},
                     stage = "PUT" => runs[i].stage = "PUT" \/ runs[i].record \in journal',
                     \/ answer = runs[i].answer
                     \/ /\ runs[i].answer # "UNAVAILABLE"
                        /\ answer = "RECORD" => ledger'[runs[i].effect.request.op] = "ACCEPTED"
                        /\ answer = "NOT_ACCEPTED" => ledger'[runs[i].effect.request.op] = "FENCED"
              PROVE  Attempted(i)' /\ AnswersAreFinal(i)'
          BY <1>1, <1>2, <3>1, <3>2, <4>1, AttemptKept DEF Marked
        <4>2. ASSUME CommitRecord(i), Marked(i, "PUT", runs[i].answer)
              PROVE  Attempted(i)' /\ AnswersAreFinal(i)'
          BY <4>1, <4>2 DEF CommitRecord
        <4>3. ASSUME StopStep(i) \/ (FailRecord(i) /\ Marked(i, "ANSWERED", runs[i].answer))
                     \/ (ForgetRecord(i) /\ Marked(i, "CLEARED", runs[i].answer))
              PROVE  Attempted(i)' /\ AnswersAreFinal(i)'
          BY <4>1, <4>3 DEF FailRecord, ForgetRecord, StopStep
        <4>4. ASSUME SendStep(i) PROVE Attempted(i)' /\ AnswersAreFinal(i)'
          BY <4>1, <4>4 DEF SendStep
        <4>5. ASSUME LoseAnswer(i), Marked(i, "ANSWERED", "UNCERTAIN")
              PROVE  Attempted(i)' /\ AnswersAreFinal(i)'
          <5>1. runs[i].stage = "SENT" /\ runs[i].answer # "UNAVAILABLE"
            BY <1>2, <4>5 DEF LoseAnswer, RunShape
          <5> QED
            BY <4>1, <4>5, <5>1
        <4>6. ASSUME NEW answer \in StatusAnswers(runs[i].effect.request.op), CheckedStep(i, answer)
              PROVE  Attempted(i)' /\ AnswersAreFinal(i)'
          <5>1. /\ runs[i].stage = "READING" /\ runs[i].answer # "UNAVAILABLE" /\ ledger' = ledger
                /\ Marked(i, "ANSWERED", answer)
            BY <1>2, <4>6 DEF CheckedStep, RunShape, outside
          <5>2. /\ answer = "RECORD" => ledger[runs[i].effect.request.op] = "ACCEPTED"
                /\ answer = "NOT_ACCEPTED" => ledger[runs[i].effect.request.op] = "FENCED"
            BY DEF StatusAnswers
          <5> QED
            BY <4>1, <5>1, <5>2
        <4>7. ~Placed(i, Idle)
          BY <2>2, <3>4 DEF Placed, Idle
        <4>8. Attempted(i)' /\ AnswersAreFinal(i)'
          <5>1. CASE DeliverStep(i)
            BY <4>7, <5>1 DEF DeliverStep
          <5>2. ASSUME NEW answer, PreviewedStep(i, answer) \/ ObservedStep(i, answer) PROVE FALSE
            BY <4>7, <5>2 DEF PreviewedStep, ObservedStep
          <5> QED
            BY <2>2, <4>2, <4>3, <4>4, <4>5, <4>6, <5>1, <5>2 DEF RunStep
        <4> QED
          BY <3>4, <4>8 DEF Attempted, AnswersAreFinal
      <3> QED
        BY <3>3, <3>4
    <2> QED
      BY <1>7, <2>1, <2>2 DEF EffectStep, AttemptedRuns
  <1> QED
    BY <1>5, <1>6, <1>7 DEF Step


(* A request that comes to life has an identity nothing exposed. *)
LEMMA NewSourceIsFresh ==
  ASSUME Typed, Typed', Shape, Identities, Step, panel'.source \in Requests \ Live
  PROVE  \A p \in Exposed : p.op # panel'.source.op
  <1>1. Moves
    BY SourceMoves
  <1>2. /\ \A p \in Exposed : p.op < nextOperation
        /\ panel.source = NoRequest => \A p \in Exposed : p.op # panel.draft.op
    BY DEF Identities
  <1>3. panel'.source # panel.source
    BY DEF Live
  <1>4. NoRequest \notin Requests /\ nextOperation \in Nat
    BY NumbersTyped DEF NoRequest, Requests, Operations
  <1>5. \A p \in Exposed : p.op \in Nat
    <2>1. Exposed \subseteq Requests
      BY DEF Exposed, Live, Typed
    <2> QED
      BY <2>1 DEF Requests, Operations
  <1> QED
    BY <1>1, <1>2, <1>3, <1>4, <1>5 DEF Moves

(* The page makes at most one record of an operation. *)
AttemptsGo ==
  \/ attempts' = attempts
  \/ \E r \in Records : attempts' = attempts \cup {r} /\ \A q \in attempts : q.op # r.op
  \/ MountStep

LEMMA AttemptsAreMade ==
  ASSUME Step
  PROVE  AttemptsGo
  <1>1. CASE AuthorStep
    BY <1>1
    DEF AuthorStep, EditStep, IdleStep, ReturnStep, DiscardStep, BeginStep, ReadStep, RebaseStep,
        outside, AttemptsGo
  <1>2. CASE AroundStep
    BY <1>2
    DEF AroundStep, ContextStep, WithdrawStep, AccessStep, OtherAct, SettleElsewhere, DecideStep,
        outside, AttemptsGo
  <1>3. CASE EffectStep
    <2>1. ASSUME NEW e \in Effects, NEW run, StartStep(e, run) PROVE AttemptsGo
      <3>1. CASE e.kind = "EXECUTE"
        <4>1. /\ run.record \in Records /\ run.record.op = e.request.op
              /\ run.record \in attempts \/ Owned(e.request.op) = {}
              /\ attempts' = attempts \cup {run.record}
          BY <2>1, <3>1 DEF StartStep, Carries
        <4> QED
          BY <4>1 DEF Owned, AttemptsGo
      <3>2. CASE e.kind # "EXECUTE"
        BY <2>1, <3>2 DEF StartStep, AttemptsGo
      <3> QED
        BY <3>1, <3>2
    <2>2. ASSUME NEW i \in EffectIds, RunStep(i) PROVE AttemptsGo
      BY <2>2
      DEF RunStep, CommitRecord, FailRecord, SendStep, StopStep, LoseAnswer, CheckedStep,
          ForgetRecord, DeliverStep, PreviewedStep, ObservedStep, outside, AttemptsGo
    <2> QED
      BY <1>3, <2>1, <2>2 DEF EffectStep
  <1> QED
    BY <1>1, <1>2, <1>3 DEF Step

(* What is dispatched is dispatched by the requester of its record, which is listed. *)
LEMMA SendsAttempted ==
  ASSUME Typed, Shape, Attempts, NEW i \in EffectIds, SendStep(i),
         NEW m \in sent', m \notin sent
  PROVE  /\ m.request = runs[i].effect.request /\ m.actor = page
         /\ runs[i].record \in attempts /\ runs[i].record.actor = page
         /\ runs[i].record.op = m.request.op
         /\ runs[i].record \in journal \/ ledger[runs[i].record.op] # "NONE"
  <1>1. m.request = runs[i].effect.request /\ m.actor = page
    BY DEF SendStep
  <1>2. /\ runs[i].stage = "PUT" /\ runs[i].effect.kind = "EXECUTE"
        /\ runs[i].answer # "UNAVAILABLE" /\ runs[i].effect.ctx = panel.ctx
    BY DEF SendStep, Current, Shape, RunsShape, RunShape
  <1>3. Attempted(i)
    BY <1>2 DEF Attempts
  <1> QED
    BY <1>1, <1>2, <1>3 DEF Attempted

LEMMA AttemptsStep ==
  ASSUME Typed, Typed', Shape, Identities, Wired, Attempts, Step
  PROVE  Attempts'
  <1>1. LedgerGoes /\ JournalGoes /\ AttemptsGo /\ (attempts \subseteq attempts' \/ MountStep)
    BY LedgerMoves, JournalMoves, AttemptsAreMade, AttemptsMove
  <1>2. \A r, s \in attempts : r.op = s.op => r = s
    BY DEF Attempts
  <1>3. ASSUME NEW m \in sent, NEW p \in Live, m.request.op = p.op
        PROVE  \E r \in attempts : r.op = p.op /\ r.actor = m.actor
    BY <1>3 DEF Attempts
  <1>4. \A r, s \in attempts' : r.op = s.op => r = s
    BY <1>1, <1>2 DEF AttemptsGo, MountStep
  <1>5. ASSUME NEW m \in sent', NEW p \in Live', m.request.op = p.op
        PROVE  \E r \in attempts' : r.op = p.op /\ r.actor = m.actor
    <2>1. CASE MountStep
      <3>1. Live' = {}
        BY <2>1 DEF MountStep, Emptied, Idle, Live, NoRequest, Requests, Operations
      <3> QED
        BY <3>1
    <2>2. CASE attempts \subseteq attempts' /\ m \in sent
      <3>1. CASE p \in Live
        BY <1>3, <1>5, <2>2, <3>1
      <3>2. CASE p \notin Live
        <4>1. p = panel'.source /\ p \in Requests
          BY <3>2, LiveGrows DEF Live
        <4>2. m.request \in Exposed
          BY <2>2 DEF Exposed
        <4> QED
          BY <1>5, <3>2, <4>1, <4>2, NewSourceIsFresh
      <3> QED
        BY <3>1, <3>2
    <2>3. CASE attempts \subseteq attempts' /\ m \notin sent
      <3>1. PICK i \in EffectIds : SendStep(i)
        BY <2>3, SentMoves
      <3> QED
        BY <1>5, <2>3, <3>1, SendsAttempted
    <2> QED
      BY <1>1, <2>1, <2>2, <2>3
  <1>6. ASSUME NEW m \in sent', NEW n \in sent', m.request.op = n.request.op
        PROVE  m.actor = n.actor
    <2>1. ASSUME NEW k \in sent', k \notin sent, NEW l \in sent', k.request.op = l.request.op
          PROVE  k.actor = l.actor
      <3>1. PICK i \in EffectIds : SendStep(i)
        BY <2>1, SentMoves
      <3>2. /\ k.request = runs[i].effect.request /\ k.actor = page
            /\ runs[i].record \in attempts /\ runs[i].record.actor = page
            /\ runs[i].record.op = k.request.op
        BY <2>1, <3>1, SendsAttempted
      <3>3. CASE l \in sent
        <4>1. k.request \in Live
          BY <3>1, <3>2, SendsLive
        <4>2. PICK r \in attempts : r.op = k.request.op /\ r.actor = l.actor
          BY <1>3, <2>1, <3>3, <4>1
        <4> QED
          BY <1>2, <3>2, <4>2
      <3>4. CASE l \notin sent
        BY <3>1, <3>2, <3>4, SendsAttempted
      <3> QED
        BY <3>3, <3>4
    <2>2. CASE m \in sent /\ n \in sent
      BY <1>6, <2>2 DEF Attempts
    <2> QED
      BY <1>6, <2>1, <2>2
  <1>7. AttemptedRuns'
    BY AttemptedRunsStep
  <1>8. RecordOutlivesDoubt'
    <2>1. SUFFICES ASSUME NEW m \in sent', ledger'[m.request.op] = "NONE"
                   PROVE  \E r \in journal' : r.op = m.request.op /\ r.actor = m.actor
      BY DEF RecordOutlivesDoubt
    <2>2. CASE m \in sent
      <3>1. m.request.op \in Operations
        BY <2>2 DEF Typed, Requests
      <3>2. ledger[m.request.op] = "NONE"
        BY <1>1, <2>1, <3>1 DEF LedgerGoes
      <3>3. PICK r \in journal : r.op = m.request.op /\ r.actor = m.actor
        BY <2>2, <3>2 DEF Attempts, RecordOutlivesDoubt
      <3> QED
        BY <1>1, <2>1, <3>3 DEF JournalGoes
    <2>3. CASE m \notin sent
      <3>1. PICK i \in EffectIds : SendStep(i)
        BY <2>1, <2>3, SentMoves
      <3>2. journal' = journal /\ ledger' = ledger
        BY <3>1 DEF SendStep
      <3> QED
        BY <2>1, <2>3, <3>1, <3>2, SendsAttempted
    <2> QED
      BY <2>2, <2>3
  <1> QED
    BY <1>4, <1>5, <1>6, <1>7, <1>8 DEF Attempts, AttemptedRuns

----------------------------------------------------------------------------
(* The phases that owe something to a history, and where they come from. *)
PhaseGoes ==
  /\ panel'.phase = "SUBMITTING" =>
       /\ panel'.source = panel.source
       /\ \/ panel.phase = "SUBMITTING"
          \/ \E i \in EffectIds : SendStep(i) /\ runs[i].effect.request = panel.source
  /\ panel'.phase = "UNRESOLVED" =>
       /\ panel'.source = panel.source
       /\ \/ panel.phase \in {"SUBMITTING", "UNRESOLVED"}
          \/ \E i \in EffectIds : /\ runs[i].stage # "IDLE" /\ runs[i].answer = "UNCERTAIN"
                                  /\ runs[i].effect.request = panel.source
  /\ panel'.phase = "REVIEWING" =>
       /\ panel'.source = panel.source /\ panel'.ctx = panel.ctx
       /\ \/ panel.phase = "REVIEWING"
          \/ [op |-> panel.source.op, ctx |-> panel.ctx] \in reviewed'

LEMMA PhaseMoves ==
  ASSUME Typed, Shape, Step
  PROVE  PhaseGoes
  <1>1. ASSUME panel'.phase = panel.phase, panel'.source = panel.source, panel'.ctx = panel.ctx
        PROVE  PhaseGoes
    BY <1>1 DEF PhaseGoes
  <1>2. ASSUME panel'.phase \notin {"SUBMITTING", "UNRESOLVED", "REVIEWING"} PROVE PhaseGoes
    BY <1>2 DEF PhaseGoes
  <1>3. CASE AuthorStep
    <2>1. CASE EditStep \/ IdleStep \/ ReturnStep \/ DiscardStep
      BY <1>1, <1>2, <2>1
      DEF EditStep, IdleStep, ReturnStep, DiscardStep, Emptied, SameWork, SameFacts
    <2>2. ASSUME NEW e \in Effects, NEW phase \in Phases, BeginStep(e, phase) PROVE PhaseGoes
      BY <1>1, <1>2, <2>2 DEF BeginStep, Begins, SameFacts
    <2>3. ASSUME NEW e \in Effects, ReadStep(e) \/ RebaseStep(e) PROVE PhaseGoes
      BY <1>1, <1>2, <2>3 DEF ReadStep, ReadBegins, SameWork, SameFacts, RebaseStep
    <2> QED
      BY <1>3, <2>1, <2>2, <2>3 DEF AuthorStep
  <1>4. CASE AroundStep
    <2>1. CASE ContextStep \/ WithdrawStep
      BY <2>1 DEF ContextStep, WithdrawStep, Withdrawn, PhaseGoes
    <2>2. CASE AccessStep \/ MountStep \/ OtherAct \/ SettleElsewhere
      BY <1>1, <1>2, <2>2
      DEF AccessStep, SameWork, MountStep, Emptied, OtherAct, SettleElsewhere
    <2>3. ASSUME NEW m \in wire, NEW answer \in Answers, DecideStep(m, answer) PROVE PhaseGoes
      BY <1>1, <2>3 DEF DecideStep
    <2> QED
      BY <1>4, <2>1, <2>2, <2>3 DEF AroundStep
  <1>5. CASE EffectStep
    <2>1. ASSUME NEW e \in Effects, NEW run, StartStep(e, run) PROVE PhaseGoes
      BY <1>1, <2>1 DEF StartStep, SameWork, SameFacts
    <2>2. ASSUME NEW i \in EffectIds, RunStep(i) PROVE PhaseGoes
      <3>1. CASE panel' = panel
        BY <1>1, <3>1
      <3>2. ASSUME runs[i].stage # "IDLE", panel.effect = runs[i].effect.id
            PROVE  runs[i].effect.request = panel.source /\ runs[i].effect.ctx = panel.ctx
        BY <3>2 DEF Shape, RunsShape, RunShape
      <3>3. CASE SendStep(i)
        BY <1>1, <3>2, <3>3 DEF SendStep, Completing, PhaseGoes
      <3>4. ASSUME NEW answer, Took(panel, panel', runs[i].effect, answer), panel' # panel,
                   Witnessed(runs[i].effect, answer), runs[i].stage # "IDLE",
                   answer = "UNCERTAIN" => runs[i].answer = "UNCERTAIN"
            PROVE  PhaseGoes
        <4>1. /\ runs[i].effect.request = panel.source /\ runs[i].effect.ctx = panel.ctx
              /\ panel'.ctx = panel.ctx
          BY <3>2, <3>4 DEF Took, Leaves, Completing
        <4>2. CASE answer = "REVIEWED"
          <5>1. /\ panel'.phase = "REVIEWING" /\ panel'.source = panel.source
                /\ [op |-> panel.source.op, ctx |-> panel.ctx] \in reviewed'
            BY <3>4, <4>1, <4>2 DEF Took, Witnessed
          <5> QED
            BY <4>1, <5>1 DEF PhaseGoes
        <4>3. CASE answer \in {"RECORD", "NOT_ACCEPTED"}
          BY <1>2, <3>4, <4>3 DEF Took
        <4>4. CASE answer = "STATUS_UNRESOLVED"
          BY <1>1, <3>4, <4>1, <4>4 DEF Took
        <4>5. CASE answer \notin {"REVIEWED", "RECORD", "NOT_ACCEPTED", "STATUS_UNRESOLVED"}
          <5>1. /\ panel'.phase = IF Sticky(panel, answer) THEN "UNRESOLVED" ELSE "EDITING"
                /\ panel'.source = panel.source
            BY <3>4, <4>5 DEF Took
          <5> QED
            BY <1>2, <3>4, <4>1, <5>1 DEF Sticky, PhaseGoes
        <4> QED
          BY <4>2, <4>3, <4>4, <4>5
      <3>5. CASE DeliverStep(i)
        BY <3>1, <3>4, <3>5 DEF DeliverStep
      <3>6. ASSUME NEW answer \in PreviewedAnswers, PreviewedStep(i, answer) PROVE PhaseGoes
        BY <3>1, <3>4, <3>6 DEF PreviewedStep, PreviewedAnswers
      <3>7. ASSUME NEW answer, ObservedStep(i, answer) PROVE PhaseGoes
        BY <1>1, <3>1, <3>7 DEF ObservedStep, Read, SameWork
      <3> QED
        BY <2>2, <3>1, <3>3, <3>5, <3>6, <3>7
        DEF RunStep, CommitRecord, FailRecord, StopStep, LoseAnswer, CheckedStep, ForgetRecord
    <2> QED
      BY <1>5, <2>1, <2>2 DEF EffectStep
  <1> QED
    BY <1>3, <1>4, <1>5 DEF Step

LEMMA ReviewedGrows ==
  ASSUME Step
  PROVE  reviewed \subseteq reviewed'
  <1>1. CASE AuthorStep
    BY <1>1
    DEF AuthorStep, EditStep, IdleStep, ReturnStep, DiscardStep, BeginStep, ReadStep, RebaseStep,
        histories
  <1>2. CASE AroundStep
    BY <1>2
    DEF AroundStep, ContextStep, WithdrawStep, AccessStep, MountStep, OtherAct, SettleElsewhere,
        DecideStep, ghosts
  <1>3. CASE EffectStep
    BY ZenonT(30), <1>3
    DEF EffectStep, StartStep, RunStep, CommitRecord, FailRecord, SendStep, StopStep, LoseAnswer,
        CheckedStep, ForgetRecord, DeliverStep, PreviewedStep, ObservedStep, Witnessed, ghosts,
        histories
  <1> QED
    BY <1>1, <1>2, <1>3 DEF Step

(* Only a dispatch is sent, and only what was sent is answered with uncertainty. *)
RunsTurn ==
  \A i \in EffectIds :
    /\ runs'[i].stage = "SENT" =>
         runs'[i].effect = runs[i].effect /\ (runs[i].stage = "SENT" \/ SendStep(i))
    /\ runs'[i].stage # "IDLE" /\ runs'[i].answer = "UNCERTAIN" =>
         /\ runs'[i].effect = runs[i].effect /\ runs[i].stage # "IDLE"
         /\ runs[i].answer = "UNCERTAIN" \/ runs[i].stage = "SENT"

LEMMA RunsTurnSo ==
  ASSUME Typed, Shape, Step
  PROVE  RunsTurn
  <1>1. CASE runs' = runs
    BY <1>1 DEF RunsTurn
  <1>2. CASE AuthorStep
    BY <1>1, <1>2
    DEF AuthorStep, EditStep, IdleStep, ReturnStep, DiscardStep, BeginStep, ReadStep, RebaseStep
  <1>3. CASE AroundStep
    <2>1. CASE ContextStep
      BY <2>1, AbortedRuns DEF ContextStep, RunsTurn, Idle
    <2>2. CASE MountStep
      BY <2>2 DEF MountStep, RunsTurn, Idle
    <2>3. ASSUME NEW m \in wire, NEW answer \in Answers, DecideStep(m, answer) PROVE RunsTurn
      <3>1. m.id \in EffectIds
        BY DEF Typed
      <3> QED
        BY <1>1, <2>3, <3>1 DEF DecideStep, Marked, RunsTurn
    <2> QED
      BY <1>1, <1>3, <2>1, <2>2, <2>3
      DEF AroundStep, WithdrawStep, AccessStep, OtherAct, SettleElsewhere
  <1>4. CASE EffectStep
    <2>1. ASSUME NEW e \in Effects, NEW run, StartStep(e, run) PROVE RunsTurn
      BY <2>1 DEF StartStep, Placed, RunsTurn
    <2>2. ASSUME NEW i \in EffectIds, RunStep(i) PROVE RunsTurn
      <3>1. ASSUME NEW j \in EffectIds, j # i PROVE runs'[j] = runs[j]
        BY <2>2, <3>1
        DEF RunStep, SendStep, StopStep, CheckedStep, DeliverStep, PreviewedStep, ObservedStep,
            Marked, Placed
      <3>2. /\ runs'[i].stage = "SENT" =>
                 runs'[i].effect = runs[i].effect /\ (runs[i].stage = "SENT" \/ SendStep(i))
            /\ runs'[i].stage # "IDLE" /\ runs'[i].answer = "UNCERTAIN" =>
                 /\ runs'[i].effect = runs[i].effect /\ runs[i].stage # "IDLE"
                 /\ runs[i].answer = "UNCERTAIN" \/ runs[i].stage = "SENT"
        <4>1. CASE Placed(i, Idle)
          BY <4>1 DEF Placed, Idle
        <4>2. ASSUME NEW answer \in StatusAnswers(runs[i].effect.request.op), CheckedStep(i, answer)
              PROVE  runs'[i].stage = "ANSWERED" /\ runs'[i].answer # "UNCERTAIN"
          BY <4>2 DEF CheckedStep, Marked, StatusAnswers
        <4> QED
          BY <2>2, <4>1, <4>2
          DEF RunStep, CommitRecord, FailRecord, SendStep, StopStep, LoseAnswer, ForgetRecord,
              DeliverStep, PreviewedStep, ObservedStep, Marked
      <3> QED
        BY <3>1, <3>2 DEF RunsTurn
    <2> QED
      BY <1>4, <2>1, <2>2 DEF EffectStep
  <1> QED
    BY <1>2, <1>3, <1>4 DEF Step

(* The histories after the step. *)
NowSent(op) == \E m \in sent' : m.request.op = op
NowEarned(e) == [op |-> e.request.op, ctx |-> e.ctx] \in reviewed' \/ NowSent(e.request.op)

LEMMA ReviewsStep ==
  ASSUME Typed, Shape, Reviews, Step
  PROVE  Reviews'
  <1>1. PhaseGoes /\ EffectsGo /\ RunsGo /\ RunsTurn /\ reviewed \subseteq reviewed'
    BY PhaseMoves, EffectsMove, RunsMove, RunsTurnSo, ReviewedGrows
  <1>2. sent \subseteq sent'
    BY SentMoves DEF SendStep
  <1>3. ASSUME NEW op, WasSent(op) PROVE NowSent(op)
    BY <1>2, <1>3 DEF WasSent, NowSent
  <1>4. ASSUME NEW i \in EffectIds, SendStep(i) PROVE NowSent(runs[i].effect.request.op)
    <2> DEFINE m == [request |-> runs[i].effect.request, actor |-> page, ctx |-> panel.ctx,
                     first |-> \A n \in sent : n.request.op # runs[i].effect.request.op]
    <2>1. m \in sent'
      BY <1>4 DEF SendStep
    <2>2. m.request = runs[i].effect.request
      OBVIOUS
    <2> HIDE DEF m
    <2> QED
      BY <2>1, <2>2 DEF NowSent
  <1>5. ASSUME NEW e, Earned(e) PROVE NowEarned(e)
    BY <1>1, <1>3, <1>5 DEF Earned, NowEarned
  <1>6. panel'.phase \in {"SUBMITTING", "UNRESOLVED"} => NowSent(panel'.source.op)
    <2>1. ASSUME panel'.phase \in {"SUBMITTING", "UNRESOLVED"},
                 panel.phase \in {"SUBMITTING", "UNRESOLVED"}
          PROVE  NowSent(panel'.source.op)
      <3>1. WasSent(panel.source.op) /\ panel'.source = panel.source
        BY <1>1, <2>1 DEF PhaseGoes, Reviews
      <3> QED
        BY <1>3, <3>1
    <2>2. ASSUME NEW i \in EffectIds, runs[i].stage # "IDLE", runs[i].answer = "UNCERTAIN"
          PROVE  NowSent(runs[i].effect.request.op)
      BY <1>3, <2>2 DEF Reviews
    <2> QED
      BY <1>1, <1>4, <2>1, <2>2 DEF PhaseGoes
  <1>7. panel'.phase = "REVIEWING" => [op |-> panel'.source.op, ctx |-> panel'.ctx] \in reviewed'
    BY <1>1 DEF PhaseGoes, Reviews
  <1>8. ASSUME NEW e \in panel'.effects, e.kind = "EXECUTE" PROVE NowEarned(e)
    <2>1. CASE e \in panel.effects
      BY <1>5, <1>8, <2>1 DEF Reviews
    <2>2. CASE e \notin panel.effects
      <3>1. /\ e.request = panel.source /\ e.ctx = panel.ctx
            /\ panel.phase \in {"UNRESOLVED", "REVIEWING"}
        BY <1>1, <1>8, <2>2 DEF EffectsGo
      <3>2. Earned(e)
        BY <3>1 DEF Reviews, Earned
      <3> QED
        BY <1>5, <3>2
    <2> QED
      BY <2>1, <2>2
  <1>9. ASSUME NEW i \in EffectIds, runs'[i].stage # "IDLE", runs'[i].effect.kind = "EXECUTE"
        PROVE  NowEarned(runs'[i].effect)
    <2>1. CASE runs[i].stage # "IDLE" /\ runs'[i].effect = runs[i].effect
      <3>1. Earned(runs[i].effect)
        BY <1>9, <2>1 DEF Reviews
      <3> QED
        BY <1>5, <2>1, <3>1
    <2>2. CASE runs'[i].effect \in panel.effects
      <3>1. Earned(runs'[i].effect)
        BY <1>9, <2>2 DEF Reviews
      <3> QED
        BY <1>5, <3>1
    <2> QED
      BY <1>1, <1>9, <2>1, <2>2 DEF RunsGo
  <1>10. ASSUME NEW i \in EffectIds, runs'[i].stage # "IDLE",
                runs'[i].stage = "SENT" \/ runs'[i].answer = "UNCERTAIN"
         PROVE  NowSent(runs'[i].effect.request.op)
    <2>1. runs'[i].effect = runs[i].effect
      BY <1>1, <1>10 DEF RunsTurn
    <2>2. SendStep(i) \/ WasSent(runs[i].effect.request.op)
      BY <1>1, <1>10 DEF RunsTurn, Reviews
    <2> QED
      BY <1>3, <1>4, <2>1, <2>2
  <1>11. ASSUME NEW m \in sent', m.first PROVE [op |-> m.request.op, ctx |-> m.ctx] \in reviewed'
    <2>1. CASE m \in sent
      BY <1>1, <1>11, <2>1 DEF Reviews, ConfirmedWhereReviewed
    <2>2. CASE m \notin sent
      <3>1. PICK i \in EffectIds : SendStep(i)
        BY <2>2, SentMoves
      <3>2. /\ m.request = runs[i].effect.request /\ m.ctx = panel.ctx
            /\ m.first => \A n \in sent : n.request.op # runs[i].effect.request.op
        <4> DEFINE first == \A n \in sent : n.request.op # runs[i].effect.request.op
        <4>1. sent' = sent \cup {[request |-> runs[i].effect.request, actor |-> page,
                                 ctx |-> panel.ctx, first |-> first]}
          BY <3>1 DEF SendStep
        <4>2. first \in BOOLEAN /\ (first => \A n \in sent : n.request.op # runs[i].effect.request.op)
          OBVIOUS
        <4> HIDE DEF first
        <4> QED
          BY <2>2, <4>1, <4>2
      <3>3. /\ runs[i].effect.kind = "EXECUTE" /\ runs[i].stage # "IDLE"
            /\ runs[i].effect.ctx = panel.ctx
        BY <3>1 DEF SendStep, Current, Shape, RunsShape, RunShape
      <3>4. Earned(runs[i].effect)
        BY <3>3 DEF Reviews
      <3>5. ~WasSent(runs[i].effect.request.op)
        BY <1>11, <3>2 DEF WasSent
      <3> QED
        BY <1>1, <3>2, <3>3, <3>4, <3>5 DEF Earned
    <2> QED
      BY <2>1, <2>2
  <1> QED
    BY <1>6, <1>7, <1>8, <1>9, <1>10, <1>11
    DEF Reviews, ConfirmedWhereReviewed, WasSent, NowSent, Earned, NowEarned

----------------------------------------------------------------------------
(* An acceptance that was heard. A withdrawal between the journal write and the
   dispatch leaves the dispatch with a panel that no longer waits for it, so the
   scenarios leave that one out. *)
SafeWithdrawals == \A s \in Scenarios : "PREPARING" \notin s.withdraw

SettledNow(op) == op \in abandoned' \cup told' \/ ledger'[op] = "FENCED"

HoldsNow(op, phase, i) ==
  /\ panel'.source.op = op
  /\ panel'.phase = "UNRESOLVED" \/ (panel'.phase = phase /\ panel'.effect = i)

(* Operations that are told were the panel's, and those abandoned too. *)
ToldGoes ==
  \/ told' = told
  \/ told' = told \cup {panel.source.op} /\ panel'.phase = "ACCEPTED" /\ panel'.source = panel.source

LEMMA ToldMoves ==
  ASSUME Typed, Shape, Step
  PROVE  ToldGoes
  <1>1. CASE AuthorStep
    BY <1>1
    DEF AuthorStep, EditStep, IdleStep, ReturnStep, DiscardStep, BeginStep, ReadStep, RebaseStep,
        histories, ToldGoes
  <1>2. CASE AroundStep
    BY <1>2
    DEF AroundStep, ContextStep, WithdrawStep, AccessStep, MountStep, OtherAct, SettleElsewhere,
        DecideStep, ghosts, ToldGoes
  <1>3. CASE EffectStep
    <2>1. ASSUME NEW e \in Effects, NEW run, StartStep(e, run) PROVE ToldGoes
      BY <2>1 DEF StartStep, histories, ToldGoes
    <2>2. ASSUME NEW i \in EffectIds, RunStep(i) PROVE ToldGoes
      <3>1. ASSUME NEW answer, Took(panel, panel', runs[i].effect, answer), runs[i].stage # "IDLE",
                   Witnessed(runs[i].effect, answer)
            PROVE  ToldGoes
        <4>1. runs[i].effect.request = panel.source
          BY <3>1 DEF Took, Completing, Shape, RunsShape, RunShape
        <4> QED
          BY <3>1, <4>1 DEF Took, Witnessed, ToldGoes
      <3>2. ASSUME NEW answer, Witnessed(runs[i].effect, answer), panel' = panel PROVE ToldGoes
        BY <3>2 DEF Witnessed, ToldGoes
      <3>3. CASE DeliverStep(i)
        BY <3>1, <3>2, <3>3 DEF DeliverStep
      <3>4. ASSUME NEW answer, PreviewedStep(i, answer) PROVE ToldGoes
        BY <3>1, <3>2, <3>4 DEF PreviewedStep
      <3>5. ASSUME NEW answer \in ObservedAnswers, ObservedStep(i, answer) PROVE ToldGoes
        BY <3>5 DEF ObservedStep, ObservedAnswers, Witnessed, ToldGoes
      <3> QED
        BY <2>2, <3>3, <3>4, <3>5
        DEF RunStep, CommitRecord, FailRecord, SendStep, StopStep, LoseAnswer, CheckedStep,
            ForgetRecord, ghosts, histories, ToldGoes
    <2> QED
      BY <1>3, <2>1, <2>2 DEF EffectStep
  <1> QED
    BY <1>1, <1>2, <1>3 DEF Step

AbandonedGoes ==
  \/ abandoned' = abandoned
  \/ MountStep
  \/ /\ DiscardStep /\ panel.phase = "UNRESOLVED" /\ abandoned' = abandoned \cup {panel.source.op}

LEMMA AbandonedMoves ==
  ASSUME Step
  PROVE  AbandonedGoes
  <1>1. CASE AuthorStep
    BY <1>1
    DEF AuthorStep, EditStep, IdleStep, ReturnStep, DiscardStep, BeginStep, ReadStep, RebaseStep,
        histories, AbandonedGoes
  <1>2. CASE AroundStep
    BY <1>2
    DEF AroundStep, ContextStep, WithdrawStep, AccessStep, OtherAct, SettleElsewhere,
        DecideStep, ghosts, AbandonedGoes
  <1>3. CASE EffectStep
    BY <1>3
    DEF EffectStep, StartStep, RunStep, CommitRecord, FailRecord, SendStep, StopStep, LoseAnswer,
        CheckedStep, ForgetRecord, DeliverStep, PreviewedStep, ObservedStep, ghosts, histories,
        AbandonedGoes
  <1> QED
    BY <1>1, <1>2, <1>3 DEF Step

LEMMA SettledGrows ==
  ASSUME Typed, Shape, Step, ~MountStep, NEW op \in Operations, Settled(op)
  PROVE  SettledNow(op)
  <1>1. ToldGoes /\ AbandonedGoes /\ LedgerGoes
    BY ToldMoves, AbandonedMoves, LedgerMoves
  <1> QED
    BY <1>1 DEF ToldGoes, AbandonedGoes, LedgerGoes, Settled, SettledNow

(* A receipt is heard from the host or from a check, by the run that waits for it. *)
HeardNew(op, i) ==
  /\ op = runs[i].effect.request.op /\ ledger'[op] = "ACCEPTED" /\ op \in Operations
  /\ \/ runs[i].stage = "SENT"
     \/ runs[i].stage = "READING" /\ runs[i].effect.kind = "CHECK_STATUS"
  /\ runs'[i].stage = "ANSWERED" /\ runs'[i].answer = "RECORD"
  /\ panel' = panel /\ UNCHANGED <<told, abandoned, nextOperation>>

HeardGoes == \A op \in heard' : op \in heard \/ \E i \in EffectIds : HeardNew(op, i)

LEMMA HeardMoves ==
  ASSUME Typed, Shape, Wired, Step
  PROVE  HeardGoes
  <1>1. heard' \subseteq heard => HeardGoes
    BY DEF HeardGoes
  <1>2. CASE AuthorStep
    BY <1>1, <1>2
    DEF AuthorStep, EditStep, IdleStep, ReturnStep, DiscardStep, BeginStep, ReadStep, RebaseStep,
        histories
  <1>3. CASE AroundStep
    <2>1. ASSUME NEW m \in wire, NEW answer \in Answers, DecideStep(m, answer) PROVE HeardGoes
      <3>1. m.id \in EffectIds /\ m.request.op \in Operations
        BY DEF Typed, Requests
      <3>2. CASE runs[m.id].stage = "SENT" /\ answer = "RECORD"
        <4>1. runs[m.id].effect.request = m.request
          BY <3>2 DEF Wired
        <4>2. HeardNew(m.request.op, m.id)
          BY <2>1, <3>1, <3>2, <4>1 DEF DecideStep, Marked, HeardNew, Typed
        <4>3. heard' = heard \cup {m.request.op}
          BY <2>1, <3>2 DEF DecideStep
        <4> QED
          BY <3>1, <4>2, <4>3 DEF HeardGoes
      <3>3. CASE ~(runs[m.id].stage = "SENT" /\ answer = "RECORD")
        BY <1>1, <2>1, <3>3 DEF DecideStep
      <3> QED
        BY <3>2, <3>3
    <2> QED
      BY <1>1, <1>3, <2>1
      DEF AroundStep, ContextStep, WithdrawStep, AccessStep, MountStep, OtherAct, SettleElsewhere,
          ghosts
  <1>4. CASE EffectStep
    <2>1. ASSUME NEW i \in EffectIds, NEW answer \in StatusAnswers(runs[i].effect.request.op),
                 CheckedStep(i, answer)
          PROVE  HeardGoes
      <3>1. CASE answer = "RECORD"
        <4>1. runs[i].effect.request \in Requests
          BY <2>1 DEF CheckedStep, Shape, RunsShape, RunShape, Carries
        <4>2. ledger[runs[i].effect.request.op] = "ACCEPTED" /\ ledger' = ledger
          BY <2>1, <3>1 DEF StatusAnswers, CheckedStep, outside
        <4>3. HeardNew(runs[i].effect.request.op, i)
          BY <2>1, <3>1, <4>1, <4>2 DEF CheckedStep, Marked, HeardNew, Requests
        <4>4. heard' = heard \cup {runs[i].effect.request.op}
          BY <2>1, <3>1 DEF CheckedStep
        <4> QED
          BY <4>3, <4>4 DEF HeardGoes
      <3>2. CASE answer # "RECORD"
        BY <1>1, <2>1, <3>2 DEF CheckedStep
      <3> QED
        BY <3>1, <3>2
    <2> QED
      BY <1>1, <1>4, <2>1
      DEF EffectStep, StartStep, RunStep, CommitRecord, FailRecord, SendStep, StopStep, LoseAnswer,
          ForgetRecord, DeliverStep, PreviewedStep, ObservedStep, ghosts, histories
  <1> QED
    BY <1>2, <1>3, <1>4 DEF Step

(* A panel in doubt stays with its operation until that is settled. *)
LEMMA DoubtStays ==
  ASSUME Typed, Shape, Attempts, Step, ~MountStep, panel.phase = "UNRESOLVED"
  PROVE  \/ SettledNow(panel.source.op)
         \/ panel'.phase = "UNRESOLVED" /\ panel'.source = panel.source
  <1>1. CASE panel' = panel
    BY <1>1
  <1>2. CASE AuthorStep
    <2>1. CASE DiscardStep
      BY <2>1 DEF DiscardStep, SettledNow
    <2> QED
      BY <1>2, <2>1
      DEF AuthorStep, EditStep, IdleStep, ReturnStep, BeginStep, Begins, ReadStep, RebaseStep
  <1>3. CASE AroundStep
    BY <1>3
    DEF AroundStep, ContextStep, WithdrawStep, Withdrawn, AccessStep, SameWork, OtherAct,
        SettleElsewhere, DecideStep
  <1>4. CASE EffectStep
    <2>1. ASSUME NEW e \in Effects, NEW run, StartStep(e, run)
          PROVE  panel'.phase = "UNRESOLVED" /\ panel'.source = panel.source
      BY <2>1 DEF StartStep, SameWork
    <2>2. ASSUME NEW i \in EffectIds, RunStep(i), panel' # panel
          PROVE  \/ SettledNow(panel.source.op)
                 \/ panel'.phase = "UNRESOLVED" /\ panel'.source = panel.source
      <3>1. ASSUME NEW answer, Took(panel, panel', runs[i].effect, answer)
            PROVE  \/ answer \in {"NOT_ACCEPTED", "RECORD"}
                   \/ panel'.phase = "UNRESOLVED" /\ panel'.source = panel.source
        <4>1. answer # "REVIEWED"
          BY <3>1 DEF Took
        <4> QED
          BY <3>1, <4>1 DEF Took, Sticky
      <3>2. CASE DeliverStep(i)
        <4>1. CASE runs[i].answer \in {"NOT_ACCEPTED", "RECORD"}
          <5>1. panel.effect = runs[i].effect.id /\ runs[i].stage # "IDLE"
            BY <2>2, <3>2 DEF DeliverStep, Took, Completing
          <5>2. RunShape(i) /\ AnswersAreFinal(i)
            BY <5>1 DEF Shape, RunsShape, Attempts
          <5>3. runs[i].effect.request = panel.source
            BY <5>1, <5>2 DEF RunShape
          <5>4. CASE runs[i].answer = "RECORD"
            BY <2>2, <3>2, <5>3, <5>4 DEF DeliverStep, Witnessed, SettledNow
          <5>5. CASE runs[i].answer = "NOT_ACCEPTED"
            <6>1. ledger' = ledger
              BY <3>2 DEF DeliverStep, outside
            <6> QED
              BY <5>2, <5>3, <5>5, <6>1 DEF AnswersAreFinal, SettledNow
          <5> QED
            BY <4>1, <5>4, <5>5
        <4>2. CASE runs[i].answer \notin {"NOT_ACCEPTED", "RECORD"}
          BY <2>2, <3>1, <3>2, <4>2 DEF DeliverStep
        <4> QED
          BY <4>1, <4>2
      <3>3. ~SendStep(i)
        BY <2>2 DEF SendStep
      <3>4. ASSUME NEW answer \in PreviewedAnswers, PreviewedStep(i, answer)
            PROVE  panel'.phase = "UNRESOLVED" /\ panel'.source = panel.source
        BY <2>2, <3>1, <3>4 DEF PreviewedStep, PreviewedAnswers
      <3>5. ASSUME NEW answer, ObservedStep(i, answer)
            PROVE  panel'.phase = "UNRESOLVED" /\ panel'.source = panel.source
        BY <2>2, <3>5 DEF ObservedStep, Read, SameWork
      <3> QED
        BY <2>2, <3>2, <3>3, <3>4, <3>5
        DEF RunStep, CommitRecord, FailRecord, StopStep, LoseAnswer, CheckedStep, ForgetRecord
    <2> QED
      BY <1>1, <1>4, <2>1, <2>2 DEF EffectStep
  <1> QED
    BY <1>2, <1>3, <1>4 DEF Step

(* A panel that waits for a dispatch waits until the dispatch is handed over or
   delivered, or until it is in doubt. *)
LEMMA WaitingStays ==
  ASSUME SafeWithdrawals, Typed, Shape, Step, ~MountStep, NEW i \in EffectIds,
         panel.phase \in {"PREPARING", "SUBMITTING"}, panel.effect = i
  PROVE  \/ panel'.source = panel.source /\ panel'.phase = panel.phase /\ panel'.effect = i
         \/ panel'.source = panel.source /\ panel'.phase = "UNRESOLVED"
         \/ SendStep(i) /\ panel'.source = panel.source /\ panel'.phase = "SUBMITTING"
            /\ panel'.effect = i
         \/ DeliverStep(i) /\ panel' # panel
         \/ panel.phase = "PREPARING" /\ ContextStep
  <1>1. CASE panel' = panel
    BY <1>1
  <1>2. ~AtRest
    BY DEF AtRest, Busy
  <1>3. CASE AuthorStep
    BY <1>1, <1>2, <1>3
    DEF AuthorStep, EditStep, IdleStep, ReturnStep, DiscardStep, BeginStep, ReadStep, RebaseStep
  <1>4. CASE AroundStep
    <2>1. CASE ContextStep
      BY <2>1 DEF ContextStep, Withdrawn
    <2>2. CASE WithdrawStep
      <3>1. panel.phase # "PREPARING"
        BY <2>2 DEF WithdrawStep, SafeWithdrawals, Typed
      <3> QED
        BY <2>2, <3>1 DEF WithdrawStep, Withdrawn
    <2> QED
      BY <1>1, <1>4, <2>1, <2>2
      DEF AroundStep, AccessStep, SameWork, OtherAct, SettleElsewhere, DecideStep
  <1>5. CASE EffectStep
    <2>1. ASSUME NEW e \in Effects, NEW run, StartStep(e, run)
          PROVE  panel'.source = panel.source /\ panel'.phase = panel.phase /\ panel'.effect = i
      BY <2>1 DEF StartStep, SameWork
    <2>2. ASSUME NEW j \in EffectIds, RunStep(j), panel' # panel
          PROVE  \/ panel'.source = panel.source /\ panel'.phase = panel.phase /\ panel'.effect = i
                 \/ SendStep(i) /\ panel'.source = panel.source /\ panel'.phase = "SUBMITTING"
                    /\ panel'.effect = i
                 \/ DeliverStep(i) /\ panel' # panel
      <3>1. ASSUME runs[j].stage # "IDLE", panel.effect = runs[j].effect.id
            PROVE  j = i /\ runs[j].effect.kind # "PREVIEW"
        BY <3>1 DEF Shape, RunsShape, RunShape, Fits
      <3>2. CASE SendStep(j)
        <4>1. j = i
          BY <2>2, <3>1, <3>2 DEF SendStep, Completing
        <4> QED
          BY <2>2, <3>2, <4>1 DEF SendStep
      <3>3. CASE DeliverStep(j)
        <4>1. j = i
          BY <2>2, <3>1, <3>3 DEF DeliverStep, Took, Completing
        <4> QED
          BY <2>2, <3>3, <4>1
      <3>4. ASSUME NEW answer, PreviewedStep(j, answer) PROVE FALSE
        BY <2>2, <3>1, <3>4 DEF PreviewedStep, Took, Completing
      <3>5. ASSUME NEW answer, ObservedStep(j, answer)
            PROVE  panel'.source = panel.source /\ panel'.phase = panel.phase /\ panel'.effect = i
        BY <2>2, <3>5 DEF ObservedStep, Read, SameWork
      <3> QED
        BY <2>2, <3>2, <3>3, <3>4, <3>5
        DEF RunStep, CommitRecord, FailRecord, StopStep, LoseAnswer, CheckedStep, ForgetRecord
    <2> QED
      BY <1>1, <1>5, <2>1, <2>2 DEF EffectStep
  <1> QED
    BY <1>3, <1>4, <1>5 DEF Step

LEMMA HoldsGo ==
  ASSUME SafeWithdrawals, Typed, Shape, Attempts, Step, ~MountStep, NEW i \in EffectIds,
         NEW phase \in {"PREPARING", "SUBMITTING", "UNRESOLVED"}, NEW op, Holds(op, phase, i)
  PROVE  \/ SettledNow(op)
         \/ HoldsNow(op, phase, i)
         \/ SendStep(i) /\ HoldsNow(op, "SUBMITTING", i)
         \/ runs[i].stage \in {"ANSWERED", "CLEARED"} /\ runs'[i].stage = "IDLE"
         \/ phase = "PREPARING" /\ ContextStep
  <1>1. CASE panel.phase = "UNRESOLVED"
    BY <1>1, DoubtStays DEF Holds, HoldsNow
  <1>2. CASE panel.phase # "UNRESOLVED"
    <2>1. /\ panel.phase = phase /\ panel.effect = i /\ panel.source.op = op
          /\ phase \in {"PREPARING", "SUBMITTING"}
      BY <1>2 DEF Holds
    <2>2. DeliverStep(i) => runs[i].stage \in {"ANSWERED", "CLEARED"} /\ runs'[i].stage = "IDLE"
      BY DEF DeliverStep, Placed, Idle
    <2> QED
      BY <2>1, <2>2, WaitingStays DEF HoldsNow
  <1> QED
    BY <1>1, <1>2

(* A run that is not answered began as a scheduled effect, and went on from there. *)
RunsBegin ==
  \A i \in EffectIds : runs'[i].stage \in {"PUTTING", "PUT", "READING"} =>
    \/ /\ runs'[i].effect = runs[i].effect
       /\ runs'[i].stage = "READING" => runs[i].stage = "READING"
       /\ runs'[i].stage # "READING" => runs[i].stage \in {"PUTTING", "PUT"}
    \/ /\ runs'[i].effect \in panel.effects /\ runs'[i].effect.id = i
       /\ SameWork(panel, panel') /\ UNCHANGED <<abandoned, told, ledger>>

LEMMA RunsBeginSo ==
  ASSUME Typed, Step
  PROVE  RunsBegin
  <1>1. CASE runs' = runs
    BY <1>1 DEF RunsBegin
  <1>2. CASE AuthorStep
    BY <1>1, <1>2
    DEF AuthorStep, EditStep, IdleStep, ReturnStep, DiscardStep, BeginStep, ReadStep, RebaseStep
  <1>3. CASE AroundStep
    <2>1. CASE ContextStep
      BY <2>1, AbortedRuns DEF ContextStep, RunsBegin, Idle
    <2>2. CASE MountStep
      BY <2>2 DEF MountStep, RunsBegin, Idle
    <2>3. ASSUME NEW m \in wire, NEW answer \in Answers, DecideStep(m, answer) PROVE RunsBegin
      <3>1. m.id \in EffectIds
        BY DEF Typed
      <3> QED
        BY <1>1, <2>3, <3>1 DEF DecideStep, Marked, RunsBegin
    <2> QED
      BY <1>1, <1>3, <2>1, <2>2, <2>3
      DEF AroundStep, WithdrawStep, AccessStep, OtherAct, SettleElsewhere
  <1>4. CASE EffectStep
    <2>1. ASSUME NEW e \in Effects, NEW run, StartStep(e, run) PROVE RunsBegin
      BY <2>1 DEF StartStep, Placed, histories, RunsBegin
    <2>2. ASSUME NEW i \in EffectIds, RunStep(i) PROVE RunsBegin
      BY <2>2
      DEF RunStep, CommitRecord, FailRecord, SendStep, StopStep, LoseAnswer, CheckedStep,
          ForgetRecord, DeliverStep, PreviewedStep, ObservedStep, Marked, Placed, Idle, RunsBegin
    <2> QED
      BY <1>4, <2>1, <2>2 DEF EffectStep
  <1> QED
    BY <1>2, <1>3, <1>4 DEF Step

(* An answered run waits for its delivery. *)
RunsAnswered ==
  \A i \in EffectIds : runs[i].stage \in {"ANSWERED", "CLEARED"} =>
    \/ runs'[i].stage \in {"ANSWERED", "CLEARED"} /\ runs'[i].answer = runs[i].answer
    \/ DeliverStep(i)
    \/ MountStep

LEMMA RunsAnsweredSo ==
  ASSUME Typed, Shape, Step
  PROVE  RunsAnswered
  <1>1. CASE runs' = runs \/ MountStep
    BY <1>1 DEF RunsAnswered
  <1>2. CASE AuthorStep
    BY <1>1, <1>2
    DEF AuthorStep, EditStep, IdleStep, ReturnStep, DiscardStep, BeginStep, ReadStep, RebaseStep
  <1>3. CASE AroundStep
    <2>1. CASE ContextStep
      BY <2>1 DEF ContextStep, AbortReads, RunsAnswered
    <2>2. ASSUME NEW m \in wire, NEW answer \in Answers, DecideStep(m, answer) PROVE RunsAnswered
      <3>1. m.id \in EffectIds
        BY DEF Typed
      <3> QED
        BY <1>1, <2>2, <3>1 DEF DecideStep, Marked, RunsAnswered
    <2> QED
      BY <1>1, <1>3, <2>1, <2>2
      DEF AroundStep, WithdrawStep, AccessStep, OtherAct, SettleElsewhere
  <1>4. CASE EffectStep
    <2>1. ASSUME NEW e \in Effects, NEW run, StartStep(e, run) PROVE RunsAnswered
      <3>1. runs[e.id].stage = "IDLE"
        BY <2>1 DEF StartStep, Shape, EffectsShape
      <3> QED
        BY <2>1, <3>1 DEF StartStep, Placed, RunsAnswered
    <2>2. ASSUME NEW i \in EffectIds, RunStep(i) PROVE RunsAnswered
      BY <2>2
      DEF RunStep, CommitRecord, FailRecord, SendStep, StopStep, LoseAnswer, CheckedStep,
          ForgetRecord, DeliverStep, PreviewedStep, ObservedStep, Marked, Placed, RunsAnswered
    <2> QED
      BY <1>4, <2>1, <2>2 DEF EffectStep
  <1> QED
    BY <1>2, <1>3, <1>4 DEF Step

LEMMA ContextMoves ==
  ASSUME Typed, Step, ~MountStep
  PROVE  panel'.ctx = panel.ctx \/ ContextStep
  <1>1. CASE AuthorStep
    BY <1>1
    DEF AuthorStep, EditStep, IdleStep, ReturnStep, DiscardStep, BeginStep, Begins, ReadStep,
        ReadBegins, RebaseStep, SameFacts
  <1>2. CASE AroundStep
    BY <1>2
    DEF AroundStep, WithdrawStep, AccessStep, OtherAct, SettleElsewhere, DecideStep
  <1>3. CASE EffectStep
    <2>1. ASSUME NEW e \in Effects, NEW run, StartStep(e, run) PROVE panel'.ctx = panel.ctx
      BY <2>1 DEF StartStep, SameFacts
    <2>2. ASSUME NEW i \in EffectIds, RunStep(i) PROVE panel'.ctx = panel.ctx
      BY <2>2
      DEF RunStep, CommitRecord, FailRecord, SendStep, StopStep, LoseAnswer, CheckedStep,
          ForgetRecord, DeliverStep, PreviewedStep, ObservedStep, SameFacts, Took, Leaves, Read
    <2> QED
      BY <1>3, <2>1, <2>2 DEF EffectStep
  <1> QED
    BY <1>1, <1>2, <1>3 DEF Step

LEMMA AwaitedStep ==
  ASSUME SafeWithdrawals, Typed, Typed', Shape, Shape', Attempts, Awaited, Step, ~MountStep
  PROVE  Awaited'
  <1>1. EffectsGo /\ RunsTurn /\ RunsBegin /\ (panel'.ctx = panel.ctx \/ ContextStep)
    BY EffectsMove, RunsTurnSo, RunsBeginSo, ContextMoves
  <1>2. EffectsShape /\ RunsShape /\ panel.ctx \in Nat
    BY NumbersTyped DEF Shape
  <1>3. ContextStep => panel'.effects = {} /\ panel'.ctx = panel.ctx + 1
    BY DEF ContextStep, Withdrawn
  <1>4. ASSUME NEW i \in EffectIds, NEW phase \in {"PREPARING", "SUBMITTING", "UNRESOLVED"},
               NEW op \in Operations, Settled(op) \/ Holds(op, phase, i)
        PROVE  \/ SettledNow(op) \/ HoldsNow(op, phase, i)
               \/ SendStep(i)
               \/ runs[i].stage \in {"ANSWERED", "CLEARED"} /\ runs'[i].stage = "IDLE"
               \/ phase = "PREPARING" /\ ContextStep
    BY <1>4, SettledGrows, HoldsGo
  <1>5. ASSUME NEW e \in panel.effects, e.kind \in {"EXECUTE", "CHECK_STATUS"}
        PROVE  /\ e.id \in EffectIds /\ e.request.op \in Operations /\ ~SendStep(e.id)
               /\ runs[e.id].stage = "IDLE"
    <2>1. e \in Effects /\ e.request \in Requests /\ runs[e.id].stage = "IDLE"
      BY <1>2, <1>5 DEF Typed, Panels, EffectsShape, Carries
    <2> QED
      BY <2>1 DEF Effects, Requests, SendStep
  <1>6. ASSUME NEW e \in panel'.effects, e.kind \in {"EXECUTE", "CHECK_STATUS"}
        PROVE  /\ e.kind = "EXECUTE" =>
                    SettledNow(e.request.op) \/ HoldsNow(e.request.op, "PREPARING", e.id)
               /\ e.kind = "CHECK_STATUS" =>
                    SettledNow(e.request.op) \/ HoldsNow(e.request.op, "UNRESOLVED", e.id)
    <2>1. CASE e \in panel.effects
      <3>1. ~ContextStep
        BY <1>3, <1>6
      <3>2. /\ e.kind = "EXECUTE" => Settled(e.request.op) \/ Holds(e.request.op, "PREPARING", e.id)
            /\ e.kind = "CHECK_STATUS" =>
                 Settled(e.request.op) \/ Holds(e.request.op, "UNRESOLVED", e.id)
        BY <2>1 DEF Awaited
      <3> QED
        BY <1>4, <1>5, <1>6, <2>1, <3>1, <3>2
    <2>2. CASE e \notin panel.effects
      BY <1>1, <1>6, <2>2 DEF EffectsGo, HoldsNow
    <2> QED
      BY <2>1, <2>2
  <1>7. ASSUME NEW i \in EffectIds, runs[i].stage \in {"PUTTING", "PUT", "SENT", "READING"},
               runs[i].stage = "READING" => runs[i].effect.kind = "CHECK_STATUS"
        PROVE  runs[i].effect.request.op \in Operations
    BY <1>2, <1>7 DEF RunsShape, RunShape, Carries, Requests
  <1>8. ASSUME NEW i \in EffectIds, runs'[i].stage \in {"PUTTING", "PUT", "READING"},
               runs'[i].stage = "READING" => runs'[i].effect.kind = "CHECK_STATUS",
               runs'[i].effect \in panel.effects, runs'[i].effect.id = i,
               SameWork(panel, panel'), UNCHANGED <<abandoned, told, ledger>>
        PROVE  \/ SettledNow(runs'[i].effect.request.op)
               \/ HoldsNow(runs'[i].effect.request.op,
                           IF runs'[i].stage = "READING" THEN "UNRESOLVED" ELSE "PREPARING", i)
    <2>1. runs'[i].stage # "READING" => runs'[i].effect.kind = "EXECUTE"
      BY <1>8 DEF Shape, RunsShape, RunShape
    <2> QED
      BY <1>8, <2>1 DEF Awaited, Settled, SettledNow, Holds, HoldsNow, SameWork
  <1>9. ASSUME NEW i \in EffectIds, runs'[i].stage \in {"PUTTING", "PUT"},
               Current(panel', runs'[i].effect)
        PROVE  \/ SettledNow(runs'[i].effect.request.op)
               \/ HoldsNow(runs'[i].effect.request.op, "PREPARING", i)
    <2>1. CASE runs'[i].effect = runs[i].effect /\ runs[i].stage \in {"PUTTING", "PUT"}
      <3>1. runs[i].effect.ctx \in Nat /\ runs[i].effect.ctx <= panel.ctx
        BY <1>2, <2>1 DEF RunsShape, RunShape, Effects
      <3>2. ~ContextStep
        BY <1>2, <1>3, <1>9, <2>1, <3>1 DEF Current
      <3>3. Current(panel, runs[i].effect)
        BY <1>1, <1>9, <2>1, <3>2 DEF Current
      <3>4. Settled(runs[i].effect.request.op) \/ Holds(runs[i].effect.request.op, "PREPARING", i)
        BY <2>1, <3>3 DEF Awaited
      <3>5. ~SendStep(i)
        BY <1>9 DEF SendStep, Marked
      <3> QED
        BY <1>4, <1>7, <2>1, <3>2, <3>4, <3>5
    <2> QED
      BY <1>1, <1>8, <1>9, <2>1 DEF RunsBegin
  <1>10. ASSUME NEW i \in EffectIds, runs'[i].stage = "READING",
                runs'[i].effect.kind = "CHECK_STATUS"
         PROVE  \/ SettledNow(runs'[i].effect.request.op)
                \/ HoldsNow(runs'[i].effect.request.op, "UNRESOLVED", i)
    <2>1. CASE runs'[i].effect = runs[i].effect /\ runs[i].stage = "READING"
      <3>1. Settled(runs[i].effect.request.op) \/ Holds(runs[i].effect.request.op, "UNRESOLVED", i)
        BY <1>10, <2>1 DEF Awaited
      <3>2. ~SendStep(i)
        BY <2>1 DEF SendStep
      <3> QED
        BY <1>4, <1>7, <1>10, <2>1, <3>1, <3>2
    <2> QED
      BY <1>1, <1>8, <1>10, <2>1 DEF RunsBegin
  <1>11. ASSUME NEW i \in EffectIds, runs'[i].stage = "SENT"
         PROVE  \/ SettledNow(runs'[i].effect.request.op)
                \/ HoldsNow(runs'[i].effect.request.op, "SUBMITTING", i)
    <2>1. runs'[i].effect = runs[i].effect
      BY <1>1, <1>11 DEF RunsTurn
    <2>2. CASE runs[i].stage = "SENT"
      <3>1. Settled(runs[i].effect.request.op) \/ Holds(runs[i].effect.request.op, "SUBMITTING", i)
        BY <2>2 DEF Awaited
      <3>2. ~SendStep(i)
        BY <2>2 DEF SendStep
      <3> QED
        BY <1>4, <1>7, <1>11, <2>1, <2>2, <3>1, <3>2
    <2>3. CASE SendStep(i)
      <3>1. Settled(runs[i].effect.request.op) \/ Holds(runs[i].effect.request.op, "PREPARING", i)
        BY <2>3 DEF SendStep, Awaited
      <3>2. runs[i].effect.request.op \in Operations /\ runs[i].effect.id = i
        BY <1>2, <1>7, <2>3 DEF SendStep, RunsShape, RunShape
      <3>3. CASE Settled(runs[i].effect.request.op)
        BY <2>1, <3>2, <3>3, SettledGrows
      <3>4. CASE Holds(runs[i].effect.request.op, "PREPARING", i)
        BY <2>1, <2>3, <3>2, <3>4 DEF SendStep, Holds, HoldsNow, Completing, Busy
      <3> QED
        BY <3>1, <3>3, <3>4
    <2> QED
      BY <1>1, <1>11, <2>2, <2>3 DEF RunsTurn
  <1> QED
    BY <1>6, <1>9, <1>10, <1>11
    DEF Awaited, Settled, SettledNow, Holds, HoldsNow, Current

(* A receipt that is heard is of the operation the panel holds. *)
LEMMA HeardIsHeld ==
  ASSUME Typed, Shape, Awaited, LedgerGoes, NEW op, NEW i \in EffectIds, HeardNew(op, i)
  PROVE  \/ op \in abandoned \cup told
         \/ /\ panel.source.op = op
            /\ panel.phase = "UNRESOLVED" \/ (panel.phase = "SUBMITTING" /\ panel.effect = i)
  <1>1. op \in Operations /\ ledger'[op] = "ACCEPTED"
    BY DEF HeardNew
  <1>2. ledger[op] # "FENCED"
    BY <1>1 DEF LedgerGoes
  <1> QED
    BY <1>1, <1>2 DEF HeardNew, Awaited, Settled, Holds

LEMMA AcceptedStays ==
  ASSUME Typed, Step, ~MountStep, panel.phase = "ACCEPTED"
  PROVE  panel'.phase = "ACCEPTED" \/ panel'.source = NoRequest
  <1>1. CASE AuthorStep
    BY <1>1
    DEF AuthorStep, EditStep, IdleStep, ReturnStep, DiscardStep, Emptied, BeginStep, ReadStep,
        RebaseStep
  <1>2. CASE AroundStep
    BY <1>2
    DEF AroundStep, ContextStep, WithdrawStep, Withdrawn, AccessStep, SameWork, OtherAct,
        SettleElsewhere, DecideStep
  <1>3. CASE EffectStep
    <2>1. ASSUME NEW e \in Effects, NEW run, StartStep(e, run) PROVE panel'.phase = "ACCEPTED"
      BY <2>1 DEF StartStep, SameWork
    <2>2. ASSUME NEW i \in EffectIds, RunStep(i) PROVE panel'.phase = "ACCEPTED"
      <3>1. ASSUME NEW answer, Took(panel, panel', runs[i].effect, answer) PROVE FALSE
        BY <3>1 DEF Took, Completing, Busy
      <3> QED
        BY <2>2, <3>1
        DEF RunStep, CommitRecord, FailRecord, SendStep, StopStep, LoseAnswer, CheckedStep,
            ForgetRecord, DeliverStep, PreviewedStep, ObservedStep, Read, SameWork
    <2> QED
      BY <1>3, <2>1, <2>2 DEF EffectStep
  <1> QED
    BY <1>1, <1>2, <1>3 DEF Step

LEMMA MarksStep ==
  ASSUME Typed, Typed', Shape, Shape', Wired, Awaited, Marks, Step, ~MountStep
  PROVE  Marks'
  <1>1. Moves /\ ToldGoes /\ AbandonedGoes /\ HeardGoes /\ LedgerGoes
    BY SourceMoves, ToldMoves, AbandonedMoves, HeardMoves, LedgerMoves
  <1>2. PanelShape /\ PanelShape'
    BY DEF Shape
  <1>3. /\ nextOperation \in Nat /\ nextOperation' \in Nat /\ nextOperation' >= nextOperation
        /\ panel.draft.op \in Nat /\ panel.draft.op < nextOperation
    BY <1>1, <1>2, NumbersTyped DEF Moves, PanelShape, Typed
  <1>4. heard \cup told \cup abandoned \subseteq Operations /\ 0 \notin Operations
        /\ Operations \subseteq Nat
    BY DEF Typed, Operations
  <1>5. nextOperation \notin told \cup abandoned /\ 0 \notin told \cup abandoned
    BY <1>3, <1>4 DEF Marks
  <1>6. panel.phase # "EDITING" => panel.source.op = panel.draft.op /\ panel.source # NoRequest
    <2>1. NoRequest \notin Requests
      BY DEF NoRequest, Requests, Operations
    <2> QED
      BY <1>2, <2>1 DEF PanelShape
  <1>7. panel'.source # NoRequest => panel'.draft = panel'.source
    BY <1>2 DEF PanelShape
  <1>8. panel'.draft.op \notin abandoned'
    <2>1. CASE abandoned' = abandoned
      <3>1. panel'.source \in Requests => panel'.draft = panel'.source
        BY <1>7 DEF NoRequest, Requests, Operations
      <3>2. panel.draft.op \notin abandoned
        BY DEF Marks
      <3> QED
        BY <1>1, <1>5, <2>1, <3>1, <3>2 DEF Moves
    <2>2. CASE DiscardStep /\ panel.phase = "UNRESOLVED"
               /\ abandoned' = abandoned \cup {panel.source.op}
      <3>1. panel'.draft.op = nextOperation /\ panel.source.op < nextOperation
        BY <1>3, <1>6, <2>2 DEF DiscardStep, Emptied
      <3> QED
        BY <1>3, <1>5, <1>6, <2>2, <3>1
    <2> QED
      BY <1>1, <2>1, <2>2 DEF AbandonedGoes
  <1>9. panel'.draft.op \in told' => panel'.phase = "ACCEPTED"
    <2>1. SUFFICES ASSUME told' = told, panel'.draft.op \in told PROVE panel'.phase = "ACCEPTED"
      BY <1>1 DEF ToldGoes
    <2>2. CASE panel'.source = panel.source /\ panel'.draft = panel.draft
      <3>1. panel.phase = "ACCEPTED"
        BY <2>1, <2>2 DEF Marks
      <3> QED
        BY <1>6, <2>2, <3>1, AcceptedStays
    <2>3. CASE panel'.source = NoRequest /\ panel.source = NoRequest
               /\ panel'.draft.op = panel.draft.op
      BY <1>6, <2>1, <2>3 DEF Marks
    <2>4. CASE panel'.source = NoRequest /\ panel'.draft.op \in {0, nextOperation}
      BY <1>5, <2>1, <2>4
    <2>5. CASE panel.source = NoRequest /\ panel'.source = panel.draft /\ panel'.source \in Requests
      <3>1. panel'.draft = panel.draft
        BY <1>7, <2>5 DEF NoRequest, Requests, Operations
      <3> QED
        BY <1>6, <2>1, <2>5, <3>1 DEF Marks
    <2>6. CASE panel'.source \in Requests /\ panel'.source.op = nextOperation
      <3>1. panel'.draft = panel'.source
        BY <1>7, <2>6 DEF NoRequest, Requests, Operations
      <3> QED
        BY <1>5, <2>1, <2>6, <3>1
    <2> QED
      BY <1>1, <2>2, <2>3, <2>4, <2>5, <2>6 DEF Moves
  <1>10. /\ panel'.source # NoRequest => panel'.source.op \notin abandoned'
         /\ panel'.source # NoRequest /\ panel'.source.op \in told' => panel'.phase = "ACCEPTED"
    BY <1>7, <1>8, <1>9
  <1>11. ASSUME NEW op \in heard' \cup told' \cup abandoned' PROVE op < nextOperation'
    <2>1. op \in Nat
      BY <1>11 DEF Typed, Operations
    <2>2. op \in heard \cup told \cup abandoned => op < nextOperation
      BY DEF Marks
    <2>3. CASE op \in told' \/ op \in abandoned'
      <3>1. op \in told \cup abandoned \/ op = panel.source.op
        BY <1>1, <2>3 DEF ToldGoes, AbandonedGoes
      <3>2. op \notin told \cup abandoned => panel.source # NoRequest
        <4>1. op \in told' \ told => panel'.phase = "ACCEPTED" /\ panel'.source = panel.source
          BY <1>1 DEF ToldGoes
        <4>2. op \in abandoned' \ abandoned => panel.phase = "UNRESOLVED"
          BY <1>1 DEF AbandonedGoes, MountStep
        <4>3. panel'.phase = "ACCEPTED" => panel'.source # NoRequest
          BY <1>2 DEF PanelShape, NoRequest, Requests, Operations
        <4> QED
          BY <1>6, <2>3, <4>1, <4>2, <4>3
      <3>3. panel.source # NoRequest => panel.draft = panel.source
        BY <1>2 DEF PanelShape
      <3> QED
        BY <1>3, <2>1, <2>2, <3>1, <3>2, <3>3
    <2>4. CASE op \in heard'
      <3>1. ASSUME NEW i \in EffectIds, HeardNew(op, i) PROVE op < nextOperation
        BY <1>1, <1>3, <1>6, <2>2, <3>1, HeardIsHeld
      <3> QED
        BY <1>1, <1>3, <2>1, <2>2, <2>4, <3>1 DEF HeardGoes
    <2> QED
      BY <1>11, <2>3, <2>4
  <1> QED
    BY <1>8, <1>9, <1>10, <1>11 DEF Marks

LEMMA ReceiptsStep ==
  ASSUME SafeWithdrawals, Typed, Shape, Wired, Attempts, Awaited, Receipts, Step, ~MountStep
  PROVE  Receipts'
  <1>1. /\ HeardGoes /\ ToldGoes /\ AbandonedGoes /\ LedgerGoes /\ RunsAnswered
    BY HeardMoves, ToldMoves, AbandonedMoves, LedgerMoves, RunsAnsweredSo
  <1>2. \A op \in heard' : ledger'[op] = "ACCEPTED"
    <2>1. \A op \in heard : op \in Operations /\ ledger[op] = "ACCEPTED"
      BY DEF Typed, Receipts
    <2> QED
      BY <1>1, <2>1 DEF HeardGoes, HeardNew, LedgerGoes
  <1>3. ASSUME NEW op \in heard' \ (abandoned' \cup told')
        PROVE  /\ panel'.source.op = op
               /\ \/ panel'.phase = "UNRESOLVED"
                  \/ /\ panel'.phase = "SUBMITTING" /\ panel'.effect # 0
                     /\ runs'[panel'.effect].stage \in {"ANSWERED", "CLEARED"}
                     /\ runs'[panel'.effect].answer = "RECORD"
    <2>1. ledger'[op] = "ACCEPTED" /\ ~SettledNow(op)
      BY <1>2, <1>3 DEF SettledNow
    <2>2. op \notin abandoned \cup told
      BY <1>1, <1>3 DEF ToldGoes, AbandonedGoes
    <2>3. ASSUME NEW i \in EffectIds, HeardNew(op, i)
          PROVE  /\ panel'.source.op = op
                 /\ \/ panel'.phase = "UNRESOLVED"
                    \/ /\ panel'.phase = "SUBMITTING" /\ panel'.effect # 0
                       /\ runs'[panel'.effect].stage \in {"ANSWERED", "CLEARED"}
                       /\ runs'[panel'.effect].answer = "RECORD"
      <3>1. i # 0 /\ panel' = panel /\ runs'[i].stage = "ANSWERED" /\ runs'[i].answer = "RECORD"
        BY <2>3 DEF HeardNew, EffectIds
      <3> QED
        BY <1>1, <2>2, <2>3, <3>1, HeardIsHeld
    <2>4. CASE op \in heard /\ panel.phase = "UNRESOLVED"
      BY <2>1, <2>2, <2>4, DoubtStays DEF Receipts
    <2>5. CASE op \in heard /\ panel.phase = "SUBMITTING"
      <3> DEFINE i == panel.effect
      <3>1. /\ i \in EffectIds /\ panel.source.op = op
            /\ runs[i].stage \in {"ANSWERED", "CLEARED"} /\ runs[i].answer = "RECORD"
        BY <2>2, <2>5 DEF Receipts, Typed, Panels
      <3>2. runs[i].effect.id = i /\ runs[i].effect.ctx = panel.ctx
            /\ runs[i].effect.request = panel.source
        BY <3>1 DEF Shape, RunsShape, RunShape
      <3>3. i # 0 /\ panel.effect = i
        BY <3>1 DEF EffectIds
      <3> HIDE DEF i
      <3>4. ~DeliverStep(i)
        <4>1. SUFFICES ASSUME DeliverStep(i) PROVE op \in told'
          BY <1>3
        <4>2. panel' # panel
          BY <2>5, <3>1, <3>2, <3>3, <4>1 DEF DeliverStep, Completing, Current, Busy
        <4> QED
          BY <3>1, <3>2, <4>1, <4>2 DEF DeliverStep, Witnessed
      <3>5. ~SendStep(i)
        BY <3>1 DEF SendStep
      <3>6. runs'[i].stage \in {"ANSWERED", "CLEARED"} /\ runs'[i].answer = "RECORD"
        BY <1>1, <3>1, <3>4 DEF RunsAnswered
      <3>7. \/ panel'.source = panel.source /\ panel'.phase = "SUBMITTING" /\ panel'.effect = i
            \/ panel'.source = panel.source /\ panel'.phase = "UNRESOLVED"
        BY <2>5, <3>1, <3>3, <3>4, <3>5, WaitingStays
      <3> QED
        BY <3>1, <3>3, <3>6, <3>7
    <2>6. op \in heard => panel.phase \in {"UNRESOLVED", "SUBMITTING"}
      BY <2>2 DEF Receipts
    <2> QED
      BY <1>1, <1>3, <2>3, <2>4, <2>5, <2>6 DEF HeardGoes
  <1> QED
    BY <1>2, <1>3 DEF Receipts

LEMMA HearingMount ==
  ASSUME Typed, Shape, Marks, MountStep
  PROVE  Hearing'
  <1>1. /\ panel'.effects = {} /\ panel'.source = NoRequest /\ panel'.draft.op = nextOperation
        /\ nextOperation' = nextOperation + 1 /\ nextOperation \in Nat
        /\ heard' = {} /\ abandoned' = {} /\ told' = told
        /\ \A i \in EffectIds : runs'[i].stage = "IDLE"
    BY NumbersTyped DEF MountStep, Emptied, Idle
  <1>2. \A op \in told : op \in Nat /\ op < nextOperation
    BY DEF Marks, Typed, Operations
  <1> QED
    BY <1>1, <1>2 DEF Hearing, Awaited, Marks, Receipts

LEMMA HearingStep ==
  ASSUME SafeWithdrawals, Typed, Typed', Shape, Shape', Wired, Attempts, Hearing, Step
  PROVE  Hearing'
  BY HearingMount, AwaitedStep, MarksStep, ReceiptsStep DEF Hearing

----------------------------------------------------------------------------
(* The initial state: a fresh panel, nothing under way. *)
LEMMA InitIsFresh ==
  ASSUME Init
  PROVE  /\ scenario \in Scenarios /\ page \in Actors /\ page \in Requesters /\ 1 \in Operations
         /\ head \in 0..MaxRevision
         /\ Emptied(panel, 1) /\ panel.owner = page /\ panel.ctx = 0 /\ panel.seen = 0
         /\ panel.refused = FALSE
  <1>1. /\ scenario \in Scenarios /\ page \in Actors /\ page \in Requesters /\ 1 \in Operations
        /\ head \in 0..MaxRevision
    BY OperationAssumption DEF Init, Requesters, Operations
  <1>2. panel = Fresh(page, 1, head)
    BY DEF Init
  <1> QED
    BY <1>1, <1>2, MountedFields

LEMMA InitHolds ==
  ASSUME Init
  PROVE  Typed /\ Shape /\ Identities /\ Wired /\ Attempts /\ Reviews /\ Freshness
  <1>1. /\ scenario \in Scenarios /\ page \in Actors /\ page \in Requesters /\ 1 \in Operations
        /\ head \in 0..MaxRevision /\ 1 \in 1..(MaxEffects + 1)
        /\ 2 \in 1..(MaxOperations + 1) /\ 0 \in 0..MaxContexts
    BY InitIsFresh, OperationAssumption DEF Operations
  <1>2. /\ Emptied(panel, 1) /\ panel.owner = page /\ panel.ctx = 0 /\ panel.seen = 0
        /\ panel.refused = FALSE
    BY InitIsFresh
  <1>3. Typed
    <2>1. runs \in [EffectIds -> Runs]
      BY IdleIsRun DEF Init
    <2> QED
      BY <1>1, <1>2, <2>1 DEF Init, Typed, Emptied
  <1>4. \A i \in EffectIds : runs[i].stage = "IDLE"
    BY DEF Init, Idle
  <1>5. Shape
    BY <1>2, <1>4 DEF Init, Emptied, Shape, PanelShape, EffectsShape, RunsShape
  <1>6. Exposed = {}
    <2>1. panel.source \notin Requests /\ panel.effects = {}
      BY <1>2 DEF Emptied, NoRequest, Requests, Operations
    <2>2. Live = {}
      BY <1>4, <2>1 DEF Live
    <2>3. sent = {}
      BY DEF Init
    <2> QED
      BY <2>2, <2>3 DEF Exposed
  <1>7. Identities
    BY <1>6 DEF Identities
  <1>8. Wired /\ Attempts
    BY <1>4 DEF Init, Wired, Attempts, RecordOutlivesDoubt
  <1>9. Reviews
    BY <1>2, <1>4 DEF Init, Emptied, Reviews, ConfirmedWhereReviewed
  <1>10. Freshness
    BY <1>2 DEF Init, Emptied, Freshness
  <1> QED
    BY <1>3, <1>5, <1>7, <1>8, <1>9, <1>10

IInv == Typed /\ Shape /\ Identities /\ Wired /\ Attempts /\ Reviews /\ Freshness

LEMMA IInvStep ==
  ASSUME IInv, [Next]_vars
  PROVE  Step /\ IInv'
  <1>1. Step /\ Typed' /\ Shape'
    BY TypedShapeStep DEF IInv
  <1> QED
    BY <1>1, IdentitiesStep, WiredStep, AttemptsStep, ReviewsStep, FreshnessStep DEF IInv

LEMMA Invariance == Spec => []IInv
  <1>1. Init => IInv
    BY InitHolds DEF IInv
  <1>2. IInv /\ [Next]_vars => IInv'
    BY IInvStep
  <1> QED
    BY <1>1, <1>2, PTL DEF Spec

LEMMA HearingInvariance ==
  ASSUME SafeWithdrawals
  PROVE  Spec => []Hearing
  <1>1. Init => Hearing
    <2>1. Init => Emptied(panel, 1)
      BY InitIsFresh
    <2> QED
      BY <2>1
      DEF Init, Idle, Emptied, Hearing, Awaited, Marks, Receipts
  <1>2. IInv /\ Hearing /\ [Next]_vars => IInv' /\ Hearing'
    BY IInvStep, HearingStep DEF IInv
  <1> QED
    BY <1>1, <1>2, Invariance, PTL DEF Spec

(* What the person entered is left alone by every step but an edit, a discard and a
   remount. *)
LEMMA QuietKeepsText ==
  ASSUME Typed, QuietStep
  PROVE  panel'.draft.text = panel.draft.text
  <1>1. CASE EffectStep
    <2>1. ASSUME NEW e \in Effects, NEW run, StartStep(e, run)
          PROVE  panel'.draft.text = panel.draft.text
      BY <2>1 DEF StartStep, SameWork
    <2>2. ASSUME NEW i \in EffectIds, RunStep(i) PROVE panel'.draft.text = panel.draft.text
      BY <2>2
      DEF RunStep, CommitRecord, FailRecord, SendStep, StopStep, LoseAnswer, CheckedStep,
          ForgetRecord, DeliverStep, PreviewedStep, ObservedStep, Took, Leaves, Read, SameWork
    <2> QED
      BY <1>1, <2>1, <2>2 DEF EffectStep
  <1>2. CASE ~EffectStep
    BY <1>2
    DEF QuietStep, IdleStep, ReturnStep, BeginStep, Begins, ReadStep, ReadBegins, RebaseStep,
        ContextStep, WithdrawStep, Withdrawn, AccessStep, OtherAct, SettleElsewhere, DecideStep,
        SameWork
  <1> QED
    BY <1>1, <1>2

(* Of those steps, only a delivered answer takes a panel out of doubt. *)
LEMMA QuietKeepsDoubt ==
  ASSUME Typed, Shape, Attempts, QuietStep, panel.phase = "UNRESOLVED"
  PROVE  panel'.phase \in {"UNRESOLVED", "ACCEPTED"} \/ ledger[panel.source.op] = "FENCED"
  <1>1. CASE EffectStep
    <2>1. ASSUME NEW e \in Effects, NEW run, StartStep(e, run) PROVE panel'.phase = panel.phase
      BY <2>1 DEF StartStep, SameWork
    <2>2. ASSUME NEW i \in EffectIds, RunStep(i), panel' # panel,
                 panel'.phase \notin {"UNRESOLVED", "ACCEPTED"}
          PROVE  ledger[panel.source.op] = "FENCED"
      <3>1. ASSUME NEW answer, Took(panel, panel', runs[i].effect, answer)
            PROVE  answer = "NOT_ACCEPTED"
        BY <2>2, <3>1 DEF Took, Sticky
      <3>2. CASE DeliverStep(i)
        <4>1. /\ runs[i].answer = "NOT_ACCEPTED" /\ panel.effect = runs[i].effect.id
              /\ runs[i].stage # "IDLE"
          BY <2>2, <3>1, <3>2 DEF DeliverStep, Took, Completing
        <4>2. RunShape(i) /\ AnswersAreFinal(i)
          BY <4>1 DEF Shape, RunsShape, Attempts
        <4> QED
          BY <4>1, <4>2 DEF RunShape, AnswersAreFinal
      <3>3. ~SendStep(i)
        BY <2>2 DEF SendStep
      <3>4. ASSUME NEW answer \in PreviewedAnswers, PreviewedStep(i, answer) PROVE FALSE
        BY <2>2, <3>1, <3>4 DEF PreviewedStep, PreviewedAnswers
      <3>5. ASSUME NEW answer, ObservedStep(i, answer) PROVE FALSE
        BY <2>2, <3>5 DEF ObservedStep, Read, SameWork
      <3> QED
        BY <2>2, <3>2, <3>3, <3>4, <3>5
        DEF RunStep, CommitRecord, FailRecord, StopStep, LoseAnswer, CheckedStep, ForgetRecord
    <2> QED
      BY <1>1, <2>1, <2>2 DEF EffectStep
  <1>2. CASE ~EffectStep
    BY <1>2
    DEF QuietStep, IdleStep, ReturnStep, BeginStep, Begins, ReadStep, ReadBegins, RebaseStep,
        ContextStep, WithdrawStep, Withdrawn, AccessStep, OtherAct, SettleElsewhere, DecideStep,
        SameWork, AtRest
  <1> QED
    BY <1>1, <1>2

----------------------------------------------------------------------------
(* The state keeps its types, and an effect is owned only by a busy phase
   (operationState.ts). *)
THEOREM TypeCorrect == Spec => []TypeOK
  <1>1. IInv => TypeOK
    <2> SUFFICES ASSUME IInv PROVE TypeOK
      OBVIOUS
    <2>1. Typed /\ panel.effect # 0 => Busy(panel)
      BY DEF IInv, Shape, PanelShape
    <2>2. \A i \in EffectIds : runs[i].stage # "IDLE" =>
            runs[i].effect \in Effects /\ runs[i].effect.id = i
      BY DEF IInv, Shape, RunsShape, RunShape
    <2>3. \A i \in EffectIds : runs[i].stage \in Stages
      BY DEF IInv, Typed, Runs
    <2> QED
      BY <2>1, <2>2, <2>3
      DEF IInv, Shape, PanelShape, Typed, Panels, Drafts, Sources, Conflicts, Stages, TypeOK
  <1> QED
    BY <1>1, Invariance, PTL

(* However a draft is edited, rebased, abandoned or sent again, one operation
   identity is dispatched with one request and by one requester (the frozen
   request of operationState.ts, withOperationId). *)
THEOREM OneRequestHolds == Spec => []OneRequestPerIdentity
  <1>1. IInv => OneRequestPerIdentity
    BY DEF IInv, Identities, Exposed, Attempts, OneRequestPerIdentity
  <1> QED
    BY <1>1, Invariance, PTL

(* A dispatched operation whose fate the ledger has not decided is listed in the
   journal for its requester (journalBeforeSend in useOperation.ts). *)
THEOREM RecordsOutliveDoubt == Spec => []RecordOutlivesDoubt
  <1>1. IInv => RecordOutlivesDoubt
    BY DEF IInv, Attempts
  <1> QED
    BY <1>1, Invariance, PTL

(* A request is first dispatched in the context its review was shown in (the
   context fence of the effects and of the reducer's Current). *)
THEOREM ConfirmationsHold == Spec => []ConfirmedWhereReviewed
  <1>1. IInv => ConfirmedWhereReviewed
    BY DEF IInv, Reviews
  <1> QED
    BY <1>1, Invariance, PTL

(* What is shown rests on an answer asked for after the last refusal or change of
   context (hasCurrentDisclosure). *)
THEOREM FreshProofHolds == Spec => []FactsHaveFreshProof
  <1>1. IInv => FactsHaveFreshProof
    BY DEF IInv, Freshness, Shown, FactsHaveFreshProof
  <1> QED
    BY <1>1, Invariance, PTL

(* An unknown outcome is left for the receipt, after a final nonacceptance, or by
   the person (refuse and notAccepted in operationState.ts). *)
THEOREM DoubtSticks == Spec => DoubtIsSticky
  <1> DEFINE Stays == panel.phase = "UNRESOLVED" /\ panel'.phase \notin {"UNRESOLVED", "ACCEPTED"}
                        => ledger[panel.source.op] = "FENCED" \/ Discard \/ Remount
  <1>1. ASSUME IInv, [Next]_vars PROVE Stays
    <2>1. Typed /\ Shape /\ Attempts
      BY <1>1 DEF IInv
    <2>2. EditStep => panel.phase = "EDITING"
      BY DEF EditStep
    <2> QED
      BY <1>1, <2>1, <2>2, StepsHaveForms, QuietKeepsDoubt
  <1>2. IInv /\ [Next]_vars => [Stays]_vars
    BY <1>1
  <1> QED
    BY <1>2, Invariance, PTL DEF Spec, DoubtIsSticky

(* The draft's text changes only by an edit, a discard or a remount: refusals,
   conflicts, the rebase and changes of context keep it (operationState.ts). *)
THEOREM TextSurvives == Spec => AuthoredTextSurvives
  <1> DEFINE Kept == panel'.draft.text # panel.draft.text
                       => EditDraft \/ EnterPartialDate \/ Discard \/ Remount
  <1>1. ASSUME IInv, [Next]_vars PROVE Kept
    <2>1. Typed /\ Shape
      BY <1>1 DEF IInv
    <2> QED
      BY <1>1, <2>1, StepsHaveForms, QuietKeepsText
  <1>2. IInv /\ [Next]_vars => [Kept]_vars
    BY <1>1
  <1> QED
    BY <1>2, Invariance, PTL DEF Spec, AuthoredTextSurvives
(* An accepted operation whose receipt reached the page is not left without both
   its journal record and its place in the panel (the removal before the receipt
   is shown in useOperation.ts), where no withdrawal comes between the journal
   write and the dispatch. *)
THEOREM HeardIsShown ==
  ASSUME SafeWithdrawals
  PROVE  Spec => []HeardAcceptanceIsShown
  <1>1. Hearing => HeardAcceptanceIsShown
    BY DEF Hearing, Receipts, HeardAcceptanceIsShown
  <1> QED
    BY <1>1, HearingInvariance, PTL
=============================================================================
