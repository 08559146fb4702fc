---------------------------- MODULE BrowserAuthority ----------------------------
(***************************************************************************)
(* The access panel of the browser (AuthorityPanel.tsx, useAuthorityTarget.ts,*)
(* useAuthorityDisclosure.ts): a directory and one person's record are read   *)
(* and re-read under a disclosure that a refusal ends, while one form for     *)
(* authority acts outlives all of them. The form is seeded from the record in *)
(* front of the person; a change of act over work asks first, and is carried  *)
(* out only if the record it was chosen on is still disclosed. React renders  *)
(* and runs its effects before the next event, so each action ends with       *)
(* Rendered. Texts are written or not; inside the form's requests are         *)
(* BrowserOperation's.                                                        *)
(***************************************************************************)
EXTENDS Naturals, FiniteSets

CONSTANTS
  Actors,        \* the people of the directory
  MaxRevision    \* how often a disclosure is replaced in a run

VARIABLES
  actorId,      \* the person in the address bar, or Nobody
  available,    \* the requester may see the access panel
  disclosure,   \* the disclosure in force, its progress and whether it is shown
  snapshot,     \* the selected person's record under that disclosure, or NoRecord
  form,         \* the one authority form
  intent,       \* an act chosen on a record and waiting for consent, or NoIntent
  pending,      \* what the consent dialog asks about, or NothingAsked
  admission,    \* the form was last seeded from a pending access request
  opened        \* the form is open

authority == <<actorId, available, disclosure, snapshot, form, intent, pending, admission, opened>>

Nobody == [kind |-> "NOBODY"]
Person(a) == [kind |-> "ACTOR", actor |-> a]
Applicant == [kind |-> "APPLICANT"]
NoRecord == [kind |-> "NO_RECORD"]
NoIntent == [kind |-> "NO_INTENT"]
NothingAsked == "NOTHING"
Acts == {"GRANT", "SET_PROFILE"}

(* The form (operationState.ts). facts is the disclosure its prefilled values
   were taken from; work is what it holds beyond them, a new operation identity
   included. A "PREPARED" form is under review or came back from one.      *)

Fresh(kind, about, facts, masked) ==
  [kind |-> kind, about |-> about, facts |-> facts, phase |-> "EDITING", work |-> "NOTHING",
   seeded |-> FALSE, masked |-> masked]
Waiting(f) == f.phase \in {"PREVIEWING", "SUBMITTING"}
Uncertain(f) == f.phase = "UNRESOLVED"
retained(f) == f.phase # "ACCEPTED" /\ (f.work # "NOTHING" \/ f.phase # "EDITING")
interrupted(f) ==
  [f EXCEPT !.phase = IF @ = "SUBMITTING" THEN "UNRESOLVED" ELSE IF @ = "PREVIEWING" THEN "PREPARED" ELSE @,
            !.masked = TRUE]

(* Whom the form is about (useAuthorityTarget.ts).                         *)

shown(d, on) == on /\ d.active
disclosedTo(s, d, a, on) ==
  IF s # NoRecord /\ shown(d, on) /\ s.revision = d.revision /\ Person(s.actor) = a THEN s ELSE NoRecord
authorityPrimaryAction(offered) ==
  {"GRANT"} \cap offered
admissionBound(f, request) == request /\ f.kind = "ADMIT" /\ f.about = Applicant
actorBound(f, s) == s # NoRecord /\ f.about = Person(s.actor) /\ f.kind # "ADMIT"
fixed(f, s, request) == admissionBound(f, request) \/ actorBound(f, s)
actorValues(s, kind, f) == Fresh(kind, Person(s.actor), {s.revision}, f.masked)
Blank(kind, f) == Fresh(kind, Nobody, {}, f.masked)

\* A bug: a form that came back from its review counts as untouched.
useActorDefault_Returned(f, s, request) ==
  IF Waiting(f) \/ f.work # "NOTHING" THEN f
  ELSE IF fixed(f, s, request) THEN [f EXCEPT !.seeded = TRUE]
  ELSE IF s = NoRecord THEN (IF f.phase # "ACCEPTED" /\ f.seeded THEN Blank("ADMIT", f) ELSE f)
  ELSE IF authorityPrimaryAction(s.offered) # {}
       THEN [actorValues(s, CHOOSE k \in authorityPrimaryAction(s.offered) : TRUE, f) EXCEPT !.seeded = TRUE]
       ELSE f

useActorDefault(f, s, request) ==
  IF retained(f) \/ Waiting(f) THEN f
  ELSE IF fixed(f, s, request) THEN [f EXCEPT !.seeded = TRUE]
  ELSE IF s = NoRecord THEN (IF f.phase # "ACCEPTED" /\ f.seeded THEN Blank("ADMIT", f) ELSE f)
  ELSE IF authorityPrimaryAction(s.offered) # {}
       THEN [actorValues(s, CHOOSE k \in authorityPrimaryAction(s.offered) : TRUE, f) EXCEPT !.seeded = TRUE]
       ELSE f

(* React, after an event that left form f and the editor open or not: restoring
   a disclosure lifts the mask, and the default effect settles in one go.   *)
Rendered(f, open) ==
  /\ form' = useActorDefault(IF disclosure'.ready /\ ~disclosure.ready THEN [f EXCEPT !.masked = FALSE] ELSE f,
                            snapshot', admission')
  /\ opened' = (open /\ actorId' = actorId /\ disclosure'.revision = disclosure.revision
                  /\ available' = available)

Forgets == snapshot' = disclosedTo(snapshot, disclosure', actorId', available')

AuthorityInit ==
  /\ actorId = Nobody /\ available = TRUE
  /\ disclosure = [revision |-> 0, active |-> TRUE, ready |-> TRUE, revalidating |-> FALSE, restored |-> {}]
  /\ snapshot = NoRecord /\ form = Fresh("ADMIT", Nobody, {}, FALSE)
  /\ intent = NoIntent /\ pending = NothingAsked /\ admission = FALSE /\ opened = FALSE

(* What is read, and what ends it (useAuthorityDisclosure.ts).             *)

Select ==
  /\ ~Waiting(form)
  /\ \E a \in {Nobody} \cup {Person(x) : x \in Actors} : a # actorId /\ actorId' = a
  /\ UNCHANGED <<available, disclosure, intent, pending, admission>>
  /\ Forgets /\ Rendered(form, opened)

ViewsChanged ==
  /\ available' = ~available
  /\ UNCHANGED <<actorId, disclosure, intent, pending, admission>>
  /\ Forgets /\ Rendered(form, opened)

invalidate(force) ==
  /\ disclosure.revision < MaxRevision
  /\ disclosure' = [revision |-> disclosure.revision + 1, active |-> force \/ ~disclosure.revalidating,
                    ready |-> FALSE, revalidating |-> TRUE, restored |-> {}]

\* A reply of disclosure n was a refusal; an old one still clears the page, but not the disclosure.
Refuse(n, f) ==
  /\ IF n = disclosure.revision THEN invalidate(FALSE) ELSE UNCHANGED disclosure
  /\ actorId' = Nobody /\ UNCHANGED <<available, intent, pending, admission>>
  /\ Forgets /\ Rendered(interrupted(f), opened)

refused ==
  \E n \in {disclosure.revision} \cup {r \in 0..MaxRevision : r + 1 = disclosure.revision} : Refuse(n, form)

restored ==
  /\ disclosure.active
  /\ \E part \in {"context", "listing"} :
       /\ part = "listing" => available
       /\ LET all == disclosure.restored \cup {part}
              both == Cardinality(all) = 2
          IN  disclosure' = [disclosure EXCEPT !.restored = all, !.revalidating = @ /\ ~both, !.ready = @ \/ both]
  /\ UNCHANGED <<actorId, available, intent, pending, admission>>
  /\ Forgets /\ Rendered(form, opened)

observe ==
  /\ shown(disclosure, available) /\ actorId # Nobody
  /\ \E offered \in {{"SET_PROFILE"}, Acts} :
       snapshot' = [kind |-> "RECORD", revision |-> disclosure.revision,
                    actor |-> actorId.actor, offered |-> offered]
  /\ UNCHANGED <<actorId, available, disclosure, intent, pending, admission>>
  /\ Rendered(form, opened)

ReloadActors ==
  /\ ~disclosure.active /\ invalidate(TRUE)
  /\ UNCHANGED <<actorId, available, intent, pending, admission>>
  /\ Forgets /\ Rendered(form, opened)

(* What the person does with the form.                                     *)

Becomes(f, open, i, ask, request) ==
  /\ UNCHANGED <<actorId, available, disclosure, snapshot>>
  /\ intent' = i /\ pending' = ask /\ admission' = request /\ Rendered(f, open)

Idle == pending = NothingAsked
Enterable == opened /\ Idle /\ available

begin ==
  /\ Idle /\ snapshot # NoRecord /\ ~Waiting(form) /\ ~opened
  /\ \E kind \in snapshot.offered :
       IF retained(form)
       THEN Becomes(form, TRUE, [kind |-> "INTENT", revision |-> disclosure.revision,
                                actor |-> snapshot.actor, act |-> kind], kind, admission)
       ELSE Becomes(actorValues(snapshot, kind, form), TRUE, intent, pending, admission)

\* The directory's own button, and the button of a pending access request.
admit ==
  /\ Idle /\ actorId = Nobody /\ disclosure.active /\ ~Waiting(form) /\ ~opened
  /\ \/ /\ ~retained(form) /\ available
        /\ Becomes(Fresh("ADMIT", Applicant, {disclosure.revision}, form.masked), TRUE, intent, pending, TRUE)
     \/ Becomes(IF retained(form) THEN form ELSE Blank("ADMIT", form), TRUE, intent, pending,
               IF retained(form) THEN admission ELSE FALSE)

Continue ==
  /\ Idle /\ ~opened /\ (IF disclosure.active THEN retained(form) ELSE Uncertain(form))
  /\ Becomes(form, TRUE, intent, pending, admission)

\* A bug: an act chosen on a record is carried out whatever became of the record.
currentIntent_AnyEpoch(kind) == IF intent # NoIntent /\ intent.act = kind /\ available THEN intent ELSE NoIntent

currentIntent(kind) ==
  IF intent # NoIntent /\ intent.act = kind /\ intent.revision = disclosure.revision
     /\ shown(disclosure, available)
  THEN intent ELSE NoIntent

\* The values a replaced form starts from: the chosen record, else the bound person, else none.
discarded(kind) ==
  LET chosen == currentIntent(kind)
      bound == IF admissionBound(form, admission) THEN Applicant
               ELSE IF actorBound(form, snapshot) THEN Person(snapshot.actor) ELSE Nobody
  IN  IF chosen # NoIntent THEN Fresh(kind, Person(chosen.actor), {chosen.revision}, form.masked)
      ELSE IF bound = Nobody THEN Blank(kind, form)
      ELSE Fresh(kind, bound, IF snapshot = NoRecord THEN {} ELSE {snapshot.revision}, form.masked)

Change ==
  /\ Enterable /\ form.phase = "EDITING" /\ ~form.masked
  /\ \E kind \in ({"ADMIT"} \cup Acts) \ {form.kind} :
       /\ actorBound(form, snapshot) => kind \in snapshot.offered
       /\ IF retained(form) THEN Becomes(form, opened, NoIntent, kind, admission)
          ELSE Becomes(discarded(kind), opened, NoIntent, pending, admission)

closePanel ==
  /\ opened /\ ~Waiting(form) /\ Idle
  /\ IF retained(form) THEN Becomes(form, opened, NoIntent, "LEAVE", admission)
     ELSE Becomes(form, FALSE, intent, pending, admission)

\* A link or the browser's back, out of the panel; it may come over an open dialog.
Depart == retained(form) /\ ~Waiting(form) /\ pending # "LEAVE" /\ Becomes(form, opened, NoIntent, "LEAVE", admission)

KeepForm == ~Idle /\ Becomes(form, opened, NoIntent, NothingAsked, admission)

discard ==
  /\ ~Idle /\ ~Waiting(form)
  /\ LET primary == IF snapshot = NoRecord THEN {} ELSE authorityPrimaryAction(snapshot.offered)
         kind == IF pending # "LEAVE" THEN pending
                 ELSE IF primary = {} THEN "ADMIT" ELSE CHOOSE k \in primary : TRUE
     IN  Becomes(discarded(kind), opened /\ pending # "LEAVE", NoIntent, NothingAsked, admission)

(* Inside the form.                                                        *)

Step(f) == Becomes(f, opened, intent, pending, admission)

Write ==
  /\ Enterable /\ ~form.masked /\ form.phase \in {"EDITING", "PREPARED"}
  /\ Step([form EXCEPT !.phase = "EDITING", !.work = IF @ = "NOTHING" /\ form.phase = "EDITING" THEN "TEXT"
                                                    ELSE IF form.phase = "PREPARED" THEN "IDENTITY" ELSE @])
Revert ==
  /\ Enterable /\ ~form.masked /\ form.phase = "EDITING" /\ form.work = "TEXT"
  /\ Step([form EXCEPT !.work = "NOTHING"])
Preview == Enterable /\ form.phase \in {"EDITING", "PREPARED"} /\ Step([form EXCEPT !.phase = "PREVIEWING"])
Execute ==
  /\ Enterable /\ (Uncertain(form) \/ (form.phase = "PREPARED" /\ ~form.masked))
  /\ Step([form EXCEPT !.phase = "SUBMITTING"])

onRecorded ==
  /\ invalidate(TRUE)
  /\ actorId' = Nobody /\ pending' = NothingAsked /\ UNCHANGED <<available, intent, admission>>
  /\ Forgets /\ Rendered([form EXCEPT !.phase = "ACCEPTED", !.masked = FALSE], opened)

Replied ==
  \/ form.phase = "PREVIEWING" /\ \E masked \in {FALSE, form.masked} :
       Step([form EXCEPT !.phase = "PREPARED", !.masked = masked])
  \/ Waiting(form) /\ Refuse(disclosure.revision, [form EXCEPT !.phase = "PREPARED"])
  \/ form.phase = "SUBMITTING" /\ \/ Step([form EXCEPT !.phase = "PREPARED"])
                                  \/ Step([form EXCEPT !.phase = "UNRESOLVED"])
                                  \/ Step([form EXCEPT !.phase = "EDITING", !.work = "IDENTITY"])
                                  \/ onRecorded

AuthorityNext ==
  \/ Select \/ ViewsChanged \/ refused \/ restored \/ observe \/ ReloadActors
  \/ begin \/ admit \/ Continue \/ Change \/ closePanel \/ Depart \/ KeepForm \/ discard
  \/ Write \/ Revert \/ Preview \/ Execute \/ Replied

-------------------------------------------------------------------------------
(* Work in the form is replaced only by the person's answer to the dialog or
   once they undid it themselves, and what replaces a form is taken from a disclosure still in force: a record that
   was refused after an act was chosen on it seeds nothing
   (useAuthorityTarget.ts, useActorDefault, currentIntent and useActorConsent). *)
DraftsAreReplacedKnowingly ==
  [][/\ retained(form) /\ pending = NothingAsked /\ ~Revert =>
          <<form'.kind, form'.about, form'.facts>> = <<form.kind, form.about, form.facts>>
     /\ form'.facts # form.facts => form'.facts \in {{}, {disclosure'.revision}}]_authority
=============================================================================
