------------------------------- MODULE Workspace -------------------------------
(***************************************************************************)
(* The signed-in page of the browser: which area it shows, which operation    *)
(* editor is mounted there, and what may take either away (Dashboard.tsx,     *)
(* routing/navigation.ts, useOperationNavigation.ts, SettingsWorkspace.tsx).  *)
(* The page belongs to the person the service last confirmed; what they may   *)
(* see is read again and again and may fail to be read. The work an editor    *)
(* holds is lost when React unmounts it. What happens inside an operation is  *)
(* BrowserOperation's; here it has a phase only. React renders and runs its   *)
(* effects before the next event, so each action ends with Render.            *)
(***************************************************************************)
EXTENDS Naturals, FiniteSets

CONSTANTS
  People,      \* the people who may sign in
  Routes,      \* the pages of the run, among those named below
  MaxEpochs    \* how often a session is read in a run

ASSUME RoutesAssumption ==
  Routes \subseteq {"home", "cases", "case", "caseAct", "newCase", "reminders", "people", "person", "settings"}

VARIABLES
  session,    \* who is signed in, and the epoch of that knowledge
  requester,  \* the last replies about who is asking and what they may see
  owner,      \* the person and epoch the workspace was last verified for
  route,      \* the page in the address bar
  source,     \* the page kept parked while settings are shown
  area,       \* the mounted area, by owner and category, and whether it was ever allowed
  editor,     \* the mounted operation editor, or Missing
  departure,  \* where the person wanted to go when the editor stopped them, or Missing
  leaving,    \* a sign-out has been sent
  ended       \* how the last step ended the unsaved work of an editor, if it did

workspace == <<session, requester, owner, route, source, area, editor, departure, leaving, ended>>

Missing == [kind |-> "NONE"]
To(r) == [kind |-> "ROUTE", route |-> r]
SignOut == [kind |-> "SIGN_OUT"]
Active(p, views) == [kind |-> "ACTIVE", actor |-> p, views |-> views]
Inactive(p) == [kind |-> "NO_ROLES", actor |-> p]
Unregistered == [kind |-> "NOT_REGISTERED"]
Views == {"CASES", "AUTHORITY"}
Unread == [value |-> Missing, previous |-> Missing, loading |-> TRUE]

(* Who is asking (Dashboard.tsx).                                          *)

requesterForDisplay(r) ==
  IF r.value # Missing THEN r.value
  ELSE IF r.loading \/ r.previous.kind # "ACTIVE" THEN r.previous
  ELSE Missing
views(r) == IF requesterForDisplay(r).kind = "ACTIVE" THEN requesterForDisplay(r).views ELSE {}

useVerifiedWorkspaceOwner(s, r) ==
  IF requesterForDisplay(r).kind = "ACTIVE" /\ s.kind = "AUTHENTICATED"
  THEN [kind |-> "OWNER", actor |-> requesterForDisplay(r).actor, epoch |-> s.epoch]
  ELSE owner

retainInactiveWorkspace(s, r, o) ==
  LET shown == requesterForDisplay(r)
  IN  \/ shown.kind \in {"NONE", "ACTIVE"}
      \/ /\ shown.kind = "NO_ROLES" /\ o # Missing /\ s.kind = "AUTHENTICATED"
         /\ shown.actor = o.actor /\ s.epoch = o.epoch

workspaceKey(o) == IF o = Missing THEN "NOBODY" ELSE o.actor

(* What is mounted.                                                        *)

category(r) ==
  IF r \in {"people", "person"} THEN "people" ELSE IF r = "settings" THEN "settings" ELSE "cases"
availableRoute(r, seen) ==
  \/ category(r) = "settings"
  \/ category(r) = "people" /\ "AUTHORITY" \in seen
  \/ category(r) = "cases" /\ "CASES" \in seen
retainOperation(r) == r \in {"people", "person", "caseAct", "newCase"}

Parked(r, from) == r = "settings" /\ from # "settings"
Content(r, from) == IF Parked(r, from) THEN from ELSE r

\* A bug: an area is only kept while it is advertised.
WorkspaceContents_Advertised(r, seen, opened) == availableRoute(r, seen)

WorkspaceContents(r, seen, opened) == availableRoute(r, seen) \/ (retainOperation(r) /\ opened)

(* The editor.                                                             *)

Screens == {"case", "caseAct", "newCase", "reminders", "people"}
screenOf(r) == IF r = "person" THEN "people" ELSE r
NothingEnded == [how |-> "NOTHING", screen |-> "NONE"]
Unsaved(e) == e # Missing /\ e.phase \notin {"CLEAN", "ACCEPTED"}
Busy(e) == e # Missing /\ e.phase \in {"PREVIEWING", "SUBMITTING", "CHECKING"}
locked == Busy(editor)
invalidated(e) ==
  [e EXCEPT !.phase = IF @ \in {"SUBMITTING", "CHECKING"} THEN "UNRESOLVED"
                      ELSE IF @ \in {"PREVIEWING", "REVIEWING"} THEN "DIRTY" ELSE @]

(* React: the page after an event left it with an editor e, a wish to depart d
   and a reason why work of the editor ended.                               *)
Render(e, d, why) ==
  LET kept == retainInactiveWorkspace(session', requester', owner')
      replaced == ~kept \/ workspaceKey(owner') # workspaceKey(owner)
      shown == Content(route', source')
      key == [kind |-> "AREA", actor |-> workspaceKey(owner'), category |-> category(shown)]
      allowed == availableRoute(shown, views(requester'))
      stays == /\ e # Missing /\ ~replaced /\ area # Missing /\ area.key = area'.key
               /\ screenOf(shown) = e.screen /\ WorkspaceContents(shown, views(requester'), area'.opened)
  IN  /\ owner' = useVerifiedWorkspaceOwner(session', requester')
      /\ source' = IF replaced \/ area = Missing \/ route' # "settings" THEN route' ELSE source
      /\ area' = IF kept
                 THEN [kind |-> "MOUNTED", key |-> key,
                       opened |-> allowed \/ (area # Missing /\ area.key = key /\ area.opened)]
                 ELSE Missing
      /\ editor' = IF ~stays THEN Missing
                   ELSE IF ~allowed \/ session'.epoch # session.epoch THEN invalidated(e) ELSE e
      /\ departure' = IF editor' # Missing /\ editor'.asked = "LEAVE" THEN d ELSE Missing
      /\ ended' = IF Unsaved(editor) /\ ~Unsaved(editor')
                  THEN [how |-> IF why # "UNMOUNTED" THEN why ELSE IF replaced THEN "REPLACED" ELSE "UNMOUNTED",
                        screen |-> editor.screen]
                  ELSE NothingEnded

WorkspaceInit ==
  /\ session = [kind |-> "LOADING", epoch |-> 0] /\ requester = Unread /\ owner = Missing
  /\ route \in Routes /\ source = route /\ area = Missing
  /\ editor = Missing /\ departure = Missing /\ leaving = FALSE
  /\ ended = NothingEnded

(* The session (useSession.ts): it is read when the page starts and again when
   reading it failed, and it ends by a sign-out that may fail.              *)

Resolved(kind, p) ==
  /\ session.epoch < MaxEpochs
  /\ session' = IF kind = "AUTHENTICATED"
                THEN [kind |-> kind, actor |-> p, epoch |-> session.epoch + 1]
                ELSE [kind |-> kind, epoch |-> session.epoch + 1]
  /\ requester' = Unread /\ leaving' = FALSE /\ UNCHANGED route
  /\ Render(editor, departure, "UNMOUNTED")

refresh ==
  /\ session.kind \in {"LOADING", "FAILURE"}
  /\ \/ \E p \in People : Resolved("AUTHENTICATED", p)
     \/ \E kind \in {"ANONYMOUS", "FAILURE"} : Resolved(kind, Missing)

LogoutAnswered == leaving /\ \E kind \in {"ANONYMOUS", "FAILURE"} : Resolved(kind, Missing)

(* The context read: invalidated by focus, by a recorded operation and by a
   new business date; answered, refused or lost (endpointCache.ts).         *)

Requested(r) ==
  /\ requester' = r /\ UNCHANGED <<session, route, leaving>>
  /\ Render(editor, departure, "UNMOUNTED")

InvalidateReads ==
  /\ session.kind = "AUTHENTICATED" /\ ~requester.loading
  /\ Requested([value |-> Missing, previous |-> requester.previous, loading |-> TRUE])

ContextAnswered ==
  /\ session.kind = "AUTHENTICATED" /\ requester.loading
  /\ \/ \E seen \in SUBSET Views : Requested([value |-> Active(session.actor, seen),
                                              previous |-> Active(session.actor, seen), loading |-> FALSE])
     \/ \E who \in {Inactive(session.actor), Unregistered} :
          Requested([value |-> who, previous |-> who, loading |-> FALSE])
     \/ Requested([value |-> Missing, previous |-> requester.previous, loading |-> FALSE])
     \/ Requested([value |-> Missing, previous |-> Missing, loading |-> FALSE])

(* Navigation (routing/navigation.ts).                                     *)

contentPath == IF route = "settings" THEN source ELSE route
permits(d) ==
  \/ d = To("settings") \/ d = To(contentPath)
  \/ editor.screen = "people" /\ d \in {To("people"), To("person")}
blocker(d) == Unsaved(editor) /\ ~permits(d)

Proceed(d, e, why) ==
  /\ IF d = SignOut THEN leaving' = (session.kind = "AUTHENTICATED") /\ UNCHANGED route
     ELSE route' = d.route /\ UNCHANGED leaving
  /\ UNCHANGED <<session, requester>>
  /\ Render(e, Missing, why)

guardedDeparture(d) ==
  /\ ~locked
  /\ IF blocker(d)
     THEN /\ UNCHANGED <<session, requester, route, leaving>>
          /\ Render([editor EXCEPT !.asked = "LEAVE"], d, "UNMOUNTED")
     ELSE Proceed(d, editor, "UNMOUNTED")

\* A link or the browser's own back and forward.
Navigate == session.kind = "AUTHENTICATED" /\ \E r \in Routes \ {route} : guardedDeparture(To(r))
Logout == session.kind = "AUTHENTICATED" /\ ~leaving /\ guardedDeparture(SignOut)

\* The default entry chooses an area once the requester is known.
useInitialAllowedRoute ==
  /\ route = "home" /\ requesterForDisplay(requester).kind = "ACTIVE"
  /\ guardedDeparture(To(IF "CASES" \in views(requester) THEN "cases"
                         ELSE IF "AUTHORITY" \in views(requester) THEN "people" ELSE "settings"))

(* The editor's events.                                                    *)

Within(e, d, why) == UNCHANGED <<session, requester, route, leaving>> /\ Render(e, d, why)

Usable ==
  /\ session.kind = "AUTHENTICATED" /\ requesterForDisplay(requester).kind = "ACTIVE"
  /\ ~Parked(route, source) /\ availableRoute(Content(route, source), views(requester))

Open ==
  /\ Usable /\ editor = Missing /\ screenOf(route) \in Screens
  /\ Within([kind |-> "EDITOR", screen |-> screenOf(route), phase |-> "CLEAN", asked |-> "NOTHING"],
            Missing, "UNMOUNTED")

Phase(from, to) ==
  /\ editor # Missing /\ editor.asked = "NOTHING" /\ editor.phase \in from
  /\ \E phase \in to : Within([editor EXCEPT !.phase = phase], departure, "UNMOUNTED")

Work ==
  /\ Usable
  /\ \/ Phase({"CLEAN", "REVIEWING"}, {"DIRTY"})
     \/ Phase({"DIRTY"}, {"PREVIEWING"})
     \/ Phase({"REVIEWING"}, {"SUBMITTING"})
     \/ Phase({"UNRESOLVED"}, {"CHECKING"})
Answered == Phase({"PREVIEWING"}, {"REVIEWING", "DIRTY"})
              \/ Phase({"SUBMITTING", "CHECKING"}, {"UNRESOLVED", "DIRTY"})

requestClose ==
  /\ Usable /\ editor # Missing /\ ~Busy(editor) /\ editor.asked = "NOTHING"
  /\ IF Unsaved(editor) THEN Within([editor EXCEPT !.asked = "LEAVE"], departure, "UNMOUNTED")
     ELSE IF editor.screen \in {"caseAct", "newCase"} THEN Proceed(To("case"), editor, "UNMOUNTED")
     ELSE Within(Missing, Missing, "UNMOUNTED")

\* Another act is picked over unsaved work of the access editor.
RequestChange ==
  /\ Usable /\ editor # Missing /\ editor.screen = "people" /\ Unsaved(editor) /\ ~Busy(editor)
  /\ editor.phase # "UNRESOLVED" /\ editor.asked = "NOTHING"
  /\ Within([editor EXCEPT !.asked = "CHANGE"], departure, "UNMOUNTED")

\* A bug: keeping the work leaves the wish to depart behind.
Keep_Remembers ==
  /\ editor # Missing /\ editor.asked # "NOTHING"
  /\ UNCHANGED <<session, requester, route, source, owner, area, leaving, departure>>
  /\ editor' = [editor EXCEPT !.asked = "NOTHING"] /\ ended' = NothingEnded

Keep ==
  /\ editor # Missing /\ editor.asked # "NOTHING"
  /\ Within([editor EXCEPT !.asked = "NOTHING"], Missing, "UNMOUNTED")

Discard ==
  /\ editor # Missing /\ editor.asked # "NOTHING" /\ ~Busy(editor)
  /\ LET fresh == [editor EXCEPT !.phase = "CLEAN", !.asked = "NOTHING"]
     IN  IF editor.asked = "CHANGE" THEN Within(fresh, Missing, "DISCARDED")
         ELSE IF departure # Missing THEN Proceed(departure, fresh, "DISCARDED")
         ELSE IF editor.screen \in {"caseAct", "newCase"} THEN Proceed(To("case"), fresh, "DISCARDED")
         ELSE Within(Missing, Missing, "DISCARDED")

(* A recorded case act leads to its case, while the case may be shown; the
   other editors close. The access editor returns to the directory even from
   settings, and so does it when the directory is refused.                  *)
Recorded ==
  /\ editor # Missing /\ editor.phase \in {"SUBMITTING", "CHECKING"} /\ editor.asked = "NOTHING"
  /\ IF editor.screen \in {"caseAct", "newCase"}
     THEN IF session.kind = "AUTHENTICATED" /\ "CASES" \in views(requester)
          THEN Proceed(To("case"), editor, "RECORDED")
          ELSE Within([editor EXCEPT !.phase = "ACCEPTED"], Missing, "RECORDED")
     ELSE IF editor.screen = "people" THEN Proceed(To("people"), Missing, "RECORDED")
     ELSE Within(Missing, Missing, "RECORDED")

DirectoryRefused ==
  /\ area # Missing /\ session.kind = "AUTHENTICATED" /\ category(Content(route, source)) = "people"
  /\ route' = "people" /\ UNCHANGED <<session, requester, leaving>>
  /\ Render(IF editor = Missing THEN Missing ELSE invalidated(editor), departure, "UNMOUNTED")

WorkspaceNext ==
  \/ refresh \/ LogoutAnswered \/ InvalidateReads \/ ContextAnswered
  \/ Navigate \/ Logout \/ useInitialAllowedRoute
  \/ Open \/ Work \/ Answered \/ requestClose \/ RequestChange \/ Keep \/ Discard
  \/ Recorded \/ DirectoryRefused

-------------------------------------------------------------------------------
(* Unsaved work ends because the person discarded it, because it was recorded
   or because the page now belongs to somebody else or to nobody: never because
   a page changed, a read failed or a view was withdrawn, on the pages that are
   built to keep it (Dashboard.tsx, WorkspaceContents and WorkspaceArea).   *)
DraftsEndByConsent == ended.how = "UNMOUNTED" => ended.screen \in {"case", "reminders"}

(* What the comment on WorkspaceContents says of every page: visibility can
   change without destroying a draft (Dashboard.tsx:252).                   *)
VisibilityKeepsDrafts == ended.how # "UNMOUNTED"

(* A departure that was stopped is either in front of the person, who can still
   refuse it, or forgotten: no later click runs it (useOperationNavigation.ts,
   the pending departure and the effect that clears it).                    *)
DepartureIsAsked ==
  departure # Missing =>
    /\ editor # Missing /\ editor.asked = "LEAVE" /\ ~locked
    /\ departure # To(route)
=============================================================================
