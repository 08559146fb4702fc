---------------------------- MODULE BrowserReads ----------------------------
(***************************************************************************)
(* What a page reads from the service and shows. Views read through a cache  *)
(* of the session's epoch (endpointCache.ts, useEndpoint.ts), a list reads   *)
(* its pages through the same cache (useEndpointPage.ts), and every read     *)
(* passes the document's admission, one retry and a deadline (service.ts,    *)
(* readAdmission.ts, readRetry.ts, responseDeadline.ts). The day, the user   *)
(* of the session cookie and the session of the page change meanwhile        *)
(* (useBusinessDate.ts, useSession.ts).                                      *)
(***************************************************************************)
EXTENDS Integers, Sequences, SequencesExt, FiniteSets

CONSTANTS
  Users,      \* whom the session cookie of the browser can name
  Views,      \* mounted reads; the context is one of them
  Stable,     \* the views whose input object survives their renderings
  LastPage,   \* pages of the list; none when 0
  maximumConcurrentReads,
  MaxDay,     \* bound on the changes of what the service has
  MaxResumes, \* bound on the returns to the window
  MaxEpochs,  \* bound on the session answers of the page
  MaxReads    \* bound on the reads under way

Pages == 1..LastPage
PageKey(n) == <<"page", n>>
Keys == {<<"view", v>> : v \in Views} \cup {PageKey(n) : n \in Pages}
Context == <<"view", "context">>
SessionKey == <<"session", 0>>
Obsolete == <<"obsolete", 0>>

ASSUME ReadsAssumption ==
  /\ "context" \in Views /\ Stable \subseteq Views /\ "NOBODY" \notin Users
  /\ LastPage \in Nat /\ maximumConcurrentReads \in Nat \ {0}
  /\ MaxDay \in Nat /\ MaxResumes \in Nat /\ MaxEpochs \in Nat /\ MaxReads \in Nat

VARIABLES
  service,  \* the day it has and the user of the browser's cookie
  page      \* session, entries, rendering, list, reads and known day of the page

vars == <<service, page>>

\* Facts are what the service knew when it answered: the day, for the user it answered.
Result(kind, day, user) == [kind |-> kind, day |-> day, user |-> user]
NoResult == Result("NONE", 0, "NOBODY")
Failed   == Result("FAILED", 0, "NOBODY")
Refused  == Result("REFUSED", 0, "NOBODY")
Results  == [kind : {"NONE", "FAILED", "REFUSED", "FACTS"}, day : 0..MaxDay,
             user : Users \cup {"NOBODY"}]

NoDay == -1
Phases == {"WAITING", "SENT", "LIMITED", "AGAIN", "ANSWERED", "DRAINING"}
Reads == [key : Keys \cup {SessionKey, Obsolete}, phase : Phases, observing : BOOLEAN, reply : Results]

empty == [result |-> NoResult, previous |-> NoResult, loading |-> TRUE]

\* A rendered read: the entry it shows, the effect it still has to run, and the loading
\* flag its effect last saw.
Fresh == [entry |-> empty, due |-> TRUE, seen |-> TRUE]
NoList == [due |-> TRUE, task |-> 0, items |-> <<>>]

Init ==
  /\ service \in [day : {0}, user : Users \cup {"NOBODY"}]
  /\ page = [session |-> [kind |-> "LOADING", user |-> "NOBODY", epoch |-> 0],
             logout |-> FALSE, shown |-> [v \in Views |-> Fresh], list |-> NoList,
             reads |-> <<[key |-> SessionKey, phase |-> "SENT", observing |-> FALSE,
                          reply |-> NoResult]>>,
             active |-> 1, known |-> NoDay, since |-> 0, resumes |-> 0]

----------------------------------------------------------------------------
\* Admission (readAdmission.ts).

\* The place of a member of a set of positions in it.
Rank(set, i) == Cardinality(set \cap 1..i)

\* Slots go to the waiting reads in the order they came.
Advance(s) ==
  LET free == maximumConcurrentReads - s.active
      waiting == {i \in DOMAIN s.reads : s.reads[i].phase = "WAITING"}
      admitted == {i \in waiting : Rank(waiting, i) <= free}
  IN [s EXCEPT !.active = @ + Cardinality(admitted),
               !.reads = [i \in DOMAIN @ |->
                            IF i \in admitted THEN [@[i] EXCEPT !.phase = "SENT"] ELSE @[i]]]

Start(s, key, observing) ==
  LET now == s.active < maximumConcurrentReads
      read == [key |-> key, phase |-> IF now THEN "SENT" ELSE "WAITING",
               observing |-> observing, reply |-> NoResult]
  IN [s EXCEPT !.reads = Append(@, read), !.active = IF now THEN @ + 1 ELSE @]

\* The end of an admitted read releases its slot.
Release(s, i) == Advance([s EXCEPT !.reads = RemoveAt(@, i), !.active = @ - 1])

\* An aborted read gives up its place in the queue or its retry; once dispatched it keeps
\* its slot until its response has drained, and nobody hears it.
Ends(r, keys) == r.key \in keys /\ r.phase \in {"WAITING", "LIMITED"}
Drained(r, keys) ==
  IF r.key \in keys
  THEN [key |-> Obsolete, phase |-> "DRAINING", observing |-> FALSE, reply |-> NoResult]
  ELSE r

\* The reads after one that ends move up.
Kept(reads, keys) ==
  LET kept == {i \in DOMAIN reads : ~Ends(reads[i], keys)}
  IN IF kept = DOMAIN reads THEN [i \in DOMAIN reads |-> Drained(reads[i], keys)]
     ELSE [n \in 1..Cardinality(kept) |-> Drained(reads[CHOOSE i \in kept : Rank(kept, i) = n], keys)]

Abort_Frees(s, keys) ==
  LET freed == {i \in DOMAIN s.reads : s.reads[i].key \in keys /\ s.reads[i].phase # "WAITING"}
  IN Advance([s EXCEPT !.active = @ - Cardinality(freed), !.reads = Kept(@, keys)])

Abort(s, keys) ==
  LET freed == {i \in DOMAIN s.reads : s.reads[i].key \in keys /\ s.reads[i].phase = "LIMITED"}
  IN Advance([s EXCEPT !.active = @ - Cardinality(freed), !.reads = Kept(@, keys)])

Pending(s, key) == \E i \in DOMAIN s.reads : s.reads[i].key = key

----------------------------------------------------------------------------
\* The cache and its readers (EndpointCache, useEndpoint).

\* The workspace registers its observer with the day of its requester; dispatches that
\* captured an earlier registration say nothing to it.
Register(s, day) ==
  [s EXCEPT !.known = day,
            !.reads = [i \in DOMAIN @ |-> [@[i] EXCEPT !.observing = FALSE]]]

\* A published entry renders its view; an input made anew in each rendering makes its
\* request, and so its effect, new as well.
Rendered_Memoised(view, v, entry) == [view EXCEPT !.entry = entry]

Rendered(view, v, entry) == [view EXCEPT !.entry = entry, !.due = @ \/ v \notin Stable]

\* The requester of the workspace comes from the context; a failed refresh grants nothing,
\* a refresh under way keeps who was there (requesterForDisplay).
Publish(s, v, entry) ==
  LET next == [s EXCEPT !.shown[v] = Rendered(@, v, entry)]
  IN IF v # "context" THEN next
     ELSE IF entry.result.kind = "FACTS" THEN Register(next, entry.result.day)
     ELSE IF ~entry.loading THEN Register(next, NoDay)
     ELSE IF s.known = NoDay /\ entry.previous.kind = "FACTS" THEN Register(next, entry.previous.day)
     ELSE next

previousOutcome(result, previous) ==
  IF result.kind = "FACTS" THEN result
  ELSE IF result.kind = "REFUSED" THEN NoResult ELSE previous

Loading(entry) == [entry EXCEPT !.result = NoResult, !.loading = TRUE]

Fetch_Twice(s, v, retry) ==
  Publish(Start(s, <<"view", v>>, s.known # NoDay), v, Loading(s.shown[v].entry))

Fetch(s, v, retry) ==
  LET key == <<"view", v>>
      began == Abort(s, {key})
  IN IF Pending(s, key) /\ ~retry THEN s
     ELSE Publish(Start(began, key, began.known # NoDay), v, Loading(s.shown[v].entry))

\* Everything shown was read before; the list starts anew with the generation.
Invalidate_KeepsReads(s) ==
  [s EXCEPT
     !.shown = [v \in Views |-> Rendered(@[v], v, Loading(@[v].entry))],
     !.list = [@ EXCEPT !.due = TRUE, !.task = 0],
     !.since = service.day]

Invalidate(s) ==
  [Abort(s, Keys) EXCEPT
     !.shown = [v \in Views |-> Rendered(@[v], v, Loading(@[v].entry))],
     !.list = [@ EXCEPT !.due = TRUE, !.task = 0],
     !.since = service.day]

Authenticated == page.session.kind = "AUTHENTICATED"

\* An effect runs again when its request is new or its loading flag changed.
RunEffect(v) ==
  LET view == page.shown[v]
      ran == [page EXCEPT !.shown[v].due = FALSE,
                          !.shown[v].seen = IF v \in Stable THEN view.entry.loading ELSE @]
  IN /\ view.due \/ (v \in Stable /\ view.seen # view.entry.loading)
     /\ page' = IF Authenticated /\ view.entry.loading THEN Fetch(ran, v, FALSE) ELSE ran
     /\ UNCHANGED service

\* The person asks again after a failure.
Reload(v) ==
  /\ Authenticated /\ page.shown[v].entry.result.kind \in {"FAILED", "REFUSED"}
  /\ Len(page.reads) < MaxReads
  /\ page' = Fetch(page, v, TRUE)
  /\ UNCHANGED service

----------------------------------------------------------------------------
\* The list (useEndpointPage, usePages, usePageLoader).

\* The first page empties the list; a page already under way is not asked for twice.
Load(s, n) ==
  LET began == Abort(s, {PageKey(m) : m \in Pages})
  IN [Start(began, PageKey(n), began.known # NoDay) EXCEPT
        !.list = [due |-> FALSE, task |-> n, items |-> IF n = 1 THEN <<>> ELSE s.list.items]]

LoadFirst ==
  /\ LastPage > 0 /\ page.list.due
  /\ page' = Load(page, 1)
  /\ UNCHANGED service

\* The person asks for the list again, or for more of it, when it is not loading.
LoadMore ==
  /\ page.list.task = 0 /\ ~page.list.due /\ Len(page.reads) < MaxReads
  /\ \E n \in Pages \cap {1, Len(page.list.items) + 1} :
       /\ n > 1 => page.list.items # <<>>
       /\ page' = Load(page, n)
  /\ UNCHANGED service

\* A failure keeps the pages shown, a refusal empties the list.
fetchPage(list, result) ==
  [list EXCEPT !.task = 0,
               !.items = IF result.kind = "FACTS" THEN Append(@, result)
                         ELSE IF result.kind = "REFUSED" THEN <<>> ELSE @]

----------------------------------------------------------------------------
\* The day (useBusinessDate, captureBusinessDateObserver).

\* A reply heard by its caller tells its day unless a later dispatch told one.
Told(s, i, day) ==
  [s EXCEPT !.known = day,
            !.reads = [j \in DOMAIN @ |->
                         IF j < i THEN [@[j] EXCEPT !.observing = FALSE] ELSE @[j]]]

----------------------------------------------------------------------------
\* The session of the page (useSession, EndpointProvider).

\* Every answer, also a failure, is a new epoch with an empty cache.
NextEpoch(s, kind, user) ==
  [Abort(s, Keys) EXCEPT
     !.session = [kind |-> kind, user |-> user, epoch |-> @.epoch + 1],
     !.shown = [v \in Views |-> Fresh], !.list = [@ EXCEPT !.due = TRUE, !.task = 0],
     !.known = NoDay, !.since = service.day]

stateFor(s, result) ==
  NextEpoch(s, IF result.kind # "FACTS" THEN "FAILURE"
               ELSE IF result.user = "NOBODY" THEN "ANONYMOUS" ELSE "AUTHENTICATED",
            result.user)

Refresh ==
  /\ page.session.kind = "FAILURE" /\ ~Pending(page, SessionKey)
  /\ page.session.epoch < MaxEpochs /\ Len(page.reads) < MaxReads
  /\ page' = Start(page, SessionKey, FALSE)
  /\ UNCHANGED service

Logout ==
  /\ Authenticated /\ ~page.logout /\ page.session.epoch < MaxEpochs
  /\ page' = [page EXCEPT !.logout = TRUE]
  /\ UNCHANGED service

\* The service signs the user out, or not; the answer says so, or is lost.
LoggedOut ==
  /\ page.logout
  /\ service' \in {service, [service EXCEPT !.user = "NOBODY"]}
  /\ \E confirmed \in BOOLEAN :
       /\ confirmed => service'.user = "NOBODY"
       /\ page' = [NextEpoch(page, IF confirmed THEN "ANONYMOUS" ELSE "FAILURE", "NOBODY")
                     EXCEPT !.logout = FALSE]

----------------------------------------------------------------------------
\* The network (send, retryRead, withinResponseDeadline).

Answered(i, reply) ==
  page' = [page EXCEPT !.reads[i].phase = "ANSWERED", !.reads[i].reply = reply]

\* The service answers what the credential of the session may see. It may also limit the
\* rate, which is retried once if it says when.
Answer(i) ==
  LET r == page.reads[i]
  IN /\ r.phase \in {"SENT", "AGAIN"}
     /\ \/ r.key = SessionKey /\ Answered(i, Result("FACTS", 0, service.user))
        \/ /\ r.key # SessionKey
           /\ Answered(i, IF Authenticated /\ service.user = page.session.user
                          THEN Result("FACTS", service.day, service.user) ELSE Refused)
        \/ r.phase = "SENT" /\ page' = [page EXCEPT !.reads[i].phase = "LIMITED"]
     /\ UNCHANGED service

Resume(i) ==
  /\ page.reads[i].phase = "LIMITED"
  /\ page' = [page EXCEPT !.reads[i].phase = "AGAIN"]
  /\ UNCHANGED service

\* What the caller of a read does with its result.
Deliver(s, key, result) ==
  IF key = SessionKey THEN stateFor(s, result)
  ELSE IF key \in {PageKey(n) : n \in Pages} THEN [s EXCEPT !.list = fetchPage(@, result)]
  ELSE LET v == key[2]
       IN Publish(s, v, [result |-> result, loading |-> FALSE,
                         previous |-> previousOutcome(result, s.shown[v].entry.previous)])

\* A day that differs from the known one is told first: it invalidates what is shown and
\* aborts every read under way, the one that told it included.
Settle(i) ==
  LET r == page.reads[i]
      ended == Release(page, i)
      tells == r.observing /\ r.reply.kind = "FACTS"
      told == Told(ended, i, r.reply.day)
  IN /\ r.phase = "ANSWERED"
     /\ page' = IF ~tells THEN Deliver(ended, r.key, r.reply)
                ELSE IF r.reply.day = page.known THEN Deliver(told, r.key, r.reply)
                ELSE Invalidate(told)
     /\ UNCHANGED service

\* The response is lost or cannot be read.
Lose(i) ==
  LET r == page.reads[i]
  IN /\ r.phase \in {"SENT", "AGAIN", "ANSWERED"}
     /\ page' = Deliver(Release(page, i), r.key, Failed)
     /\ UNCHANGED service

\* The deadline of the caller ends also a read that still waits.
TimeOut(i) ==
  LET r == page.reads[i]
  IN /\ r.phase # "DRAINING"
     /\ page' = Deliver(Abort(page, {r.key}), r.key, Failed)
     /\ UNCHANGED service

\* The deadline of the network ends what nobody waits for.
Drain(i) ==
  /\ page.reads[i].phase = "DRAINING"
  /\ page' = Release(page, i)
  /\ UNCHANGED service

----------------------------------------------------------------------------
\* The window regains focus or the person asks for the new day.
Resumed ==
  /\ page.known # NoDay /\ page.resumes < MaxResumes
  /\ page' = [Invalidate(page) EXCEPT !.resumes = @ + 1]
  /\ UNCHANGED service

\* The records change, the day does, or another page signs in or out.
Elsewhere ==
  /\ \/ service.day < MaxDay /\ service' = [service EXCEPT !.day = @ + 1]
     \/ \E user \in Users \cup {"NOBODY"} :
          /\ page.session.epoch < MaxEpochs
          /\ service' = [service EXCEPT !.user = user]
  /\ UNCHANGED page

OfKey(key) ==
  \E i \in DOMAIN page.reads :
    page.reads[i].key = key /\ (Answer(i) \/ Resume(i) \/ Settle(i) \/ Lose(i) \/ TimeOut(i))

Draining == \E i \in DOMAIN page.reads : Drain(i)
Rendering == \E v \in Views : RunEffect(v)
Person == Refresh \/ Logout \/ LoadMore \/ Resumed \/ \E v \in Views : Reload(v)

Next ==
  \/ Elsewhere \/ Person \/ Rendering \/ LoadFirst \/ LoggedOut \/ Draining
  \/ \E key \in Keys \cup {SessionKey} : OfKey(key)

Expire(v) == \E i \in DOMAIN page.reads : page.reads[i].key = <<"view", v>> /\ TimeOut(i)

\* React runs the effects it owes, and the deadline ends what is under way for a view; no
\* answer of the service is relied on.
Fairness == \A v \in Views : WF_vars(RunEffect(v)) /\ WF_vars(Expire(v))

Spec == Init /\ [][Next]_vars /\ Fairness

----------------------------------------------------------------------------
\* Every variable keeps its type.
TypeOK ==
  /\ service \in [day : 0..MaxDay, user : Users \cup {"NOBODY"}]
  /\ page.session \in [kind : {"LOADING", "ANONYMOUS", "AUTHENTICATED", "FAILURE"},
                       user : Users \cup {"NOBODY"}, epoch : Nat]
  /\ \A v \in Views : page.shown[v] \in
       [entry : [result : Results, previous : Results, loading : BOOLEAN], due : BOOLEAN, seen : BOOLEAN]
  /\ page.list \in [due : BOOLEAN, task : 0..LastPage, items : Seq(Results)]
  /\ \A i \in DOMAIN page.reads : page.reads[i] \in Reads
  /\ page.known \in {NoDay} \cup 0..MaxDay /\ page.since \in 0..MaxDay

\* A reply has one place to go: of the reads for an entry, abandoned and new, one at most is
\* heard, and the page of a list that is under way is the one that follows the pages shown,
\* so none is shown twice or skipped.
RepliesHaveOnePlace ==
  /\ \A i, j \in DOMAIN page.reads :
       page.reads[i].key = page.reads[j].key /\ page.reads[i].key # Obsolete => i = j
  /\ \A n \in Pages : Pending(page, PageKey(n)) =>
       ~page.list.due /\ page.list.task = n /\ Len(page.list.items) = n - 1

\* The service never has more responses under way than the document allows, abandoned ones
\* included, and no slot is lost: a read waits only while all are taken.
SlotsAreHeld ==
  LET held == {i \in DOMAIN page.reads : page.reads[i].phase # "WAITING"}
  IN /\ page.active = Cardinality(held) /\ page.active <= maximumConcurrentReads
     /\ Cardinality(held) < Len(page.reads) => page.active = maximumConcurrentReads

\* Facts on the page were read for the user of its session and after the last invalidation:
\* no late, abandoned or retried reply brings back what an invalidation or a new session
\* took away, neither in a view nor in a page of a list.
ShownIsFresh ==
  LET own(facts) == facts.day >= page.since /\ facts.user = page.session.user
  IN /\ \A v \in Views :
          page.shown[v].entry.result.kind = "FACTS" => own(page.shown[v].entry.result)
     /\ ~page.list.due => \A n \in DOMAIN page.list.items : own(page.list.items[n])

\* Whatever is invalidated, lost, limited or late, a view of a signed-in page does not stay
\* loading: it shows facts, a refusal or a failure.
ReadsSettle ==
  \A v \in Views :
    Authenticated /\ page.shown[v].entry.loading ~> ~page.shown[v].entry.loading \/ ~Authenticated
=============================================================================
