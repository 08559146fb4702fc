# ClaimCore verification project

TLA+ models of ClaimCore, a register of claims cases: what its rules allow, what
its ledger and its recovery protocol promise, what its browser client makes of
that promise, and how far all of it survives concurrent writers, lost answers,
repeated requests, erasure and a page whose person, session and access change
while answers are under way. TLC checks small instances; for the rules, the
register, the browser's operations, their recovery and the parts of the page
TLAPS proves the safety properties, and for the register the refinement, for
every value of the constants.

## The system

| Component | State | Operations | What is hard |
|---|---|---|---|
| Case rules (`ClaimCore.Domain`) | one case: ABSENT, ACTIVE, VOIDED, ERASED; a registration, a decision, a payment, opened or closed | 12 acts: open, amend, correct, decide, withdraw, pay, clear payment, close, reopen, void, reinstate, erase | corrections merge partial assertions with accepted values and are admitted piece by piece; the business date can step back |
| Authority (`Domain/Authority.fs`) | actors, enabled or not, profiles, grants for the installation or one case | enroll, grant, revoke, enable, disable, profile, erase profile, provision | last owner; grants read in the same transaction as the act |
| Execution, replay, recovery (`ClaimCore.Application`) | none of its own | execute, resolve (settle), status, preview, reads | the same identity sent again, by anybody, at any time; settlement racing a delayed submission |
| Ledger (`ClaimCore.Postgres/Ledger`, `db/baseline.sql`) | ledger, head, projections, fences, maintenance | lock head, append, project, erase payloads, enter and leave maintenance | commits whose outcome is unknown; rollback on every refusal; several statements per write |
| Case work, reminders | work item and reminders beside the case, with their own revisions | update work, plan, revise, cancel, complete, complete and plan next | assignees that lose eligibility; reminders of closed, voided, erased cases |
| Verification, rebuild | none | recompute projections from the ledger, compare, replace | runs over a stopped or paused register |
| Sessions, access requests | sessions with idle and absolute expiry; requests of unregistered principals | create, retrieve, renew, remove, prune | renewal racing removal |
| Web host | limiters, partitions per principal, leases | admit, release, stop | releasing exactly once on every path; bounded shutdown |
| Native client (`ClaimCore.Cli`) | recovery journal, tokens | journal, dispatch, interrupt, settle, discard | a crash or an interrupt anywhere around dispatch |
| Browser operation (`web/src/operation`, `hooks/operation`) | draft, review, prepared request, effect under way, conflict, outcome; the record in the page's journal | edit, preview, review, send, check, settle, rebase on a conflict, return to editing, invalidate | answers of abandoned effects; context that changes between review, record and dispatch |
| Browser recovery (`web/src/recovery`) | durable journal shared by the pages; list, check and lock of the page | publish, list, check, settle, remove | lists that overtake each other; a requester who leaves and returns; another page |
| Browser reads and session (`web/src/api`, `hooks/endpointCache`, `session`) | cache entries, read slots, deadline, observed date, session epoch | read, wait, retry, abort, invalidate, page, sign in and out | facts published after they were invalidated; slots that do not come back; a read nobody repeats |
| Browser forms and replies (`web/src/protocol`, `components/CatalogInputs`) | values by path | seed, choose a branch, type, add a row, assemble, correlate | two filters over one catalog; a reply of another request |
| Browser workspace (`views/Dashboard`, `routing`) | route, mounted area and editor, stopped departure | navigate, park, sign out, verify the requester | work lost when a view is unmounted |
| Access panel (`views/AuthorityPanel`, `useAuthorityTarget`) | disclosure, record, one form, pending consent | disclose, refuse, select, choose an act, consent | consent given to something that has changed |
| Typed dates and amounts (`components/CatalogDate`, `DateEntryDraft`, `presentation/amountEntry`) | segments in the mounted field, their copy in the form, amounts with the locale they were typed in | type, pick, cover and uncover, discard, review | a field unmounted over an incomplete date; a text read by another locale |
| Languages and preferences (`presentation`, `features/settings`) | language, display locale, catalogs installed, load awaited, what is stored | choose, load, fail, retry, store, reload | loads that end out of order |

A client names every write with an operation UUID it makes durable before it
sends it. The host admits the request and calls the application service. The
service opens one READ COMMITTED transaction, locks the single ledger head,
reads the actor, the operation, the case and the maintenance state, asks the
domain for a verdict, and either appends and projects or rolls back. The
installation accepts an operation UUID once. An author who does not know what
became of a request asks passively (`status`, one snapshot, no lock) or settles
it (`resolve`), which appends a control entry, the final nonacceptance of that
author's identity.

In the browser the form assembles a request; the operation reviews it, writes a
recovery record, dispatches, and takes for its answer only a reply that
correlates with the request. A known final fate removes the record; any other
end leaves it for the recovery list, which asks the service again. Acceptance
invalidates the read cache, whose replies feed the forms of the next operation.
The workspace mounts and unmounts the editors as the address, the session and
the person's views change; the access panel keeps one form over changing
records.

Properties that make the parts correct:
case rules - recorded dates stay in order across groups, a payment has its
decision, an offered act without dates succeeds, void and erase are what they
say; ledger - append-only, projections equal to what the ledger says, no write
on a stale head, erasure complete and limited to its case, an owner remains,
maintenance is quiet; recovery - an operation has one fate, clients are told
only settled fates, every transaction ends; browser operation - an identity
carries one request, doubt about it stays until a final fate is known and its
record outlives the doubt, what is confirmed was reviewed, authored text
survives a conflict, no lock stays; browser recovery - one check per owner, a
page shows only its requester's records, a record is removed only for a final
fate; reads - what is shown is no older than its invalidation, slots are
conserved, nothing loads for ever; forms - the request says what the form shows;
workspace and access panel - work ends and is replaced only with consent; typed
entries - what was typed stays, and is read as it was meant; languages - the last
choice rules, and no text is asked of a catalog that is not there. For the parts not modelled yet the hazards in `PROJECT.json` say what has to hold.

## Modules

**CaseRules** holds the rules as operators. `Offered` is
`Transitions.applicable`; `Changed` and `Admitted` are `Transitions.change` and
`apply`; `AdmitDay`, `CrossProgress`, `AdmitClaim` are the value and state
validation; `CorrectsExistingValues` .. `AdmitCorrection` are
`CaseCorrections`; `Refusal` and `After` are `Case.decide`. Days and amounts are
numbers (the rules compare them and ask whether a payable amount is zero);
incident country, names, claimed money and description are one opaque
particular, because no rule relates them to anything else. The code refuses a
malformed value before these rules run; the model enumerates well-formed acts.

**CaseLife** is one case over `row`, the accepted snapshot, and `today`, the
business date. One action per act, each the whole of `Case.decide` for it;
`Calendar` moves the date, also backwards: `Transactions.head` reads the
database clock after the lock and nothing makes it monotonic. `latest` only
records the largest date seen, for `NoUnreachedDay`.

**AuthorityRules** is the role policy and what each act needs, corrections
group by group.

**Register** is the core: ledger, case projection, fences, enabled actors,
maintenance, the head lock, and per worker the request being served.

| Model | Code |
|---|---|
| `Receive`, `Answer`, `LoseAnswer` | a request reaches `Service`; its answer reaches the client or not |
| `Begin` | `Transactions.head`: the lock on `ledger_head`, then the clock |
| `Decide` | everything read and decided under the head: `CaseExecution.run`, `AuthorityExecution.run`, `Resolution.run` with `ExecutionFacts` and `OperationIdentity.decide`; any verdict but Proceed rolls back |
| `CommitApplied`, `CommitLost` | `Persistence` and COMMIT, done or not done, with or without a confirmation (`providerFailure` turns a lost confirmation into OUTCOME_UNKNOWN) |
| `Abandon` | lock, statement and idle timeouts, cancellation, a lost connection, a stopped process: the transaction rolls back |
| `Status` | `RecoveryStatus.run` on one snapshot, without the head |
| `EnterMaintenance`, `ResumeRegister` | `RegisterMaintenanceStore.change`, under the head as well |
| `Extends` | `ledger_extend_head` and the unique indexes |
| `Purged` | `erase_case_payload` |

Reading and deciding is one step because every reader of a write holds the
head, and nothing else writes. Statements of a write are one step with its
COMMIT because no other transaction can see between them. `told` collects what
clients were told for good; a verdict that promises nothing adds nothing.

Identity: two submissions are one operation when `CaseIdentity` (or
`AuthorityIdentity`) agrees. As in `RequestRecord.identity` the author is not
part of it, and a case reached by reference or by id is the same case. A stored
payload is a set with one element, empty after erasure.

**Delivery** is what the register promises authors, as three actions on the
fate of each author's identity. `Register!KeepsDeliveryPromises` is the
refinement: a fate is read off the ledger (`Fate`), acceptance and settlement
are commits, telling is `Answer`.

**BrowserOperation** is one editor. `panel` is the state of `operationState.ts`
(phase, draft, snapshot, effect, prepared request, conflict, locks), `page` what
surrounds it (requester, generation, target, mounted or not), `runs` the
asynchronous functions of `useOperation.ts` between two awaits, `journal` the
recovery records, `wire` the requests sent, `ledger` and `head` what the service
decided and the case's revision. The reducer's transitions are operators named
after its functions; an action is one event of a person, an effect or the
context. The last variables are ghosts: what was authored, reviewed, sent and
heard, which the properties compare with the state. What a panel authors is a
scenario (a case, a new case, an access form), so that one module serves all.

**BrowserRecovery** is `useRecoveryNotice` and the notice of one page over the
shared `journal` and the `ledger`; `page` holds the owner (an actor in one
session epoch), the lists under way, what is shown, the check and its lock. A
list reads the journal at one moment and is answered at another. Other pages of
the browser publish and remove records of the same requesters; only their
effect on the journal is modelled. The service decides and answers a check in
one step: between the two only the answer can be lost, which is an outcome of
its own. A removal may fail. No separate step separates the commit of a record
from the publication of it to the page, because focus lists it again anyway. The
dialog of an aged settlement may name a record that has left the list, as it
does in the code.

**BrowserReads** is `EndpointCache`, `useEndpoint`, `useEndpointPage`,
`service.ts` with its admission, retry and deadline, `useBusinessDate` and
`useSession`. A read is waiting for a slot, asking, limited, answered, or
draining after its abort; an entry of the cache is loading or holds a result of
a day for a user. `RunEffect` is the effect React owes after a rendering: it
runs only if something it depends on changed, which is where liveness is
decided. `Stable` names the views whose input object is the same in each
rendering.

**CatalogForms** has the form's own operators: what it starts with
(`authoredValue`, `prefilledValue`), what it shows, and what
`catalogAssembly.ts` sends. Its actions type, choose, add and remove rows, and
take a newer case. **ReplyCorrelation** has the matchers of
`replyCorrelation.ts`: receipts, previews, statuses, settlements, pages, and
identities whose letters may come in either case.

**Workspace** is the signed-in page: session, requester, verified owner, route,
mounted area, editor, a stopped departure, a sign-out under way. What happens
inside an operation is BrowserOperation's; here the editor has a phase.
**BrowserAuthority** is the access panel: disclosure, record, the form with the
facts it was seeded from, an act waiting for consent. React renders and runs its
effects before the next event, so each action of these two ends with `Render` or
`Rendered`, which are the conditional mounts and the effects of the components.

**Presentation** is `PresentationProvider` with `preferences.ts` and
`languageCatalog.ts`: what the page shows and awaits (`state`), the loads under
way, the catalogs installed, what storage holds for the next visit. A language
or a locale is its tag, a sequence of subtags, so that `matchingLanguage` and
`negotiatePreferences` shorten and compare tags as the code does. A load ends or
fails whenever it likes; storage may be unreadable or refuse a write.

**TypedEntry** is one input of a form, a date or an amount, being typed. A date
is the three segments of the mounted field; `input` is what the operation holds
of it: the value, complete or empty, and `entry`, the segments of an incomplete
date. `Settle` is the rendering after an event with the layout effect of
`DateEntryDraft` and the one more rendering it can cause. `Follow` stands for
the date field of react-aria-components, which is external: segments follow a
value that changed; when the value became empty the field may keep the other
segments or drop them. An amount is a text of runs of digits between
marks, without leading zeros; `normalizeAmountEntry` reads it by the display
locale it was typed in. Settings, a question, a review and the loss of the
session cover the form and unmount the field.

**MCBrowserPage** puts these six beside each other: they share no variables, so
`part` chooses the one a behaviour exercises (`FORM` with the replies to its
requests, `WORKSPACE`, `AUTHORITY`, `LANGUAGES`, `ENTRY`) and leaves the others
alone. It also holds a cut of the catalog with one input of each kind the real
one has.

**MCCaseLife**, **MCRegister**, **MCBrowserOperation**, **MCBrowserRecovery**
and **MCBrowserReads** give the constants. **CaseRulesProofs**,
**CaseLifeProofs**, **RegisterProofs**, **BrowserOperationProofs**,
**BrowserRecoveryProofs**, **BrowserReadsProofs**, **BrowserPageProofs** and
**CatalogFormsProofs** hold the lemmas and theorems.

## Runs

| Run | Bounds | Shows |
|---|---|---|
| `case_life` | 3 days, amounts {0, 5}, 2 particulars, 6 acceptances | the rules on every act sequence; three days allow one date before and one after each other date, six acceptances allow open, decide, pay, correct, void, erase |
| `delivery` | 2 people, 2 identities, 2 requests served at once, 1 maintenance period | a repeated, a foreign and a conflicting submission of one identity with settlement and status; any number of repetitions |
| `history` | 4 identities, 7 requests, 2 workers | open, decide, close, erase, racing acts on a revision, reuse of an erased reference |
| `control` | 2 owners, 2 workers, 1 maintenance period | mutual and self disabling, maintenance starting under load; under fairness every transaction releases the head and every request ends |
| `foreign_replay` | as `delivery` | the first finding below |
| `browser_operation` | 2 requesters, 2 identities, 4 effects, 1 change of context, revisions to 2, two texts | one editor of a case, a new case or an access form: refusals, conflicts, lost and late answers, remounts, changes of requester |
| `browser_withdrawal` | one scenario with a withdrawal while the record is written | the second finding |
| `browser_recovery` | 2 requesters, two attempts of one operation, another page | lists, checks and removals that overtake each other, changes of session |
| `browser_reads` | the context view and a list of 2 pages, 2 slots, 1 new day, 1 resume, 3 epochs, 3 reads under way | slots, freshness, one reply for each place, pages of a list in order, and that every shown view stops loading |
| `browser_summary` | the parts of `browser_reads`, one view with a stable input; no new day, 2 resumes, 1 epoch, 2 reads under way | the third finding |
| `browser_page` | a cut of the catalog; 2 people, 7 pages, 3 epochs; 2 actors, 3 disclosures; 4 languages, 3 display locales, 4 requests for a language; 4 locales of numbers, 7 amounts, segments of {1, 2} | forms and replies, the workspace, the access panel, languages, typed dates and amounts |
| `browser_visibility` | as `browser_page` | the fourth finding |

Two workers are enough for the races that exist: all writes pass one lock, so
an interleaving is a pair of one holder and one request that waits, reads a
snapshot, or answers late. The number of repetitions is not bounded: the state
is finite because the ledger accepts an identity once and settles it once per
author. `MaxRevision` and `MaxGeneration` are the only bounds inside guards.
A behaviour of the register may stop (no client is obliged to send), but
`Receive` is always possible, so deadlock checking stays on. In the browser four
runs reach states with nothing left to do, and do not check deadlock:
`browser_operation`, `browser_withdrawal` and `browser_recovery` when the
identities or attempts of the instance are used up, `browser_page` (and
`browser_visibility`) when the page rests after a sign-out. `browser_reads` does
check it.

Why the browser's bounds are enough. Two requesters allow a change and a return;
each epoch is a new owner: two of them a stale and a current one, and where the
run has three also a next one. An
operation identity is replaced after an edit of a prepared request, so two
identities show the old and the new request; four effects are a preview, a
dispatch, a check and one that comes late. Two read slots are fewer than the
reads that want one; the code's constant is larger but enters only a comparison.
One change of the day separates stale from fresh facts. `MaxOperations`,
`MaxEffects`, `MaxContexts`, `MaxRevision`, `MaxEpochs`, `MaxLists`, `MaxDay`,
`MaxResumes`, `MaxReads` and `MaxRequests` are the bounds inside guards. Four
requests for a language show a stale load, the awaited one, a retry and a choice
made meanwhile; the browser's lists of languages hold none, an unknown variant of
a known one, and the pseudolanguage. Two numbers per segment tell a kept segment
from a changed one. The amounts are those that two of the four locales read
differently, or only one of them reads.

Fairness: `FairSpec` assumes weak fairness of `Serve(w)` for each worker. Every
step of a served request is bounded in the code - `lock_timeout`,
`statement_timeout`, `idle_in_transaction_session_timeout` and the request's
cancellation - and ends in an answer or a rollback. Nothing is assumed of
clients or of maintenance. `BrowserOperation` assumes weak fairness of the
functions under way (`Executing`): a journal transaction ends or fails and a
request is answered or meets its deadline; nothing is assumed of the person.
`BrowserReads` assumes that React runs the effects it owes (`RunEffect`) and
that the deadline fires (`Expire`); it relies on no answer.

## Findings

Each is a run whose property states what the repository says and whose trace
shows what the code does.

`foreign_replay`: a registered person who is not the author and may read
history sends the same content under an accepted identity. The answer is
STORE_INTEGRITY_ERROR, whose text is "Stored data failed verification. Stop and
run verify." (`ClaimCore.Protocol/Messages/Localization/en.json:180`). The
ledger is sound: `receipt` (`LedgerEntries.fs:797-809`) compares the entry's
actor with the person who asks, because `OperationIdentity.decide` builds the
receipt in the asker's name.

`browser_withdrawal`: access is withdrawn while `journalBeforeSend` waits for the
recovery record. `INVALIDATE` returns the operation to editing but changes
nothing `current()` (`useOperation.ts:359-363`) compares, so the mutation is
sent. When its acceptance arrives the record is removed and `RECORD` is ignored:
neither the page nor the journal tells of the accepted act.

`browser_summary`: `EndpointCache.invalidate` aborts a read under way and
publishes loading again; the effect of `useEndpoint` depends on nothing that
changed, unless the input object is new in each rendering. The summary of the
case list memoises its query (`CaseList.tsx:233`) and stays loading for ever.
`browser_reads` shows that views whose input is renewed in each rendering do
settle.

`browser_visibility`: on the case page and the reminder queue a context answer
without the case view, or a context read that fails after a return to the
window, unmounts the editor with its unsaved draft. The comment at
`Dashboard.tsx:252` says otherwise, and the screens `people`, `caseAct` and
`newCase` do keep theirs, which `DraftsEndByConsent` checks in `browser_page`.

Smaller, and without a run: the comment on `cases.case_id` in `db/baseline.sql`
derives case ids from the reference; the code uses the UUID of the accepted OPEN.
`docs/integrating.md:523-526` lets stored preferences of an unsupported version
or shape "use defaults"; the code falls back to what it negotiates from the
browser's languages (`preferences.ts:141-149`). An amount the service discloses is
shown in wire form, also where the point groups digits: `1.234` shown under
de-DE means one and a bit, and the same text typed there is read as 1234.

## Proofs

Every safety property the runs of the rules and the register check, the
refinement of Delivery, and every safety property the runs of the browser check
are also theorems, forty-one in all, for every value of the constants. The type
invariants of the register and the browser are theorems only. The assumptions are
`CaseAssumption` (days are positive numbers, amounts and particulars numbers),
`LifeAssumption` (a bound on revisions) and `RegisterAssumption`: finitely many
actors, at least one of them an owner, requests of the shapes the API accepts,
and the two "nothing" values distinct from the values they stand beside. In the
browser they say how the constants are built: bounds are numbers, requesters,
routes and subjects are of the sets the modules name, there is a slot to read in, `TagsAssumption` that a
language is a sequence of subtags, `LocalesAssumption` that a segment's numbers
are not the placeholder and that a locale's decimal mark does not group,
`SentAssumption` that requests are of the shapes `contracts/client.ts` gives
them, an admission grants a role, and an operation's fresh identity is not that
of the reminder it completes. `CatalogAssumption` says what the entries of the
catalog are like: a binding is known by its path, an amount and its currency are
both optional or both required, a choice has options and must be made, and a
grant asks for its role, principal and scope; every entry of
`contracts/catalog.json` that executes an operation is of this shape. Two
theorems have a hypothesis besides; each is explained where the theorem is.

**Case rules.** `CaseRulesProofs` is about one decision. `Coherent` is what the
rules keep true of a live claim: ordered dates, and no payment without its
decision. Type correctness needs it, because a correction that keeps a payment
is well-formed only if the recorded groups were coherent. One lemma per kind of
act (`OpenedIsCoherent`, `AmendedIsCoherent`, `CorrectedIsCoherent`,
`ChangedIsCoherent`) leads to `DecisionIsProper`: whatever `Case.decide` does
not refuse leaves a proper snapshot of the next revision. `AdmittedDaysAreReached`
and `BareActIsAdmitted` say the same of dates and of acts that name none.
`CaseLifeProofs` adds time: its `IInv` says that the row is proper and that no
day in it lies behind the latest business date. `StepIsAct` reduces the twelve
actions to one accepted act, the calendar, or nothing; `SettingAsideKeeps`
reads off it that a voided claim is kept and an erased case final.

**Register.** No property of the register is inductive alone. `RegisterProofs`
states what carries them, in three parts:

- `LedgerInv`, about the ledger and its projections: rows are proper, a fence
  stands for every retained control and for nothing else, an operation has one
  fate, and a row is at or past each entry of its case and keeps its reference
  (`RowsCover`). The last is what makes a revision or a reference new without
  looking at the ledger, as the code does.
- `Holds(w)`: whoever has decided holds the head it decided on, outside
  maintenance, and `Pending` is still true of its entry - it fits the ledger, no
  control contradicts it, its snapshot is the next of its case.
- `ServiceTyped`.

`DecisionIsPending` is the decision (permission, replay, fence, refusal);
`CommitPreserves` is the commit; between them nothing moves, because the
register changes only under the head (`OnlyCommits`), `OthersHold`. From this
follow `TypeCorrect`, `OneFateHolds`, `WritesExtend` and `MaintenanceQuiet`.

For the answers it adds that every pending answer is true of the ledger
(`Truthful`) and that a settled fate stays (`CommitSettles`). The mapping of
`Delivery` follows: a commit is `Accept` or `Settle`, an answer that names a
fate is `Tell`, every other step stutters. `OwnerRemains` needs in addition that
a pending DISABLE leaves another enabled owner, which the count under the head
gives (`NotLastLeavesAnOwner`).

The second part of the module adds what a decision knows of its case
(`NextRevision`), and that the last entry of a case or actor exists, and proves
that histories replay, that projections agree with the ledger, that erasure is
complete and that the ledger is append-only.

**Browser operation.** `BrowserOperationProofs` follows one editor. Its
invariant `IInv` has a part for each thing the asynchronous functions of
`useOperation.ts` rely on without checking it:

- `Shape`: only a busy phase owns an effect; the effect it owns, scheduled or
  under way, is for the request the panel holds, is of the context in force, and
  stands where the phase says it stands.
- `Identities`: requests that can still be dispatched (`Live`) or once were have
  an identity of their own each, and while the draft is not frozen its identity
  was never exposed. This is what the renewal of the identity on an edit keeps.
- `Wired` and `Attempts`: a dispatch under way belongs to its run, a record is
  made once and by the requester who dispatches, an answer says what the ledger
  says, and the record is removed only after such an answer.
- `Reviews`: what is dispatched for the first time was reviewed in the context in
  force; an outcome is unknown only of something dispatched.
- `Freshness`: what the panel waits for was asked after the last `barrier`.

Every action is first reduced to one of a few forms of step (`StepsHaveForms`): the
panel changes by a transition of its own, an effect starts, advances, or ends
and is heard or not, the context changes. From `IInv` follow `TypeCorrect`,
`OneRequestHolds`, `RecordsOutliveDoubt`, `ConfirmationsHold`,
`FreshProofHolds`, and on single steps `DoubtSticks` and `TextSurvives`.
`HeardIsShown` needs one thing more, `Hearing`, that an acceptance which can
still be heard is of the operation the panel holds and waits for; its hypothesis
`SafeWithdrawals` leaves out the withdrawal of access while a record is being
written. Without it the statement is false, as `browser_withdrawal` shows, and
the run `browser_operation` has the same restriction.

**Browser recovery.** `BrowserRecoveryProofs` has `EpochsPass` (an owner is never
one the page is still to have, so its epoch tells obsolete calls from current
ones), `LockIsHeld` (a busy page is some call's, and a current call is alone),
`AnswersAreFinal`, `ListsAreOwn`, and `ListsAgree`: the list that will be shown
agrees with the journal once it is read, unless a notification still waits. The
last is why `QuietListHolds` is about quiet pages only: other pages publish and
remove records at any moment.

**Browser reads.** `BrowserReadsProofs` counts. Waiting reads get slots by their
`Rank`, the number of waiting reads up to them, and the reads that remain after
an abort move up by theirs; `RankIsBijection` and `FirstPlaces` say that ranks
number a set without gaps, so that `AdvanceFillsSlots` hands out exactly the
slots that are free or as many as are asked for. Over this stands `Sound`, which
every operator of the module keeps (a lemma each) and so every handler:

- `Slots`: the count is the number of reads that hold a slot, and a read waits
  only while all are taken.
- `ViewsOwn`, `ListOwn`, `Heard`: facts shown, and facts of an answer still to be
  delivered, are of the session's user and of no day before the last
  invalidation. An answer on its way counts because an invalidation turns it
  obsolete (`Drained`) instead of taking it back.
- `Lone` and `Paged`: no two reads are for one entry, and a page under way is the
  next after those shown. They carry `RepliesKeepTheirPlace`, and delivery needs
  them: what is delivered goes where nothing else is awaited.

`IInv` adds that the day of the last invalidation is not ahead of the service's,
so that an answer given now is not older than it. Liveness (`ReadsSettle`) does
not follow from any of this and stays with the run.

**The page.** `BrowserPageProofs` has five invariants, one per part.
`LatestChoiceHolds` needs that the load of the current generation is for the
awaited language and that nothing is awaited and failed at once (`LoadRules`);
the negotiation with the browser's list is the least index that fits, found by a
lemma on the least element (`LeastIsLeast`). `DraftsEndHolds` and
`DepartureHolds` need that an editor is mounted only in the area of its owner and
its page (`EditorIsMounted`), and that a stopped departure is one the page would
still stop (`DepartureIsStopped`). `ReplacementsAreKnown` needs that a record
shown belongs to the disclosure in force (`SnapshotIsCurrent`).
`TypedEntriesHold` needs an invariant as strong as the state (`DateAs`,
`AmountAs`): what was typed determines the value, the incomplete date beside it
and the mounted field. `SettledDate` computes the two renderings that follow an
event; the lemmas after it say what each event leaves. Its hypothesis
`AmountsReadOnce` is about the amounts alone: what `normalizeAmountEntry` makes of
each is the one number it reads as in its locale, or itself if it reads as none.
TLC evaluates it for the amounts of `browser_page` when it starts that run.
`RepliesBind` is a computation on records: a page awaits nothing or one of the
requests sent (`AwaitsSent`), and for any two requests the comparisons of
`replyCorrelation.ts` come down to those of names, revisions, acts and effects,
kind by kind (`CaseReview`, `WorkReview`, `ReminderReview`, `AuthorityReview`;
`EffectsBind` for receipts). Every receipt passes the checks a page makes
of it alone (`ReceiptsAreCoherent`), so an answer to the page's own request is
never dropped. Revisions are numbers without the limit of a safe integer.

**Forms.** `CatalogFormsProofs` has a lemma for each operator of the assembly
(`BindingsSay`, `RequestSays`, `RequestRows`: which inputs are sent, with what)
and one that compares the two filters, `StatedIsSent`: what is asked and applies
is sent exactly if it is stated. They need an invariant of the values (`Kept`):
every question that is not optional has an answer that may stand there, a pair of
facts is there or absent as a whole, a collection is a sequence of complete rows,
and the role of a grant is blank or admitted. The last is kept by
`clearsRoleSelection` when the principal or the scope changes and by
`roleOptionUnavailable` when the role does. From it follow
`RequestsSayWhatIsShown` and `GrantsStayAdmissible`, for a catalog of any size.

Not proved, and checked by TLC only: `RequestsEnd`, `LocksRelease` and
`ReadsSettle`, liveness under fairness, which the prover does not reach (as it
does not reach ENABLED); and the reading of amounts (`AmountsReadOnce`), a
recursive computation on texts, for which one would need induction over data.

## Not modelled

On the server: case-scoped grants, grant and profile changes, services; case
work and reminders; projections as folds and their rebuild; the session store;
the admission and the lifetime of the web host. They hold state and are on the
plan. Text and money admission, encodings and hashes, paging and disclosure, web
authentication, command parsing and generated code are sequential data handling
with no state a step of somebody else could change.

The native client's journal, frames and token session: on the plan. The
browser's journal has the same duties and is modelled.

In the browser: wording, focus, toasts, headings and layout hold no state that
reaches the service. `TypedEntry` is about one input: the errors of inputs, the
latest facts after a conflict (`BrowserOperation`) and an editor handed to another
person (`Workspace`) are not repeated there. Mode and accent are kept as the
display locale is. The discovery of assignees and of
people, the search and the filters of lists, and the dismissal of access
requests are further readers of the cache BrowserReads models once. Several
subscribers of one cache key are left out: the second release of a page's
subscription (`useEndpointPage.ts:142`, `endpointCache.ts:84`) is therefore not
covered. The access panel shows a person over the draft of another's admission
(`useAuthorityTarget.ts:156`); what a dialog shows is presentation, and the
request stays the applicant's. The five parts of `browser_page` are checked
beside each other, not composed: an editor of the workspace is a phase, and the
form of the access panel is written or not.

## Plan

1. CaseRules, CaseLife and their proofs: done.
2. Register, Delivery and their proofs: done.
3. BrowserOperation, BrowserRecovery, BrowserReads: done.
4. CatalogForms, ReplyCorrelation, Workspace, BrowserAuthority, Presentation,
   TypedEntry: done, except for
   what the previous section names.
5. Proofs about the browser: done for its operations, their recovery, the
   reads, the workspace, the access panel, the typed entries, the languages, the
   forms and the replies.
6. AuthorityRegister: enrollment, grants for the installation and for cases,
   revocation, profiles and their erasure, provisioning; the last owner over all
   of them. Runs with two owners and one case; theorem: an owner remains.
7. CaseWork: work and reminder revisions beside the case life; assignee
   eligibility, complete-and-plan-next as one effect group, erasure of all
   payloads. Abstract specification: a reminder is settled once.
8. Verification: the projections as folds of the ledger, rebuild under
   maintenance.
9. ClientRecovery, composed with Delivery: journal, dispatch, interrupt, crash,
   settlement, removal. Property: a dispatched identity stays journalled until
   its fate is known.
10. HostAdmission (partitions, limiters, leases, shutdown) and Sessions, whose
    capacity and lifetime properties hold for any number of principals.
