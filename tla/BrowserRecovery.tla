------------------------- MODULE BrowserRecovery -------------------------
(***************************************************************************)
(* Recovery of unresolved operations in one page of the browser. The pages   *)
(* share a durable journal of attempts (indexedJournal.ts); a page lists the *)
(* attempts of the requester it shows, asks the service about one of them or *)
(* settles it, and removes it once its fate is final (RecoveryContext.tsx,   *)
(* UnresolvedNotice.tsx). Requesters and sessions change, also back again,   *)
(* while lists and answers are under way.                                    *)
(***************************************************************************)
EXTENDS Integers, FiniteSets

CONSTANTS
  Actors,     \* requesters the pages can show
  Records,    \* recovery records [attempt, actor, op, act] that may be journalled
  Own,        \* those this page makes; other pages of the browser make the rest
  MaxEpochs,  \* bound on the owners the page has
  MaxLists    \* bound on the lists it has under way

Operations == {r.op : r \in Records}
Acts       == {r.act : r \in Records}

ASSUME RecoveryAssumption ==
  /\ Records \subseteq [attempt : 1..Cardinality(Records), actor : Actors,
                        op : Operations, act : Acts]
  /\ \A r, s \in Records : r.attempt = s.attempt => r = s
  /\ Own \subseteq Records
  /\ MaxEpochs \in Nat \ {0} /\ MaxLists \in Nat \ {0}
  /\ {"NONE", "FENCED"} \cap Acts = {} /\ "NOBODY" \notin Actors

VARIABLES
  journal,    \* the durable records
  ledger,     \* per operation NONE, FENCED, or the act accepted
  page        \* the state of the page's useRecoveryNotice

vars == <<journal, ledger, page>>

\* A recovery owner: an actor in one session epoch. Returning to an actor is a new owner.
NoOwner == [actor |-> "NOBODY", epoch |-> 0]
Owners  == [actor : Actors, epoch : 1..MaxEpochs] \cup {NoOwner}
NoToken == [owner |-> NoOwner, attempt |-> 0]

\* A list is superseded by the next one; found is what its transaction read.
Lists == [owner : Owners, latest : BOOLEAN, read : BOOLEAN,
          found : SUBSET Records]

Calls == [owner : Owners, record : Records, method : {"CHECK", "SETTLE"},
          answer : {"NONE", "ACCEPTED", "NOT_ACCEPTED", "OTHER"}, removed : BOOLEAN]

Scope(owner, records) == {r \in records : r.actor = owner.actor}

Mounted(epochs) ==
  [owner |-> NoOwner, epochs |-> epochs, view |-> [owner |-> NoOwner, records |-> {}, failed |-> FALSE],
   lists |-> {}, changed |-> FALSE, busy |-> NoToken, calls |-> {}]

Init ==
  /\ journal = {}
  /\ ledger = [o \in Operations |-> "NONE"]
  /\ page = Mounted(0)

----------------------------------------------------------------------------
\* The journal's transactions and their notification (indexedJournal.ts).

\* put: an attempt is added once; a different record under its key aborts.
PublishAttempt(record) == journal' = journal \cup {record}

\* remove: only the very attempt, identified by its key and its content.
RemoveAttempt_ByOperation(record) == journal' = {r \in journal : r.op # record.op}

RemoveAttempt(record) == journal' = journal \ {record}

ListAttempts(owner) == Scope(owner, journal)

----------------------------------------------------------------------------
\* Listing (the effect of useRecoveryNotice).

\* The serial is the effect's own: a list is superseded by a later one of its owner.
Superseded(owner, lists) == {[l EXCEPT !.latest = @ /\ l.owner # owner] : l \in lists}

Refreshed(s) ==
  [s EXCEPT !.changed = FALSE,
            !.lists = Superseded(s.owner, @) \cup
              {[owner |-> s.owner, latest |-> TRUE, read |-> FALSE, found |-> {}]}]

\* publish: this page lists at once after a change of its own, other pages when the
\* broadcast reaches them.
HearChange ==
  /\ page.changed /\ Cardinality(page.lists) < MaxLists
  /\ page' = Refreshed(page)
  /\ UNCHANGED <<journal, ledger>>

\* The window regains focus; during a list it is one more notification.
Focus ==
  /\ page.owner # NoOwner /\ page.lists = {}
  /\ page' = Refreshed(page)
  /\ UNCHANGED <<journal, ledger>>

ReadList ==
  \E l \in page.lists :
    /\ ~l.read
    /\ page' = [page EXCEPT !.lists =
                  (@ \ {l}) \cup {[l EXCEPT !.read = TRUE, !.found = ListAttempts(l.owner)]}]
    /\ UNCHANGED <<journal, ledger>>

\* Superseded lists, and those of an owner whose effect was cleaned up, are dropped.
Listed_AnyOwner(s, l, failed) ==
  IF ~l.latest THEN s.view
  ELSE [owner |-> s.owner, records |-> IF failed THEN {} ELSE l.found, failed |-> failed]

Listed_AnyOrder(s, l, failed) ==
  IF l.owner # s.owner THEN s.view
  ELSE [owner |-> l.owner, records |-> IF failed THEN {} ELSE l.found, failed |-> failed]

Listed(s, l, failed) ==
  IF ~l.latest \/ l.owner # s.owner THEN s.view
  ELSE [owner |-> l.owner, records |-> IF failed THEN {} ELSE l.found, failed |-> failed]

\* A transaction that could not be opened or was not committed is a failed list.
ShowList ==
  \E l \in page.lists : \E failed \in BOOLEAN :
    /\ l.read
    /\ page' = [page EXCEPT !.view = Listed(page, l, failed), !.lists = @ \ {l}]
    /\ UNCHANGED <<journal, ledger>>

----------------------------------------------------------------------------
\* Checks and settlements (perform, recoverAttempt, UnresolvedNotice).

\* visibleRecovery: only what belongs to the current owner is shown.
Operating(s) == s.busy.owner = s.owner /\ s.owner # NoOwner
ShownRecords(s) ==
  IF s.owner # NoOwner /\ s.view.owner = s.owner THEN Scope(s.owner, s.view.records) ELSE {}

Performing(s, record, method) ==
  [s EXCEPT !.busy = [owner |-> s.owner, attempt |-> record.attempt],
            !.calls = @ \cup {[owner |-> s.owner, record |-> record, method |-> method,
                               answer |-> "NONE", removed |-> FALSE]}]

Check ==
  /\ ~Operating(page)
  /\ \E r \in ShownRecords(page) :
       page' = Performing(page, r, "CHECK")
  /\ UNCHANGED <<journal, ledger>>

\* The dialog belongs to the owner it was opened under; the record it names may have
\* left the list since, because its fate was learned.
Settle ==
  /\ page.owner # NoOwner /\ ~Operating(page)
  /\ \E r \in Scope(page.owner, Records) :
       /\ r \in journal \/ ledger[r.op] # "NONE"
       /\ page' = Performing(page, r, "SETTLE")
  /\ UNCHANGED <<journal, ledger>>

\* What the service says of an operation; any answer may be lost on the way.
Outcome(fate) ==
  IF fate = "NONE" THEN "OTHER" ELSE IF fate = "FENCED" THEN "NOT_ACCEPTED" ELSE "ACCEPTED"

\* A settlement asked for may be decided even if nobody hears of it.
Resolved(op) == IF ledger[op] = "NONE" THEN [ledger EXCEPT ![op] = "FENCED"] ELSE ledger

Answer ==
  \E c \in page.calls :
    /\ c.answer = "NONE"
    /\ ledger' \in IF c.method = "SETTLE" THEN {ledger, Resolved(c.record.op)} ELSE {ledger}
    /\ \E answer \in {"OTHER", Outcome(ledger'[c.record.op])} :
         page' = [page EXCEPT !.calls = (@ \ {c}) \cup {[c EXCEPT !.answer = answer]}]
    /\ UNCHANGED journal

IsCurrent(s, c) == c.owner = s.owner

\* Final, and for an acceptance of the act that was journalled.
FinalResolution_AnyAct(c) == c.answer \in {"ACCEPTED", "NOT_ACCEPTED"}

FinalResolution(c) ==
  \/ c.answer = "NOT_ACCEPTED"
  \/ c.answer = "ACCEPTED" /\ ledger[c.record.op] = c.record.act

Clean ==
  \E c \in page.calls :
    /\ ~c.removed /\ IsCurrent(page, c) /\ FinalResolution(c)
    /\ Cardinality(page.lists) < MaxLists
    /\ RemoveAttempt(c.record)
    /\ page' = Refreshed([page EXCEPT !.calls =
                           (@ \ {c}) \cup {[c EXCEPT !.removed = TRUE]}])
    /\ UNCHANGED ledger

\* Only the call's own lock is released.
Released_Any(s, c) == NoToken

Released(s, c) ==
  IF s.busy = [owner |-> c.owner, attempt |-> c.record.attempt] THEN NoToken ELSE s.busy

\* After the removal, after a removal that failed, or after an answer that is not final
\* or no longer concerns the page.
Finish ==
  \E c \in page.calls :
    LET s == page
        cleaned == c.removed /\ IsCurrent(s, c) /\ s.view.owner = c.owner
    IN /\ c.answer # "NONE"
       /\ page' = [page EXCEPT !.calls = @ \ {c}, !.busy = Released(s, c),
                               !.view.records = IF cleaned THEN @ \ {c.record} ELSE @]
       /\ UNCHANGED <<journal, ledger>>

----------------------------------------------------------------------------
\* Owners, pages and the service.

Aborted_Dropped(calls) == {c \in calls : c.method = "SETTLE" \/ c.answer # "NONE"}

\* Passive checks of the former owner are aborted, settlements run on.
Aborted(calls) ==
  {IF c.method = "CHECK" /\ c.answer = "NONE" THEN [c EXCEPT !.answer = "OTHER"] ELSE c : c \in calls}

\* A requester is shown, changes, signs out or comes back in a new session.
ChangeOwner ==
  /\ page.epochs < MaxEpochs
  /\ \E actor \in Actors \cup {"NOBODY"} :
       /\ page.owner = NoOwner => actor # "NOBODY"
       /\ LET s == [page EXCEPT
                      !.epochs = @ + 1, !.calls = Aborted(@), !.changed = FALSE,
                      !.owner = IF actor = "NOBODY" THEN NoOwner
                                ELSE [actor |-> actor, epoch |-> page.epochs + 1]]
          IN page' = IF actor = "NOBODY" THEN s ELSE Refreshed(s)
  /\ UNCHANGED <<journal, ledger>>

\* A crash or a reload loses everything the page holds.
Reload ==
  /\ page.owner # NoOwner
  /\ page' = Mounted(page.epochs)
  /\ UNCHANGED <<journal, ledger>>

\* An operation panel of this page journals an attempt and dispatches it, or stops between.
Journal ==
  \E r \in Scope(page.owner, Own) \ journal :
    /\ ledger[r.op] = "NONE" /\ Cardinality(page.lists) < MaxLists
    /\ PublishAttempt(r) /\ page' = Refreshed(page)
    /\ UNCHANGED ledger

\* Another page of the browser journals an attempt, or removes one whose fate it learned.
Elsewhere ==
  \E r \in Records :
    /\ IF r \in journal
       THEN ledger[r.op] \in {"FENCED", r.act} /\ RemoveAttempt(r)
       ELSE r \notin Own /\ ledger[r.op] = "NONE" /\ PublishAttempt(r)
    /\ page' = [page EXCEPT !.changed = page.owner # NoOwner]
    /\ UNCHANGED ledger

\* A journalled attempt that was dispatched is accepted, however late.
Accept ==
  \E r \in journal :
    /\ ledger[r.op] = "NONE"
    /\ ledger' = [ledger EXCEPT ![r.op] = r.act]
    /\ UNCHANGED <<journal, page>>

----------------------------------------------------------------------------
Person == \/ Check \/ Settle \/ ChangeOwner \/ Reload \/ Journal
             \/ Focus

Listing == HearChange \/ ReadList \/ ShowList

Recovering == Answer \/ Clean \/ Finish

Next == Accept \/ Elsewhere \/ Person \/ Listing \/ Recovering

Spec == Init /\ [][Next]_vars

----------------------------------------------------------------------------
\* Every variable keeps its type, and a call holds the lock of its owner.
TypeOK ==
  /\ journal \subseteq Records
  /\ ledger \in [Operations -> Acts \cup {"NONE", "FENCED"}]
  /\ page.owner \in Owners /\ page.epochs \in 0..MaxEpochs
  /\ page.view.owner \in Owners /\ page.view.records \subseteq Records
  /\ page.view.failed \in BOOLEAN
  /\ page.lists \subseteq Lists /\ page.calls \subseteq Calls
  /\ page.changed \in BOOLEAN
  /\ page.busy = NoToken \/ \E c \in page.calls :
                               page.busy = [owner |-> c.owner, attempt |-> c.record.attempt]

\* One check or settlement at a time for the owner a page shows, from the press to the
\* end of the journal's removal; an obsolete completion cannot unlock a newer one.
OneCheckPerOwner ==
  LET mine == {c \in page.calls : IsCurrent(page, c)}
  IN mine # {} => Operating(page) /\ Cardinality(mine) = 1

\* An attempt leaves the journal alone, and only once the fate of its operation is final
\* and, if accepted, is the act that was journalled.
RemovalIsEarned ==
  [][\A r \in journal \ journal' :
       journal' = journal \ {r} /\ ledger[r.op] \in {"FENCED", r.act}]_vars

\* What a page lists is of the requester it shows, never of one it showed before.
ShownIsOwn ==
  \A r \in page.view.records :
    page.view.owner = page.owner => r.actor = page.owner.actor

\* Whenever no list is under way and no notification is waiting, the page lists the
\* requester's attempts exactly as the journal has them, or says that it cannot: no order
\* of lists, removals and changes leaves a stale list behind.
QuietListAgrees ==
  page.owner # NoOwner /\ ~page.changed /\ (\A l \in page.lists : l.owner # page.owner) =>
    /\ page.view.owner = page.owner
    /\ page.view.failed \/ page.view.records = Scope(page.owner, journal)
=============================================================================
