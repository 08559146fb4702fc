----------------------- MODULE BrowserRecoveryProofs -----------------------
(***************************************************************************)
(* For any requesters, attempts, owners and lists: the page runs one check  *)
(* for the owner it shows, removes an attempt only when its fate is final,  *)
(* and lists nobody else's attempts and no stale ones.                      *)
(***************************************************************************)
EXTENDS BrowserRecovery, FiniteSetTheorems, TLAPS

Tokens == [owner : Owners, attempt : {0} \cup 1..Cardinality(Records)]
Views  == [owner : Owners, records : SUBSET Records, failed : BOOLEAN]
Pages  == [owner : Owners, epochs : 0..MaxEpochs, view : Views, lists : SUBSET Lists,
           changed : BOOLEAN, busy : Tokens, calls : SUBSET Calls]

TokenOf(c) == [owner |-> c.owner, attempt |-> c.record.attempt]

StoreTyped ==
  /\ journal \subseteq Records
  /\ ledger \in [Operations -> Acts \cup {"NONE", "FENCED"}]

(* An owner is never one the page is still to have, so its epoch tells a call
   of a former owner from one of the owner shown. *)
EpochsPass ==
  /\ page.owner.epoch <= page.epochs
  /\ page.changed => page.owner # NoOwner
  /\ \A c \in page.calls : c.owner # NoOwner /\ c.owner.epoch <= page.epochs

(* The lock is some call's, and the call of the owner shown has it alone. *)
LockIsHeld ==
  /\ page.busy = NoToken \/ \E c \in page.calls : page.busy = TokenOf(c)
  /\ \A c \in page.calls : IsCurrent(page, c) =>
       /\ page.busy = TokenOf(c)
       /\ \A d \in page.calls : IsCurrent(page, d) => d = c

(* What was answered is final, and what was removed was answered. *)
AnswersAreFinal ==
  \A c \in page.calls :
    /\ c.answer = "NOT_ACCEPTED" => ledger[c.record.op] = "FENCED"
    /\ c.answer = "ACCEPTED" => ledger[c.record.op] # "NONE"
    /\ c.removed => /\ c.answer \in {"ACCEPTED", "NOT_ACCEPTED"}
                    /\ c.record \notin journal

ListsAreOwn ==
  /\ \A r \in page.view.records : r.actor = page.view.owner.actor
  /\ \A l \in page.lists : \A r \in l.found : r.actor = l.owner.actor

(* Unless a notification is waiting, the list that will be shown agrees with
   the journal once it is read; when no list will be, the view does. *)
Fresh(l) == l.latest /\ l.owner = page.owner

ListsAgree ==
  page.owner # NoOwner /\ ~page.changed =>
    /\ \A l \in page.lists :
         Fresh(l) /\ l.read => l.found = Scope(page.owner, journal)
    /\ (\A l \in page.lists : ~Fresh(l)) =>
         /\ page.view.owner = page.owner
         /\ page.view.failed \/ page.view.records = Scope(page.owner, journal)

IInv ==
  /\ StoreTyped
  /\ page \in Pages
  /\ EpochsPass
  /\ LockIsHeld
  /\ AnswersAreFinal
  /\ ListsAreOwn
  /\ ListsAgree

----------------------------------------------------------------------------
(* What a list newly begun changes of a page. *)
LEMMA RefreshedFields ==
  ASSUME NEW s \in Pages
  PROVE  /\ Refreshed(s) \in Pages
         /\ Refreshed(s).owner = s.owner
         /\ Refreshed(s).epochs = s.epochs
         /\ Refreshed(s).view = s.view
         /\ Refreshed(s).busy = s.busy
         /\ Refreshed(s).calls = s.calls
         /\ Refreshed(s).changed = FALSE
  <1>1. Superseded(s.owner, s.lists) \subseteq Lists
    BY DEF Superseded, Lists, Pages
  <1>2. [owner |-> s.owner, latest |-> TRUE, read |-> FALSE, found |-> {}] \in Lists
    BY DEF Lists, Pages
  <1> QED
    BY <1>1, <1>2 DEF Refreshed, Pages

(* Of the lists under way, the one that will be shown is then unread. *)
LEMMA RefreshedLists ==
  ASSUME NEW s \in Pages
  PROVE  /\ \E l \in Refreshed(s).lists : l.latest /\ l.owner = s.owner
         /\ \A l \in Refreshed(s).lists : l.latest /\ l.owner = s.owner => ~l.read
         /\ \A l \in Refreshed(s).lists : l.found = {} \/ \E m \in s.lists :
                                            l.owner = m.owner /\ l.found = m.found
  <1> DEFINE new == [owner |-> s.owner, latest |-> TRUE, read |-> FALSE, found |-> {}]
  <1>1. Refreshed(s).lists = Superseded(s.owner, s.lists) \cup {new}
    BY DEF Refreshed, Pages
  <1>2. ASSUME NEW l \in Superseded(s.owner, s.lists)
        PROVE  /\ ~(l.latest /\ l.owner = s.owner)
               /\ \E m \in s.lists : l.owner = m.owner /\ l.found = m.found
    BY <1>2 DEF Superseded, Pages, Lists
  <1>3. new.owner = s.owner /\ new.latest /\ ~new.read /\ new.found = {}
    OBVIOUS
  <1> HIDE DEF new
  <1> QED
    BY <1>1, <1>2, <1>3

(* A list begun leaves every part of the invariant that speaks of the page's
   owner and lists, whatever the journal has become. *)
LEMMA RefreshedKeepsLists ==
  ASSUME ListsAreOwn, NEW s \in Pages, s.lists = page.lists, s.view = page.view,
         page' = Refreshed(s)
  PROVE  ListsAreOwn' /\ ListsAgree'
  <1>1. page'.view = page.view /\ page'.owner = s.owner /\ page'.changed = FALSE
    BY RefreshedFields
  <1>2. /\ \E l \in page'.lists : l.latest /\ l.owner = s.owner
        /\ \A l \in page'.lists : l.latest /\ l.owner = s.owner => ~l.read
        /\ \A l \in page'.lists : l.found = {} \/ \E m \in page.lists :
                                      l.owner = m.owner /\ l.found = m.found
    BY RefreshedLists
  <1>3. ListsAreOwn'
    BY <1>1, <1>2 DEF ListsAreOwn
  <1>4. ListsAgree'
    BY <1>1, <1>2 DEF ListsAgree, Fresh
  <1> QED
    BY <1>3, <1>4

----------------------------------------------------------------------------
LEMMA InitEstablishes == Init => IInv
  <1> SUFFICES ASSUME Init PROVE IInv
    OBVIOUS
  <1>1. page \in Pages
    BY RecoveryAssumption DEF Init, Mounted, Pages, Views, Tokens, NoToken, NoOwner, Owners
  <1>2. StoreTyped
    BY DEF Init, StoreTyped
  <1> QED
    BY <1>1, <1>2
    DEF Init, Mounted, IInv, EpochsPass, LockIsHeld, AnswersAreFinal, ListsAreOwn, ListsAgree, NoOwner

(* A step that leaves stores, owner, calls and lock alone keeps what is said of them. *)
LEMMA CallsAreKept ==
  ASSUME IInv, UNCHANGED <<journal, ledger>>,
         page'.owner = page.owner, page'.epochs = page.epochs,
         page'.busy = page.busy, page'.calls = page.calls,
         page'.changed = page.changed \/ page'.changed = FALSE
  PROVE  StoreTyped' /\ EpochsPass' /\ LockIsHeld' /\ AnswersAreFinal'
  <1>1. StoreTyped'
    BY DEF IInv, StoreTyped
  <1>2. EpochsPass'
    BY DEF IInv, EpochsPass
  <1>3. LockIsHeld'
    BY DEF IInv, LockIsHeld, IsCurrent
  <1>4. AnswersAreFinal'
    BY DEF IInv, AnswersAreFinal
  <1> QED
    BY <1>1, <1>2, <1>3, <1>4

(* Beginning a list, on hearing of a change or on regaining the focus. *)
LEMMA ListingBegins ==
  ASSUME IInv, HearChange \/ Focus
  PROVE  IInv'
  <1>1. page' = Refreshed(page) /\ UNCHANGED <<journal, ledger>> /\ page \in Pages
    BY DEF HearChange, Focus, IInv
  <1>2. ListsAreOwn' /\ ListsAgree'
    BY <1>1, RefreshedKeepsLists DEF IInv
  <1>3. StoreTyped' /\ EpochsPass' /\ LockIsHeld' /\ AnswersAreFinal'
    BY <1>1, RefreshedFields, CallsAreKept
  <1> QED
    BY <1>1, <1>2, <1>3, RefreshedFields DEF IInv

LEMMA ListingIsRead ==
  ASSUME IInv, ReadList
  PROVE  IInv'
  <1>1. PICK l \in page.lists :
          page' = [page EXCEPT !.lists =
                     (@ \ {l}) \cup {[l EXCEPT !.read = TRUE, !.found = ListAttempts(l.owner)]}]
    BY DEF ReadList
  <1> DEFINE new == [l EXCEPT !.read = TRUE, !.found = ListAttempts(l.owner)]
  <1>2. UNCHANGED <<journal, ledger>> /\ page \in Pages /\ l \in Lists
    BY DEF ReadList, IInv, Pages
  <1>3. /\ new \in Lists /\ new.owner = l.owner /\ new.latest = l.latest
        /\ new.read = TRUE /\ new.found = Scope(l.owner, journal)
    BY <1>2 DEF ListAttempts, Scope, Lists, IInv, StoreTyped
  <1>4. /\ page' \in Pages /\ page'.lists = (page.lists \ {l}) \cup {new}
        /\ page'.owner = page.owner /\ page'.epochs = page.epochs /\ page'.view = page.view
        /\ page'.changed = page.changed /\ page'.busy = page.busy /\ page'.calls = page.calls
    BY <1>1, <1>2, <1>3 DEF Pages
  <1>5. ListsAreOwn'
    <2>1. \A r \in new.found : r.actor = l.owner.actor
      BY <1>3 DEF Scope
    <2> HIDE DEF new
    <2> QED
      BY <1>3, <1>4, <2>1 DEF IInv, ListsAreOwn
  <1>6. ListsAgree'
    BY ZenonT(30), <1>2, <1>3, <1>4 DEF IInv, ListsAgree, Fresh
  <1> QED
    BY <1>2, <1>4, <1>5, <1>6, CallsAreKept DEF IInv

LEMMA ListingIsShown ==
  ASSUME IInv, ShowList
  PROVE  IInv'
  <1>1. PICK l \in page.lists, failed \in BOOLEAN :
          /\ l.read
          /\ page' = [page EXCEPT !.view = Listed(page, l, failed), !.lists = @ \ {l}]
    BY DEF ShowList
  <1>2. UNCHANGED <<journal, ledger>> /\ page \in Pages /\ l \in Lists
    BY DEF ShowList, IInv, Pages
  <1>3. Listed(page, l, failed) \in Views
    BY <1>2 DEF Listed, Views, Pages, Lists
  <1>4. /\ page' \in Pages /\ page'.lists = page.lists \ {l}
        /\ page'.owner = page.owner /\ page'.epochs = page.epochs
        /\ page'.view = Listed(page, l, failed)
        /\ page'.changed = page.changed /\ page'.busy = page.busy /\ page'.calls = page.calls
    BY <1>1, <1>2, <1>3 DEF Pages
  <1>5. ListsAreOwn'
    BY <1>4 DEF IInv, ListsAreOwn, Listed
  <1>6. ListsAgree'
    <2>1. CASE Fresh(l)
      BY <1>1, <1>2, <1>4, <2>1 DEF IInv, ListsAgree, Fresh, Listed
    <2>2. CASE ~Fresh(l)
      BY <1>2, <1>4, <2>2 DEF IInv, ListsAgree, Fresh, Listed
    <2> QED
      BY <2>1, <2>2
  <1> QED
    BY <1>2, <1>4, <1>5, <1>6, CallsAreKept DEF IInv

----------------------------------------------------------------------------
(* A step that leaves owner, view, lists and journal alone keeps what is said of them. *)
LEMMA ListsAreKept ==
  ASSUME IInv, UNCHANGED journal,
         page'.owner = page.owner, page'.view = page.view,
         page'.lists = page.lists, page'.changed = page.changed
  PROVE  ListsAreOwn' /\ ListsAgree'
  <1>1. ListsAreOwn'
    BY DEF IInv, ListsAreOwn
  <1>2. ListsAgree'
    BY DEF IInv, ListsAgree, Fresh
  <1> QED
    BY <1>1, <1>2

(* The lock of the call of the owner shown is that owner's. *)
LEMMA CurrentCallOperates ==
  ASSUME IInv, NEW c \in page.calls, IsCurrent(page, c)
  PROVE  Operating(page)
  <1>1. page.busy = TokenOf(c)
    BY DEF IInv, LockIsHeld
  <1>2. page.busy.owner = page.owner
    BY <1>1 DEF TokenOf, IsCurrent
  <1>3. page.owner # NoOwner
    BY DEF IInv, EpochsPass, IsCurrent
  <1> QED
    BY <1>2, <1>3 DEF Operating

(* A call starts only where no call of the owner shown is under way. *)
LEMMA CallStarts ==
  ASSUME IInv, page.owner # NoOwner, ~Operating(page), UNCHANGED <<journal, ledger>>,
         NEW r \in Records, NEW method \in {"CHECK", "SETTLE"},
         page' = Performing(page, r, method)
  PROVE  IInv'
  <1> DEFINE new == [owner |-> page.owner, record |-> r, method |-> method,
                     answer |-> "NONE", removed |-> FALSE]
  <1>1. page \in Pages
    BY DEF IInv
  <1>2. new \in Calls /\ TokenOf(new) \in Tokens
    BY <1>1, RecoveryAssumption DEF Calls, Pages, Tokens, TokenOf
  <1>3. /\ page'.calls = page.calls \cup {new} /\ page'.busy = TokenOf(new)
        /\ page'.owner = page.owner /\ page'.epochs = page.epochs /\ page'.view = page.view
        /\ page'.changed = page.changed /\ page'.lists = page.lists
    BY <1>1 DEF Performing, TokenOf, Pages
  <1>4. page' \in Pages
    BY <1>1, <1>2 DEF Performing, TokenOf, Pages
  <1>5. \A c \in page.calls : ~IsCurrent(page, c)
    BY CurrentCallOperates
  <1>6. /\ new.owner = page.owner /\ new.record = r
        /\ new.answer = "NONE" /\ new.removed = FALSE
    OBVIOUS
  <1> HIDE DEF new
  <1>7. EpochsPass'
    BY <1>3, <1>6 DEF IInv, EpochsPass
  <1>8. LockIsHeld'
    BY <1>3, <1>5, <1>6 DEF LockIsHeld, IsCurrent
  <1>9. AnswersAreFinal'
    BY <1>3, <1>6 DEF IInv, AnswersAreFinal
  <1>10. ListsAreOwn' /\ ListsAgree'
    BY <1>3, ListsAreKept
  <1> QED
    BY <1>4, <1>7, <1>8, <1>9, <1>10 DEF IInv, StoreTyped

LEMMA CheckStarts ==
  ASSUME IInv, Check
  PROVE  IInv'
  <1>1. PICK r \in ShownRecords(page) : page' = Performing(page, r, "CHECK")
    BY DEF Check
  <1>2. page.owner # NoOwner /\ r \in Records
    BY <1>1 DEF ShownRecords, Scope, IInv, Pages, Views
  <1> QED
    BY <1>1, <1>2, CallStarts DEF Check

LEMMA SettleStarts ==
  ASSUME IInv, Settle
  PROVE  IInv'
  <1>1. PICK r \in Scope(page.owner, Records) : page' = Performing(page, r, "SETTLE")
    BY DEF Settle
  <1>2. r \in Records
    BY DEF Scope
  <1> QED
    BY <1>1, <1>2, CallStarts DEF Settle

(* A call that only gets on with its work keeps its epoch and its lock. *)
LEMMA CallIsReplaced ==
  ASSUME IInv, NEW c \in page.calls, NEW new,
         new.owner = c.owner, new.record = c.record,
         page'.calls = (page.calls \ {c}) \cup {new}, page'.busy = page.busy,
         page'.owner = page.owner, page'.epochs = page.epochs,
         page'.changed = page.changed \/ page'.changed = FALSE
  PROVE  EpochsPass' /\ LockIsHeld'
  <1>1. EpochsPass'
    BY DEF IInv, EpochsPass
  <1>2. TokenOf(new) = TokenOf(c)
    BY DEF TokenOf
  <1>3. page'.busy = NoToken \/ \E d \in page'.calls : page'.busy = TokenOf(d)
    BY <1>2 DEF IInv, LockIsHeld
  <1>4. \A d \in page'.calls : IsCurrent(page', d) =>
           /\ page'.busy = TokenOf(d)
           /\ \A e \in page'.calls : IsCurrent(page', e) => e = d
    BY <1>2 DEF IInv, LockIsHeld, IsCurrent
  <1> QED
    BY <1>1, <1>3, <1>4 DEF LockIsHeld

(* No step but the service's changes a ledger fate, and none once it is final. *)
FatesStand == \A op \in Operations : ledger[op] # "NONE" => ledger'[op] = ledger[op]

LEMMA CallIsAnswered ==
  ASSUME IInv, Answer
  PROVE  IInv' /\ FatesStand
  <1>1. PICK c \in page.calls :
          /\ c.answer = "NONE"
          /\ ledger' \in IF c.method = "SETTLE" THEN {ledger, Resolved(c.record.op)} ELSE {ledger}
          /\ \E answer \in {"OTHER", Outcome(ledger'[c.record.op])} :
               page' = [page EXCEPT !.calls = (@ \ {c}) \cup {[c EXCEPT !.answer = answer]}]
    BY DEF Answer
  <1>2. PICK answer \in {"OTHER", Outcome(ledger'[c.record.op])} :
          page' = [page EXCEPT !.calls = (@ \ {c}) \cup {[c EXCEPT !.answer = answer]}]
    BY <1>1
  <1> DEFINE new == [c EXCEPT !.answer = answer]
  <1>3. page \in Pages /\ c \in Calls /\ c.record.op \in Operations /\ UNCHANGED journal
    BY DEF IInv, Pages, Calls, Answer, Operations
  <1>4. StoreTyped' /\ FatesStand
    <2>1. CASE ledger' = ledger
      BY <1>3, <2>1 DEF IInv, StoreTyped, FatesStand
    <2>2. CASE ledger' = [ledger EXCEPT ![c.record.op] = "FENCED"] /\ ledger[c.record.op] = "NONE"
      BY <1>3, <2>2 DEF IInv, StoreTyped, FatesStand
    <2> QED
      BY <1>1, <2>1, <2>2 DEF Resolved
  <1>5. /\ answer \in {"OTHER", "NOT_ACCEPTED", "ACCEPTED"}
        /\ answer = "NOT_ACCEPTED" => ledger'[c.record.op] = "FENCED"
        /\ answer = "ACCEPTED" => ledger'[c.record.op] # "NONE"
    BY DEF Outcome
  <1>6. /\ new \in Calls /\ new.owner = c.owner /\ new.record = c.record
        /\ new.answer = answer /\ new.removed = c.removed
    BY <1>3, <1>5 DEF Calls
  <1>7. /\ page'.calls = (page.calls \ {c}) \cup {new} /\ page'.busy = page.busy
        /\ page'.owner = page.owner /\ page'.epochs = page.epochs /\ page'.view = page.view
        /\ page'.changed = page.changed /\ page'.lists = page.lists
    BY <1>2, <1>3 DEF Pages
  <1>8. page' \in Pages
    BY <1>2, <1>3, <1>6 DEF Pages
  <1> HIDE DEF new
  <1>9. EpochsPass' /\ LockIsHeld'
    BY <1>6, <1>7, CallIsReplaced
  <1>10. AnswersAreFinal'
    <2>1. \A d \in page.calls : d.record.op \in Operations
      BY DEF IInv, Pages, Calls, Operations
    <2>2. c.removed => FALSE
      BY <1>1 DEF IInv, AnswersAreFinal
    <2> QED
      BY <1>3, <1>4, <1>5, <1>6, <1>7, <2>1, <2>2 DEF IInv, AnswersAreFinal, FatesStand
  <1>11. ListsAreOwn' /\ ListsAgree'
    BY <1>3, <1>7, ListsAreKept
  <1> QED
    BY <1>4, <1>8, <1>9, <1>10, <1>11 DEF IInv

(* An attempt is removed by its own record and only when its fate is final. *)
LEMMA RemovalIsFinal ==
  ASSUME IInv, Clean
  PROVE  \E c \in page.calls : /\ journal' = journal \ {c.record}
                               /\ ledger[c.record.op] \in {"FENCED", c.record.act}
  BY DEF IInv, Clean, FinalResolution, RemoveAttempt, AnswersAreFinal

LEMMA AttemptIsCleaned ==
  ASSUME IInv, Clean
  PROVE  IInv'
  <1>1. PICK c \in page.calls :
          /\ FinalResolution(c)
          /\ journal' = journal \ {c.record}
          /\ page' = Refreshed([page EXCEPT !.calls =
                                  (@ \ {c}) \cup {[c EXCEPT !.removed = TRUE]}])
    BY DEF Clean, RemoveAttempt
  <1> DEFINE new == [c EXCEPT !.removed = TRUE]
             s   == [page EXCEPT !.calls = (@ \ {c}) \cup {new}]
  <1>2. page \in Pages /\ c \in Calls /\ UNCHANGED ledger
    BY DEF IInv, Pages, Clean
  <1>3. /\ new \in Calls /\ new.owner = c.owner /\ new.record = c.record
        /\ new.answer = c.answer /\ new.removed = TRUE
    BY <1>2 DEF Calls
  <1>4. /\ s \in Pages /\ s.calls = (page.calls \ {c}) \cup {new} /\ s.busy = page.busy
        /\ s.owner = page.owner /\ s.epochs = page.epochs /\ s.view = page.view
        /\ s.lists = page.lists
    BY <1>2, <1>3 DEF Pages
  <1>5. page' = Refreshed(s)
    BY <1>1
  <1> HIDE DEF s, new
  <1>6. /\ page' \in Pages /\ page'.calls = (page.calls \ {c}) \cup {new}
        /\ page'.busy = page.busy /\ page'.owner = page.owner /\ page'.epochs = page.epochs
        /\ page'.changed = FALSE
    BY <1>4, <1>5, RefreshedFields
  <1>7. StoreTyped'
    BY <1>1, <1>2 DEF IInv, StoreTyped
  <1>8. EpochsPass' /\ LockIsHeld'
    BY <1>3, <1>6, CallIsReplaced
  <1>9. AnswersAreFinal'
    BY <1>1, <1>2, <1>3, <1>6 DEF IInv, AnswersAreFinal, FinalResolution
  <1>10. ListsAreOwn' /\ ListsAgree'
    BY <1>4, <1>5, RefreshedKeepsLists DEF IInv
  <1> QED
    BY <1>6, <1>7, <1>8, <1>9, <1>10 DEF IInv

(* The completion of a call unlocks that call alone, and what it takes off the
   view had left the journal. *)
LEMMA CallFinishes ==
  ASSUME IInv, Finish
  PROVE  IInv'
  <1>1. PICK c \in page.calls :
          LET cleaned == c.removed /\ IsCurrent(page, c) /\ page.view.owner = c.owner
          IN page' = [page EXCEPT !.calls = @ \ {c}, !.busy = Released(page, c),
                        !.view.records = IF cleaned THEN @ \ {c.record} ELSE @]
    BY DEF Finish
  <1>2. page \in Pages /\ c \in Calls /\ UNCHANGED <<journal, ledger>>
    BY DEF IInv, Pages, Finish
  <1>3. Released(page, c) \in Tokens
    BY <1>2, RecoveryAssumption DEF Released, Pages, Tokens, NoToken, NoOwner, Owners
  <1> DEFINE left == IF c.removed /\ IsCurrent(page, c) /\ page.view.owner = c.owner
                     THEN page.view.records \ {c.record} ELSE page.view.records
  <1>4. /\ page' \in Pages
        /\ page'.calls = page.calls \ {c} /\ page'.busy = Released(page, c)
        /\ page'.owner = page.owner /\ page'.epochs = page.epochs
        /\ page'.changed = page.changed /\ page'.lists = page.lists
        /\ page'.view.owner = page.view.owner /\ page'.view.failed = page.view.failed
        /\ page'.view.records = left
    BY <1>1, <1>2, <1>3 DEF Pages, Views
  <1>5. EpochsPass'
    BY <1>4 DEF IInv, EpochsPass
  <1>6. LockIsHeld'
    <2>1. page'.busy = NoToken \/ \E d \in page'.calls : page'.busy = TokenOf(d)
      BY <1>4 DEF IInv, LockIsHeld, Released, TokenOf
    <2>2. ASSUME NEW d \in page'.calls, IsCurrent(page', d)
          PROVE  /\ page'.busy = TokenOf(d)
                 /\ \A e \in page'.calls : IsCurrent(page', e) => e = d
      <3>1. /\ d # c /\ IsCurrent(page, d) /\ page.busy = TokenOf(d)
            /\ \A e \in page.calls : IsCurrent(page, e) => e = d
        BY <1>4, <2>2 DEF IInv, LockIsHeld, IsCurrent
      <3>2. c.owner # d.owner
        BY <3>1 DEF IsCurrent
      <3>3. Released(page, c) = page.busy
        BY <3>1, <3>2 DEF Released, TokenOf
      <3> QED
        BY <1>4, <3>1, <3>3 DEF IsCurrent
    <2> QED
      BY <2>1, <2>2 DEF LockIsHeld
  <1>7. AnswersAreFinal'
    BY <1>2, <1>4 DEF IInv, AnswersAreFinal
  <1>8. ListsAreOwn'
    BY <1>4 DEF IInv, ListsAreOwn
  <1>9. ListsAgree'
    <2>1. c.removed => c.record \notin journal
      BY DEF IInv, AnswersAreFinal
    <2>2. page.view.records = Scope(page.owner, journal) => left = page.view.records
      BY <2>1 DEF Scope
    <2> HIDE DEF left
    <2> QED
      BY <1>2, <1>4, <2>2 DEF IInv, ListsAgree, Fresh
  <1> QED
    BY <1>2, <1>4, <1>5, <1>6, <1>7, <1>8, <1>9 DEF IInv, StoreTyped

----------------------------------------------------------------------------
(* Aborting keeps a call's owner, attempt and lock, and answers nothing. *)
LEMMA AbortedCalls ==
  ASSUME NEW calls \in SUBSET Calls
  PROVE  /\ Aborted(calls) \subseteq Calls
         /\ \A d \in Aborted(calls) : \E c \in calls :
              /\ d.owner = c.owner /\ d.record = c.record /\ d.removed = c.removed
              /\ d.answer = c.answer \/ (d.answer = "OTHER" /\ c.answer = "NONE")
         /\ \A c \in calls : \E d \in Aborted(calls) : TokenOf(d) = TokenOf(c)
  <1> DEFINE Image(c) == IF c.method = "CHECK" /\ c.answer = "NONE"
                         THEN [c EXCEPT !.answer = "OTHER"] ELSE c
  <1>1. ASSUME NEW c \in calls
        PROVE  /\ Image(c) \in Calls
               /\ Image(c).owner = c.owner /\ Image(c).record = c.record
               /\ Image(c).removed = c.removed
               /\ Image(c).answer = c.answer \/ (Image(c).answer = "OTHER" /\ c.answer = "NONE")
    BY DEF Calls
  <1>2. Aborted(calls) = {Image(c) : c \in calls}
    BY DEF Aborted
  <1> HIDE DEF Image
  <1> QED
    BY ZenonT(30), <1>1, <1>2 DEF TokenOf

LEMMA OwnerChanges ==
  ASSUME IInv, ChangeOwner
  PROVE  IInv'
  <1>1. PICK actor \in Actors \cup {"NOBODY"} :
          LET s == [page EXCEPT
                      !.epochs = @ + 1, !.calls = Aborted(@), !.changed = FALSE,
                      !.owner = IF actor = "NOBODY" THEN NoOwner
                                ELSE [actor |-> actor, epoch |-> page.epochs + 1]]
          IN page' = IF actor = "NOBODY" THEN s ELSE Refreshed(s)
    BY DEF ChangeOwner
  <1> DEFINE owner == IF actor = "NOBODY" THEN NoOwner
                      ELSE [actor |-> actor, epoch |-> page.epochs + 1]
             s == [page EXCEPT !.epochs = @ + 1, !.calls = Aborted(@), !.changed = FALSE,
                               !.owner = owner]
  <1>2. page \in Pages /\ page.epochs < MaxEpochs /\ UNCHANGED <<journal, ledger>>
    BY DEF IInv, ChangeOwner
  <1>3. page.calls \in SUBSET Calls /\ page.epochs \in 0..MaxEpochs /\ MaxEpochs \in Nat
    BY <1>2, RecoveryAssumption DEF Pages
  <1>4. /\ page.epochs + 1 \in 1..MaxEpochs
        /\ owner \in Owners /\ owner.epoch <= page.epochs + 1
        /\ owner = NoOwner \/ owner.epoch = page.epochs + 1
    BY <1>2, <1>3 DEF Owners, NoOwner
  <1>5. /\ s \in Pages /\ s.epochs = page.epochs + 1 /\ s.calls = Aborted(page.calls)
        /\ s.changed = FALSE /\ s.owner = owner /\ s.busy = page.busy
        /\ s.view = page.view /\ s.lists = page.lists
    <2>1. page.epochs + 1 \in 0..MaxEpochs /\ Aborted(page.calls) \in SUBSET Calls
      BY <1>3, <1>4, AbortedCalls
    <2> HIDE DEF owner
    <2> QED
      BY <1>2, <1>4, <2>1 DEF Pages
  <1>6. page' = IF actor = "NOBODY" THEN s ELSE Refreshed(s)
    BY <1>1
  <1>7. actor = "NOBODY" => owner = NoOwner
    OBVIOUS
  <1> HIDE DEF s, owner
  <1>8. /\ page' \in Pages /\ page'.epochs = page.epochs + 1
        /\ page'.calls = Aborted(page.calls) /\ page'.changed = FALSE
        /\ page'.owner = owner /\ page'.busy = page.busy
    BY <1>5, <1>6, RefreshedFields
  <1>9. ASSUME NEW d \in page'.calls
        PROVE  /\ d.owner # NoOwner /\ d.owner.epoch <= page.epochs + 1
               /\ d.owner # owner
    <2>1. PICK c \in page.calls : d.owner = c.owner
      BY <1>3, <1>8, AbortedCalls
    <2>2. c.owner # NoOwner /\ c.owner.epoch <= page.epochs
      BY DEF IInv, EpochsPass
    <2>3. c.owner.epoch \in Int
      BY <1>3, RecoveryAssumption DEF Calls, Owners, NoOwner
    <2> QED
      BY <1>3, <1>4, <2>1, <2>2, <2>3
  <1>10. EpochsPass'
    BY <1>4, <1>8, <1>9 DEF EpochsPass
  <1>11. LockIsHeld'
    <2>1. page'.busy = NoToken \/ \E d \in page'.calls : page'.busy = TokenOf(d)
      BY <1>3, <1>8, AbortedCalls DEF IInv, LockIsHeld
    <2>2. \A d \in page'.calls : ~IsCurrent(page', d)
      BY <1>8, <1>9 DEF IsCurrent
    <2> QED
      BY <2>1, <2>2 DEF LockIsHeld
  <1>12. AnswersAreFinal'
    <2>1. ASSUME NEW d \in page'.calls
          PROVE  \E c \in page.calls :
                   /\ d.record = c.record /\ d.removed = c.removed
                   /\ d.answer = c.answer \/ (d.answer = "OTHER" /\ c.answer = "NONE")
      BY <1>3, <1>8, AbortedCalls
    <2> QED
      BY <1>2, <2>1 DEF IInv, AnswersAreFinal
  <1>13. ListsAreOwn' /\ ListsAgree'
    <2>1. CASE actor = "NOBODY"
      <3>1. page'.view = page.view /\ page'.lists = page.lists /\ page'.owner = NoOwner
        BY <1>5, <1>6, <1>7, <2>1
      <3> QED
        BY <3>1 DEF IInv, ListsAreOwn, ListsAgree
    <2>2. CASE actor # "NOBODY"
      BY <1>5, <1>6, <2>2, RefreshedKeepsLists DEF IInv
    <2> QED
      BY <2>1, <2>2
  <1> QED
    BY <1>2, <1>8, <1>10, <1>11, <1>12, <1>13 DEF IInv, StoreTyped

LEMMA PageReloads ==
  ASSUME IInv, Reload
  PROVE  IInv'
  <1>1. page' = Mounted(page.epochs) /\ UNCHANGED <<journal, ledger>> /\ page.epochs \in 0..MaxEpochs
    BY DEF IInv, Reload, Pages
  <1>2. page' \in Pages
    BY <1>1, RecoveryAssumption DEF Mounted, Pages, Views, Tokens, NoToken, NoOwner, Owners
  <1>3. StoreTyped'
    BY <1>1 DEF IInv, StoreTyped
  <1> QED
    BY <1>1, <1>2, <1>3, RecoveryAssumption
    DEF Mounted, IInv, EpochsPass, LockIsHeld, AnswersAreFinal, ListsAreOwn, ListsAgree, NoOwner

(* Of an operation whose fate is open no attempt was removed, so none comes back. *)
LEMMA PublishingKeepsAnswers ==
  ASSUME IInv, NEW r \in Records, ledger[r.op] = "NONE",
         journal' = journal \cup {r}, ledger' = ledger, page'.calls = page.calls
  PROVE  AnswersAreFinal'
  BY DEF IInv, AnswersAreFinal

LEMMA AttemptIsJournalled ==
  ASSUME IInv, Journal
  PROVE  IInv'
  <1>1. PICK r \in Scope(page.owner, Own) \ journal :
          ledger[r.op] = "NONE" /\ PublishAttempt(r) /\ page' = Refreshed(page)
    BY DEF Journal
  <1>2. r \in Records /\ page \in Pages /\ UNCHANGED ledger
    BY RecoveryAssumption DEF Scope, IInv, Journal
  <1>3. /\ page' \in Pages /\ page'.owner = page.owner /\ page'.epochs = page.epochs
        /\ page'.busy = page.busy /\ page'.calls = page.calls /\ page'.changed = FALSE
    BY <1>1, <1>2, RefreshedFields
  <1>4. StoreTyped'
    BY <1>1, <1>2 DEF IInv, StoreTyped, PublishAttempt
  <1>5. EpochsPass'
    BY <1>3 DEF IInv, EpochsPass
  <1>6. LockIsHeld'
    BY <1>3 DEF IInv, LockIsHeld, IsCurrent
  <1>7. AnswersAreFinal'
    BY <1>1, <1>2, <1>3, PublishingKeepsAnswers DEF PublishAttempt
  <1>8. ListsAreOwn' /\ ListsAgree'
    BY <1>1, <1>2, RefreshedKeepsLists DEF IInv
  <1> QED
    BY <1>3, <1>4, <1>5, <1>6, <1>7, <1>8 DEF IInv

LEMMA JournalChangesElsewhere ==
  ASSUME IInv, Elsewhere
  PROVE  IInv'
  <1>1. PICK r \in Records :
          /\ IF r \in journal
             THEN ledger[r.op] \in {"FENCED", r.act} /\ RemoveAttempt(r)
             ELSE r \notin Own /\ ledger[r.op] = "NONE" /\ PublishAttempt(r)
          /\ page' = [page EXCEPT !.changed = page.owner # NoOwner]
    BY DEF Elsewhere
  <1>2. page \in Pages /\ UNCHANGED ledger
    BY DEF IInv, Elsewhere
  <1>3. /\ page' \in Pages /\ page'.owner = page.owner /\ page'.epochs = page.epochs
        /\ page'.view = page.view /\ page'.lists = page.lists
        /\ page'.busy = page.busy /\ page'.calls = page.calls
    BY <1>1, <1>2 DEF Pages
  <1>4. page'.changed <=> page.owner # NoOwner
    BY <1>1, <1>2 DEF Pages
  <1>5. StoreTyped'
    BY <1>1, <1>2 DEF IInv, StoreTyped, PublishAttempt, RemoveAttempt
  <1>6. EpochsPass'
    BY <1>3, <1>4 DEF IInv, EpochsPass
  <1>7. LockIsHeld'
    BY <1>3 DEF IInv, LockIsHeld, IsCurrent
  <1>8. AnswersAreFinal'
    <2>1. CASE r \in journal
      BY <1>1, <1>2, <1>3, <2>1 DEF IInv, AnswersAreFinal, RemoveAttempt
    <2>2. CASE r \notin journal
      BY <1>1, <1>2, <1>3, <2>2, PublishingKeepsAnswers DEF PublishAttempt
    <2> QED
      BY <2>1, <2>2
  <1>9. ListsAreOwn' /\ ListsAgree'
    BY <1>3, <1>4 DEF IInv, ListsAreOwn, ListsAgree
  <1> QED
    BY <1>3, <1>5, <1>6, <1>7, <1>8, <1>9 DEF IInv

LEMMA AttemptIsAccepted ==
  ASSUME IInv, Accept
  PROVE  IInv' /\ FatesStand
  <1>1. PICK r \in journal : ledger[r.op] = "NONE" /\ ledger' = [ledger EXCEPT ![r.op] = r.act]
    BY DEF Accept
  <1>2. UNCHANGED <<journal, page>> /\ r \in Records /\ r.act \in Acts /\ r.op \in Operations
    BY DEF Accept, IInv, StoreTyped, Acts, Operations
  <1>3. StoreTyped' /\ FatesStand
    BY <1>1, <1>2 DEF IInv, StoreTyped, FatesStand
  <1>4. \A d \in page.calls : d.record.op \in Operations
    BY DEF IInv, Pages, Calls, Operations
  <1>5. AnswersAreFinal'
    BY <1>2, <1>3, <1>4 DEF IInv, AnswersAreFinal, FatesStand
  <1>6. ListsAreOwn' /\ ListsAgree'
    BY <1>2, ListsAreKept DEF IInv
  <1> QED
    BY <1>2, <1>3, <1>5, <1>6 DEF IInv, EpochsPass, LockIsHeld, IsCurrent

LEMMA NextPreserves == IInv /\ [Next]_vars => IInv'
  <1> SUFFICES ASSUME IInv, [Next]_vars PROVE IInv'
    OBVIOUS
  <1>1. CASE Accept
    BY <1>1, AttemptIsAccepted
  <1>2. CASE Elsewhere
    BY <1>2, JournalChangesElsewhere
  <1>3. CASE Person
    BY <1>3, CheckStarts, SettleStarts, OwnerChanges, PageReloads, AttemptIsJournalled,
       ListingBegins DEF Person
  <1>4. CASE Listing
    BY <1>4, ListingBegins, ListingIsRead, ListingIsShown DEF Listing
  <1>5. CASE Recovering
    BY <1>5, CallIsAnswered, AttemptIsCleaned, CallFinishes DEF Recovering
  <1>6. CASE UNCHANGED vars
    <2>1. UNCHANGED <<journal, ledger, page>>
      BY <1>6 DEF vars
    <2>2. StoreTyped' /\ EpochsPass' /\ LockIsHeld' /\ AnswersAreFinal'
      BY <2>1, CallsAreKept
    <2> QED
      BY <2>1, <2>2, ListsAreKept DEF IInv
  <1> QED
    BY <1>1, <1>2, <1>3, <1>4, <1>5, <1>6 DEF Next

LEMMA Invariance == Spec => []IInv
  BY InitEstablishes, NextPreserves, PTL DEF Spec

----------------------------------------------------------------------------
(* Journal, ledger and page keep their types, and the lock is always some
   call's (useRecoveryNotice, indexedJournal.ts). *)
THEOREM TypeCorrect == Spec => []TypeOK
  <1>1. IInv => TypeOK
    BY DEF IInv, StoreTyped, Pages, Views, LockIsHeld, TokenOf, TypeOK
  <1> QED
    BY <1>1, Invariance, PTL

(* Whatever former owners' calls still answer, the owner a page shows has at most
   one check or settlement under way, and its lock is held meanwhile (perform and
   finish in RecoveryContext.tsx). *)
THEOREM OneCheckHolds == Spec => []OneCheckPerOwner
  <1>1. ASSUME IInv PROVE OneCheckPerOwner
    <2> DEFINE mine == {c \in page.calls : IsCurrent(page, c)}
    <2>1. ASSUME NEW c \in mine
          PROVE  Operating(page) /\ Cardinality(mine) = 1
      <3>1. mine = {c}
        BY <1>1 DEF IInv, LockIsHeld
      <3> QED
        BY <1>1, <3>1, CurrentCallOperates, FS_Singleton
    <2> QED
      BY <2>1 DEF OneCheckPerOwner
  <1> QED
    BY <1>1, Invariance, PTL

(* What a page lists is of the requester it shows (the owner check of
   visibleRecovery and of the list's completion). *)
THEOREM ShownIsOwnHolds == Spec => []ShownIsOwn
  <1>1. IInv => ShownIsOwn
    BY DEF IInv, ListsAreOwn, ShownIsOwn
  <1> QED
    BY <1>1, Invariance, PTL

(* When no list is under way and no notification waits, the page lists exactly
   the journal's attempts of its requester, or says that it cannot. *)
THEOREM QuietListHolds == Spec => []QuietListAgrees
  <1>1. IInv => QuietListAgrees
    BY DEF IInv, ListsAgree, Fresh, QuietListAgrees
  <1> QED
    BY <1>1, Invariance, PTL

(* No page of the browser removes an attempt before its fate is final, nor one
   that was accepted under another act; it removes nothing else with it. *)
THEOREM RemovalsAreEarned == Spec => RemovalIsEarned
  <1> DEFINE Earned == \A r \in journal \ journal' :
                         journal' = journal \ {r} /\ ledger[r.op] \in {"FENCED", r.act}
  <1>1. ASSUME IInv, [Next]_vars PROVE Earned
    <2>1. CASE Clean
      BY <1>1, <2>1, RemovalIsFinal
    <2>2. CASE Elsewhere
      BY <2>2 DEF Elsewhere, RemoveAttempt, PublishAttempt
    <2>3. CASE Journal
      BY <2>3 DEF Journal, PublishAttempt
    <2>4. CASE UNCHANGED journal
      BY <2>4
    <2> QED
      BY <1>1, <2>1, <2>2, <2>3, <2>4
      DEF Next, Person, Listing, Recovering, Accept, Check, Settle, ChangeOwner, Reload, Focus,
          HearChange, ReadList, ShowList, Answer, Finish, vars
  <1>2. IInv /\ [Next]_vars => [Earned]_vars
    BY <1>1
  <1> QED
    BY <1>2, Invariance, PTL DEF Spec, RemovalIsEarned
=============================================================================
