--------------------------- MODULE RegisterProofs ---------------------------
(***************************************************************************)
(* For every number of people, workers, operations and requests: the write  *)
(* that is about to commit extends the head it was decided on, an operation *)
(* has one fate, maintenance is quiet, the register keeps the promises of   *)
(* Delivery, an enabled owner remains, nothing recorded changes, the         *)
(* projections say what the ledger says, the history of a case replays, and *)
(* erasure is complete.                                                     *)
(***************************************************************************)
EXTENDS Register, CaseRulesProofs, FiniteSetTheorems

(* What the ledger and its projections keep true of each other. *)
LedgerTyped ==
  /\ ledger \in Seq(EntryShapes)
  /\ cases \in [Operations -> [reference : References \cup {NoReference},
                                snapshot : Snapshot \cup {Absent}]]
  /\ enabled \in [Actors -> BOOLEAN]

ProperRows ==
  \A c \in Operations : /\ Proper(cases[c].snapshot)
                        /\ cases[c].snapshot = Absent => cases[c] = NoRow

(* A row is at or past every entry of its case and keeps its reference. *)
RowsCover ==
  \A i \in DOMAIN ledger : ledger[i].kind = "CASE" =>
    /\ ledger[i].revision <= cases[ledger[i].subject].snapshot.revision
    /\ ledger[i].reference # NoReference =>
         cases[ledger[i].subject].reference = ledger[i].reference

FencesAreControls == fences = {k \in Actors \X Operations : Controls(k[1], k[2]) # {}}

LedgerInv == LedgerTyped /\ ProperRows /\ RowsCover /\ FencesAreControls /\ OneFate

(* What a decision under the head has established of the entry it appends. *)
CasePending(e) ==
  /\ \E p \in e.payload :
       /\ e.payload = {p}
       /\ Proper(p.snapshot)
       /\ p.snapshot.revision = e.revision
  /\ e.revision > cases[e.subject].snapshot.revision
  /\ e.act = "OPEN" => cases[e.subject] = NoRow
  /\ e.act # "OPEN" => e.reference = NoReference

Pending(e) ==
  /\ Extends(Len(ledger) + 1, e)
  /\ e.kind # "CONTROL" => Controls(e.actor, e.op) = {}
  /\ e.kind = "CONTROL" => AcceptedBy(e.actor, e.op) = {}
  /\ e.kind = "CASE" => CasePending(e)

(* Who holds the head, and on what. *)
Holds(w) ==
  /\ work[w].phase = "HOLDING" =>
       /\ lock = w
       /\ work[w].head = Len(ledger)
       /\ work[w].request.kind # "STATUS"
  /\ work[w].phase = "COMMITTING" =>
       /\ lock = w
       /\ work[w].position = Len(ledger) + 1
       /\ ~ maintenance.active
       /\ Pending(work[w].entry)

ServiceTyped ==
  /\ maintenance \in [active : BOOLEAN, generation : 0 .. MaxGeneration]
  /\ lock \in Workers \cup {NoWorker}
  /\ work \in [Workers -> WorkShapes]
  /\ told \subseteq Actors \X Operations \X {"ACCEPTED", "NOT_ACCEPTED"}

IInv == LedgerInv /\ ServiceTyped /\ \A w \in Workers : Holds(w)

-----------------------------------------------------------------------------
(* Requests and entries *)

LEMMA RequestTypes ==
  ASSUME NEW r \in Requests
  PROVE  /\ r.op \in Operations /\ r.actor \in Actors
         /\ r.kind \in {"CASE", "AUTHORITY", "RESOLVE", "STATUS"}
         /\ r.kind = "CASE" => r.target \in Targets /\ r.expected \in Nat /\ r.act \in Acts
         /\ r.kind = "AUTHORITY" => r.subject \in Actors /\ r.change \in {"ENABLE", "DISABLE"}
  BY RegisterAssumption DEF RequestShapes

LEMMA EntryTypes ==
  ASSUME NEW e \in EntryShapes
  PROVE  /\ e.op \in Operations /\ e.actor \in Actors
         /\ e.kind \in {"CASE", "AUTHORITY", "CONTROL"}
         /\ e.kind = "AUTHORITY" => e.subject \in Actors
         /\ e.kind = "CASE" =>
              /\ e.subject \in Operations
              /\ e.revision \in Nat \ {0}
              /\ e.reference \in References \cup {NoReference}
              /\ e.payload \subseteq [identity : Identities, snapshot : Snapshot]
  BY DEF EntryShapes

(* Clearing the payload of a case entry leaves an entry of the same kind. *)
LEMMA ClearedEntry ==
  ASSUME NEW e \in EntryShapes, e.kind = "CASE"
  PROVE  /\ [e EXCEPT !.payload = {}] \in EntryShapes
         /\ \A f \in {"kind", "op", "actor", "subject", "act", "revision", "reference"} :
              [e EXCEPT !.payload = {}][f] = e[f]
  BY DEF EntryShapes

(* The parts of an entry that erasure keeps. *)
SameEntry(d, e) ==
  /\ d \in EntryShapes
  /\ d.kind = e.kind /\ d.op = e.op /\ d.actor = e.actor
  /\ e.kind = "CASE" => /\ d.subject = e.subject
                        /\ d.revision = e.revision
                        /\ d.reference = e.reference

(* A commit appends its entry and changes nothing of the others but
   payloads. *)
LEMMA CommitAppends ==
  ASSUME LedgerTyped, NEW e \in EntryShapes, ledger' = Purged(Append(ledger, e), e)
  PROVE  /\ ledger' \in Seq(EntryShapes)
         /\ Len(ledger') = Len(ledger) + 1
         /\ DOMAIN ledger' = DOMAIN ledger \cup {Len(ledger) + 1}
         /\ Len(ledger) + 1 \notin DOMAIN ledger
         /\ \A i \in DOMAIN ledger : ledger[i] \in EntryShapes /\ SameEntry(ledger'[i], ledger[i])
         /\ SameEntry(ledger'[Len(ledger) + 1], e)
  <1> DEFINE n == Len(ledger)
             all == Append(ledger, e)
  <1>1. /\ all \in Seq(EntryShapes) /\ Len(all) = n + 1 /\ n \in Nat
        /\ DOMAIN all = 1 .. n + 1 /\ DOMAIN ledger = 1 .. n
        /\ \A i \in 1 .. n : all[i] = ledger[i]
        /\ all[n + 1] = e
    BY DEF LedgerTyped
  <1>2. \A i \in 1 .. n + 1 : all[i] \in EntryShapes
    BY <1>1
  <1>3. /\ DOMAIN ledger' = 1 .. n + 1
        /\ \A i \in 1 .. n + 1 : SameEntry(ledger'[i], all[i])
    <2>1. CASE e.kind = "CASE" /\ e.act = "ERASE"
      <3>1. ledger' = [i \in 1 .. n + 1 |->
                         IF all[i].kind = "CASE" /\ all[i].subject = e.subject
                         THEN [all[i] EXCEPT !.payload = {}] ELSE all[i]]
        BY <1>1, <2>1 DEF Purged
      <3>2. ASSUME NEW i \in 1 .. n + 1 PROVE SameEntry(ledger'[i], all[i])
        <4>1. all[i] \in EntryShapes
          BY <1>2
        <4>2. CASE all[i].kind = "CASE" /\ all[i].subject = e.subject
          BY <3>1, <4>1, <4>2, ClearedEntry DEF SameEntry
        <4>3. CASE ~ (all[i].kind = "CASE" /\ all[i].subject = e.subject)
          BY <3>1, <4>1, <4>3 DEF SameEntry
        <4> QED
          BY <4>2, <4>3
      <3> QED
        BY <3>1, <3>2
    <2>2. CASE ~ (e.kind = "CASE" /\ e.act = "ERASE")
      BY <1>1, <1>2, <2>2 DEF Purged, SameEntry
    <2> QED
      BY <2>1, <2>2
  <1>4. ledger' \in [1 .. n + 1 -> EntryShapes]
    <2>1. \/ ledger' = all
          \/ ledger' = [i \in 1 .. n + 1 |->
                         IF all[i].kind = "CASE" /\ all[i].subject = e.subject
                         THEN [all[i] EXCEPT !.payload = {}] ELSE all[i]]
      BY <1>1 DEF Purged
    <2>2. ledger' = [i \in 1 .. n + 1 |-> ledger'[i]]
      BY <1>1, <2>1
    <2> QED
      BY <1>3, <2>2 DEF SameEntry
  <1>5. ledger' \in Seq(EntryShapes) /\ Len(ledger') = n + 1
    BY <1>1, <1>4
  <1> QED
    BY <1>1, <1>3, <1>5

-----------------------------------------------------------------------------
(* A commit *)

(* The sets of entries of an operation grow by the new entry, if it is one of
   them. *)
LEMMA CommitExtendsLookups ==
  ASSUME LedgerTyped, NEW e \in EntryShapes, Commit(e)
  PROVE  \A a \in Actors, op \in Operations :
           LET new == {Len(ledger) + 1}
           IN  /\ Accepted(op)' = Accepted(op) \cup
                     (IF e.kind # "CONTROL" /\ e.op = op THEN new ELSE {})
               /\ AcceptedBy(a, op)' = AcceptedBy(a, op) \cup
                     (IF e.kind # "CONTROL" /\ e.op = op /\ e.actor = a THEN new ELSE {})
               /\ Controls(a, op)' = Controls(a, op) \cup
                     (IF e.kind = "CONTROL" /\ e.op = op /\ e.actor = a THEN new ELSE {})
  <1>1. /\ DOMAIN ledger' = DOMAIN ledger \cup {Len(ledger) + 1}
        /\ \A i \in DOMAIN ledger : SameEntry(ledger'[i], ledger[i])
        /\ SameEntry(ledger'[Len(ledger) + 1], e)
        /\ Len(ledger) + 1 \notin DOMAIN ledger
    BY CommitAppends DEF Commit
  <1> QED
    BY <1>1 DEF SameEntry, Accepted, AcceptedBy, Controls

LEMMA CommitPreserves ==
  ASSUME LedgerInv, NEW e \in EntryShapes, Pending(e), Commit(e)
  PROVE  LedgerInv'
  <1> DEFINE n == Len(ledger)
  <1>1. /\ ledger' \in Seq(EntryShapes)
        /\ DOMAIN ledger' = DOMAIN ledger \cup {n + 1}
        /\ n + 1 \notin DOMAIN ledger
        /\ \A i \in DOMAIN ledger : SameEntry(ledger'[i], ledger[i]) /\ ledger[i] \in EntryShapes
        /\ SameEntry(ledger'[n + 1], e)
    BY CommitAppends DEF Commit, LedgerInv
  <1>2. ASSUME e.kind = "CASE" PROVE LedgerTyped' /\ ProperRows' /\ RowsCover'
    <2>1. PICK p \in [identity : Identities, snapshot : Snapshot] :
            /\ e.payload = {p}
            /\ Proper(p.snapshot)
            /\ p.snapshot.revision = e.revision
      BY <1>2, EntryTypes DEF Pending, CasePending
    <2>2. SnapshotOf(e) = p.snapshot /\ p.snapshot \in Snapshot /\ p.snapshot # Absent
      BY <2>1 DEF SnapshotOf, Snapshot, Absent
    <2> DEFINE s == e.subject
               row == [reference |-> IF e.act = "OPEN" THEN e.reference ELSE cases[s].reference,
                       snapshot |-> p.snapshot]
    <2>3. /\ cases' = [cases EXCEPT ![s] = row]
          /\ UNCHANGED <<enabled, fences>>
          /\ s \in Operations /\ e.reference \in References \cup {NoReference}
      BY <1>2, <2>2, EntryTypes DEF Commit, ProjectCase
    <2>4. cases[s].reference \in References \cup {NoReference}
      BY <2>3 DEF LedgerInv, LedgerTyped
    <2>5. LedgerTyped'
      BY <1>1, <2>2, <2>3, <2>4 DEF LedgerInv, LedgerTyped
    <2>6. ProperRows'
      <3> SUFFICES ASSUME NEW c \in Operations
                   PROVE  /\ Proper(cases'[c].snapshot)
                          /\ cases'[c].snapshot = Absent => cases'[c] = NoRow
        BY DEF ProperRows, Proper, NoRow
      <3>1. CASE c = s
        BY <2>1, <2>2, <2>3, <3>1 DEF LedgerInv, LedgerTyped
      <3>2. CASE c # s
        BY <2>3, <3>2 DEF LedgerInv, LedgerTyped, ProperRows
      <3> QED
        BY <3>1, <3>2
    <2>7. RowsCover'
      <3> SUFFICES ASSUME NEW i \in DOMAIN ledger', ledger'[i].kind = "CASE"
                   PROVE  /\ ledger'[i].revision <= cases'[ledger'[i].subject].snapshot.revision
                          /\ ledger'[i].reference # NoReference =>
                               cases'[ledger'[i].subject].reference = ledger'[i].reference
        BY DEF RowsCover
      <3>1. CASE i = n + 1
        <4>1. /\ ledger'[i].revision = e.revision
              /\ ledger'[i].reference = e.reference
              /\ ledger'[i].subject = s
              /\ cases'[s] = row
          BY <1>1, <1>2, <2>3, <3>1 DEF SameEntry, LedgerInv, LedgerTyped
        <4>2. e.reference # NoReference => e.act = "OPEN"
          BY <1>2 DEF Pending, CasePending
        <4>3. e.revision \in Nat
          BY <1>2, EntryTypes
        <4> QED
          BY <2>1, <4>1, <4>2, <4>3
      <3>2. CASE i \in DOMAIN ledger
        <4> DEFINE c == ledger[i].subject
        <4>1. /\ ledger[i].kind = "CASE"
              /\ ledger'[i].revision = ledger[i].revision
              /\ ledger'[i].reference = ledger[i].reference
              /\ ledger'[i].subject = c
          BY <1>1, <3>2 DEF SameEntry
        <4>2. /\ c \in Operations /\ ledger[i].revision \in Nat \ {0}
              /\ ledger[i].revision <= cases[c].snapshot.revision
              /\ ledger[i].reference # NoReference => cases[c].reference = ledger[i].reference
          BY <1>1, <3>2, <4>1, EntryTypes DEF LedgerInv, RowsCover
        <4>3. CASE c # s
          BY <2>3, <4>1, <4>2, <4>3 DEF LedgerInv, LedgerTyped
        <4>4. CASE c = s
          <5>1. cases[s] # NoRow
            BY <4>2, <4>4 DEF NoRow, Absent
          <5>2. e.act # "OPEN" /\ e.revision > cases[s].snapshot.revision
            BY <1>2, <5>1 DEF Pending, CasePending
          <5>3. cases'[s].reference = cases[s].reference /\ cases'[s].snapshot.revision = e.revision
            BY <2>1, <2>3, <5>2 DEF LedgerInv, LedgerTyped
          <5>4. cases[s].snapshot.revision \in Nat /\ e.revision \in Nat
            BY <1>2, <2>3, EntryTypes DEF LedgerInv, LedgerTyped, Snapshot, Absent
          <5> QED
            BY <4>1, <4>2, <4>4, <5>2, <5>3, <5>4
        <4> QED
          BY <4>3, <4>4
      <3> QED
        BY <1>1, <3>1, <3>2
    <2> QED
      BY <2>5, <2>6, <2>7
  <1>3. ASSUME e.kind # "CASE" PROVE LedgerTyped' /\ ProperRows' /\ RowsCover'
    <2>1. cases' = cases /\ enabled' \in [Actors -> BOOLEAN]
      BY <1>3, EntryTypes DEF Commit, ProjectCase, LedgerInv, LedgerTyped
    <2>2. LedgerTyped' /\ ProperRows'
      BY <1>1, <2>1 DEF LedgerInv, LedgerTyped, ProperRows, Proper, NoRow
    <2>3. RowsCover'
      BY <1>1, <1>3, <2>1 DEF LedgerInv, RowsCover, SameEntry
    <2> QED
      BY <2>2, <2>3
  <1>4. FencesAreControls'
    <2>1. \A a \in Actors, op \in Operations :
            Controls(a, op)' # {} <=> Controls(a, op) # {} \/
                                     (e.kind = "CONTROL" /\ e.op = op /\ e.actor = a)
      BY CommitExtendsLookups DEF LedgerInv
    <2>2. fences' = IF e.kind = "CONTROL" THEN fences \cup {<<e.actor, e.op>>} ELSE fences
      BY DEF Commit
    <2>3. e.actor \in Actors /\ e.op \in Operations
      BY EntryTypes
    <2> QED
      BY <2>1, <2>2, <2>3 DEF LedgerInv, FencesAreControls
  <1>5. OneFate'
    <2>1. e.kind # "CONTROL" => Accepted(e.op) = {} /\ Controls(e.actor, e.op) = {}
      BY DEF Pending, Extends
    <2>2. e.kind = "CONTROL" => AcceptedBy(e.actor, e.op) = {}
      BY DEF Pending
    <2>3. ASSUME NEW op \in Operations PROVE \A i, j \in Accepted(op)' : i = j
      <3>1. \A i, j \in Accepted(op) : i = j
        BY DEF LedgerInv, OneFate
      <3>2. Accepted(op)' = Accepted(op) \cup
              (IF e.kind # "CONTROL" /\ e.op = op THEN {n + 1} ELSE {})
        BY CommitExtendsLookups, EntryTypes DEF LedgerInv
      <3> QED
        BY <2>1, <3>1, <3>2
    <2>4. ASSUME NEW a \in Actors, NEW op \in Operations
          PROVE  Controls(a, op)' # {} => AcceptedBy(a, op)' = {}
      <3>1. Controls(a, op) # {} => AcceptedBy(a, op) = {}
        BY DEF LedgerInv, OneFate
      <3> QED
        BY <2>1, <2>2, <3>1, CommitExtendsLookups DEF LedgerInv
    <2> QED
      BY <2>3, <2>4 DEF OneFate
  <1>6. LedgerTyped' /\ ProperRows' /\ RowsCover'
    BY <1>2, <1>3
  <1> QED
    BY <1>4, <1>5, <1>6 DEF LedgerInv

-----------------------------------------------------------------------------
(* A decision *)

(* Without a fence nothing has settled the author's identity. *)
LEMMA UnfencedIsUncontrolled ==
  ASSUME FencesAreControls, NEW a \in Actors, NEW op \in Operations, ~ Fenced(a, op)
  PROVE  Controls(a, op) = {}
  BY DEF FencesAreControls, Fenced

LEMMA RefusalType ==
  ASSUME NEW date, NEW act, NEW expected, NEW before
  PROVE  Refusal(date, act, expected, before) \in
           {"NONE", "RESOURCE_UNAVAILABLE", "REVISION_CONFLICT", "INVALID_INPUT",
            "NOT_OFFERED", "CASE_ALREADY_EXISTS"}
  BY DEF Refusal

LEMMA ReplayType ==
  ASSUME NEW r, NEW identity
  PROVE  Replay(r, identity) \in {"RESOURCE_UNAVAILABLE", "IDEMPOTENCY_CONFLICT",
                                 "STORE_INTEGRITY_ERROR", "ALREADY_ACCEPTED"}
  BY DEF Replay

LEMMA RecoveredType ==
  ASSUME NEW r
  PROVE  Recovered(r) \in {"STORE_INTEGRITY_ERROR", "RESOURCE_UNAVAILABLE",
                          "ALREADY_ACCEPTED", "NOT_ACCEPTED", "UNRESOLVED"}
  BY DEF Recovered

(* Every verdict that does not proceed is an answer. *)
LEMMA VerdictType ==
  ASSUME NEW r \in Requests, r.kind # "STATUS", NEW day
  PROVE  Verdict(r, day) \in Answers \cup {"PROCEED"}
  <1>1. CaseVerdict(r, day) \in Answers \cup {"PROCEED"}
    <2> DEFINE refusal == Refusal(day, r.act, r.expected, Current(r))
               replay  == Replay(r, CaseIdentity(r))
    <2>1. refusal \in Answers \cup {"NONE"} /\ replay \in Answers
      BY RefusalType, ReplayType DEF Answers
    <2> HIDE DEF refusal, replay
    <2>2. CaseVerdict(r, day) \in
            {"RESOURCE_UNAVAILABLE", "STORE_INTEGRITY_ERROR", "OPERATION_RESOLVED",
             "REGISTER_MAINTENANCE", "PROCEED", replay}
              \cup (IF refusal = "NONE" THEN {} ELSE {refusal})
      BY DEF CaseVerdict, refusal, replay
    <2> QED
      BY <2>1, <2>2 DEF Answers
  <1>2. AuthorityVerdict(r) \in Answers \cup {"PROCEED"}
    BY ReplayType DEF AuthorityVerdict, Answers
  <1>3. ResolveVerdict(r) \in Answers \cup {"PROCEED"}
    BY RecoveredType DEF ResolveVerdict, Answers
  <1> QED
    BY <1>1, <1>2, <1>3, RequestTypes DEF Verdict

(* What a case act that proceeds has passed. *)
LEMMA CaseProceeds ==
  ASSUME NEW r, NEW day, CaseVerdict(r, day) = "PROCEED"
  PROVE  /\ CompleteCase(r) /\ ~ maintenance.active
         /\ Accepted(r.op) = {} /\ ~ Fenced(r.actor, r.op)
         /\ Refusal(day, r.act, r.expected, Current(r)) = "NONE"
  <1> DEFINE refusal == Refusal(day, r.act, r.expected, Current(r))
             replay  == Replay(r, CaseIdentity(r))
  <1>1. refusal # "PROCEED" /\ replay # "PROCEED"
    BY RefusalType, ReplayType
  <1> HIDE DEF refusal, replay
  <1> QED
    BY <1>1 DEF CaseVerdict, refusal, replay

LEMMA AuthorityProceeds ==
  ASSUME NEW r, AuthorityVerdict(r) = "PROCEED"
  PROVE  /\ ~ maintenance.active /\ Can(r.actor, "MANAGE_AUTHORITY") /\ ~ LastOwner(r)
         /\ Accepted(r.op) = {} /\ ~ Fenced(r.actor, r.op)
  BY ReplayType DEF AuthorityVerdict

LEMMA ResolveProceeds ==
  ASSUME NEW r, ResolveVerdict(r) = "PROCEED"
  PROVE  /\ ~ maintenance.active
         /\ AcceptedBy(r.actor, r.op) = {} /\ ~ Fenced(r.actor, r.op)
  BY RecoveredType DEF ResolveVerdict, Recovered

(* Looking a case up finds rows that exist. *)
LEMMA CaseOfType ==
  ASSUME NEW r \in Requests, r.kind = "CASE"
  PROVE  /\ CaseOf(r) \in Operations
         /\ Found(r.target) # {} => CaseOf(r) \in Found(r.target)
         /\ Found(r.target) = {} => CaseOf(r) = r.op
  <1>1. Found(r.target) \subseteq Operations /\ r.op \in Operations
    BY RequestTypes DEF Found
  <1>2. Found(r.target) # {} => (CHOOSE c \in Found(r.target) : TRUE) \in Found(r.target)
    OBVIOUS
  <1> QED
    BY <1>1, <1>2 DEF CaseOf

(* A row that some entry covers exists. *)
LEMMA CoveredRowExists ==
  ASSUME LedgerInv, NEW i \in DOMAIN ledger, ledger[i].kind = "CASE"
  PROVE  /\ ledger[i].subject \in Operations
         /\ ledger[i].revision \in Nat \ {0}
         /\ cases[ledger[i].subject].snapshot.revision \in Nat
         /\ cases[ledger[i].subject] # NoRow
  <1>1. ledger[i] \in EntryShapes
    BY DEF LedgerInv, LedgerTyped
  <1>2. ledger[i].subject \in Operations /\ ledger[i].revision \in Nat \ {0}
    BY <1>1, EntryTypes
  <1>3. cases[ledger[i].subject].snapshot.revision \in Nat
    BY <1>2 DEF LedgerInv, LedgerTyped, Snapshot, Absent
  <1>4. ledger[i].revision <= cases[ledger[i].subject].snapshot.revision
    BY DEF LedgerInv, RowsCover
  <1> QED
    BY <1>2, <1>3, <1>4 DEF NoRow, Absent

(* A case act that proceeds is about one existing row, or opens one. *)
LEMMA CaseActTarget ==
  ASSUME LedgerInv, NEW r \in Requests, r.kind = "CASE", NEW day,
         CaseVerdict(r, day) = "PROCEED"
  PROVE  /\ Current(r) = cases[CaseOf(r)].snapshot /\ Proper(Current(r))
         /\ r.act.kind = "OPEN" => /\ cases[CaseOf(r)] = NoRow
                                   /\ Found(r.target) = {}
                                   /\ r.target.by = "REFERENCE"
                                   /\ r.target.reference \in References
         /\ r.act.kind # "OPEN" => cases[CaseOf(r)] # NoRow
  <1>1. CompleteCase(r) /\ Refusal(day, r.act, r.expected, Current(r)) = "NONE"
    BY CaseProceeds
  <1>2. CaseOf(r) \in Operations
    BY CaseOfType
  <1>3. Current(r) = cases[CaseOf(r)].snapshot /\ Proper(Current(r))
    BY <1>2 DEF Current, LedgerInv, ProperRows
  <1>4. ASSUME r.act.kind = "OPEN"
        PROVE  cases[CaseOf(r)] = NoRow /\ Found(r.target) = {}
    <2>1. Current(r).state = "ABSENT"
      BY <1>1, <1>4 DEF Refusal
    <2>2. Current(r) = Absent
      BY <1>3, <2>1 DEF Proper, Snapshot
    <2>3. cases[CaseOf(r)] = NoRow
      BY <1>2, <1>3, <2>2 DEF LedgerInv, ProperRows
    <2> QED
      BY <2>3, CaseOfType DEF Found
  <1>5. r.act.kind # "OPEN" => cases[CaseOf(r)] # NoRow
    BY <1>1, CaseOfType DEF CompleteCase, Found
  <1>6. r.act.kind = "OPEN" => r.target.by = "REFERENCE" /\ r.target.reference \in References
    BY <1>1, RequestTypes DEF CompleteCase, Targets
  <1> QED
    BY <1>3, <1>4, <1>5, <1>6

LEMMA CaseEntryIsPending ==
  ASSUME LedgerInv, NEW r \in Requests, r.kind = "CASE", NEW day \in Days,
         CaseVerdict(r, day) = "PROCEED"
  PROVE  CaseEntry(r, day) \in EntryShapes /\ Pending(CaseEntry(r, day))
  <1> DEFINE c      == CaseOf(r)
             before == Current(r)
             after  == After(r.act, before)
             id     == CaseIdentity(r)
             e      == CaseEntry(r, day)
  <1>1. /\ r.op \in Operations /\ r.actor \in Actors /\ r.act \in Acts /\ r.expected \in Nat
        /\ c \in Operations
    BY RequestTypes, CaseOfType
  <1>2. /\ Accepted(r.op) = {} /\ ~ Fenced(r.actor, r.op)
        /\ Refusal(day, r.act, r.expected, before) = "NONE"
    BY CaseProceeds
  <1>3. before = cases[c].snapshot /\ Proper(before)
    BY CaseActTarget
  <1>4. /\ Proper(after) /\ after \in Snapshot
        /\ after.revision = before.revision + 1
        /\ before.revision \in Nat
    <2>1. before.revision \in Nat
      BY <1>3 DEF Proper, Snapshot, Absent
    <2> QED
      BY <1>1, <1>2, <1>3, <2>1, DecisionIsProper
  <1>5. /\ id \in Identities
        /\ id.reference \in References \cup {NoReference}
        /\ r.act.kind # "OPEN" => id.reference = NoReference
        /\ r.act.kind = "OPEN" => id.reference = r.target.reference
    BY <1>1, CaseActTarget DEF CaseIdentity, Identities
  <1>6. /\ e.kind = "CASE" /\ e.op = r.op /\ e.actor = r.actor /\ e.subject = c
        /\ e.act = r.act.kind /\ e.revision = after.revision /\ e.day = day
        /\ e.reference = id.reference
        /\ e.payload = {[identity |-> id, snapshot |-> after]}
    BY DEF CaseEntry
  <1>7. e \in EntryShapes
    <2>1. r.act.kind \in {"OPEN", "AMEND_REGISTRATION", "CORRECT", "DECIDE", "RECORD_PAYMENT"}
                           \cup BareKinds
      BY <1>1 DEF Acts
    <2>2. e.payload \in SUBSET [identity : Identities, snapshot : Snapshot]
      BY <1>4, <1>5, <1>6
    <2>3. e.revision \in Nat \ {0}
      BY <1>4, <1>6
    <2> QED
      BY <1>1, <1>5, <2>1, <2>2, <2>3 DEF CaseEntry, EntryShapes
  <1>8. CasePending(e)
    <2>1. e.revision > cases[e.subject].snapshot.revision
      BY <1>3, <1>4, <1>6
    <2>2. e.act = "OPEN" => cases[e.subject] = NoRow
      BY <1>6, CaseActTarget
    <2> QED
      BY <1>4, <1>5, <1>6, <2>1, <2>2 DEF CasePending
  <1>9. ASSUME NEW i \in DOMAIN ledger, ledger[i].kind = "CASE"
        PROVE  /\ <<ledger[i].subject, ledger[i].revision>> # <<e.subject, e.revision>>
               /\ e.reference # NoReference => ledger[i].reference # e.reference
    <2> DEFINE d == ledger[i].subject
    <2>1. /\ d \in Operations /\ ledger[i].revision \in Nat
          /\ cases[d].snapshot.revision \in Nat /\ cases[d] # NoRow
      BY <1>9, CoveredRowExists
    <2>2. /\ ledger[i].revision <= cases[d].snapshot.revision
          /\ ledger[i].reference # NoReference => cases[d].reference = ledger[i].reference
      BY <1>9 DEF LedgerInv, RowsCover
    <2>3. d = c => ledger[i].revision # e.revision
      BY <1>3, <1>4, <1>6, <2>1, <2>2
    <2>4. ASSUME e.reference # NoReference, ledger[i].reference = e.reference PROVE FALSE
      <3>1. r.act.kind = "OPEN" /\ e.reference = r.target.reference
        BY <1>5, <1>6, <2>4
      <3>2. cases[d].reference = r.target.reference
        BY <2>2, <2>4, <3>1
      <3>3. r.target.by = "REFERENCE" /\ Found(r.target) = {}
        BY <3>1, CaseActTarget
      <3> QED
        BY <2>1, <3>2, <3>3 DEF Found
    <2> QED
      BY <1>6, <2>3, <2>4
  <1>10. Controls(e.actor, e.op) = {}
    BY <1>1, <1>2, <1>6, UnfencedIsUncontrolled DEF LedgerInv
  <1>11. Extends(Len(ledger) + 1, e)
    BY <1>2, <1>6, <1>9 DEF Extends
  <1> QED
    BY <1>6, <1>7, <1>8, <1>10, <1>11 DEF Pending

(* Whatever proceeds is typed, pending, and decided outside maintenance. *)
LEMMA DecisionIsPending ==
  ASSUME LedgerInv, NEW r \in Requests, r.kind # "STATUS", NEW day \in Days,
         Verdict(r, day) = "PROCEED"
  PROVE  Entry(r, day) \in EntryShapes /\ Pending(Entry(r, day)) /\ ~ maintenance.active
  <1>1. CASE r.kind = "CASE"
    <2>1. CaseVerdict(r, day) = "PROCEED" /\ Entry(r, day) = CaseEntry(r, day)
      BY <1>1 DEF Verdict, Entry
    <2> QED
      BY <1>1, <2>1, CaseEntryIsPending, CaseProceeds
  <1>2. CASE r.kind = "AUTHORITY"
    <2> DEFINE e == [kind |-> "AUTHORITY", op |-> r.op, actor |-> r.actor,
                     subject |-> r.subject, change |-> r.change]
    <2>1. AuthorityVerdict(r) = "PROCEED" /\ Entry(r, day) = e
      BY <1>2 DEF Verdict, Entry
    <2>2. ~ maintenance.active /\ Accepted(r.op) = {} /\ ~ Fenced(r.actor, r.op)
      BY <2>1, AuthorityProceeds
    <2>3. r.op \in Operations /\ r.actor \in Actors /\ e \in EntryShapes
      BY <1>2, RequestTypes DEF EntryShapes
    <2>4. Controls(r.actor, r.op) = {}
      BY <2>2, <2>3, UnfencedIsUncontrolled DEF LedgerInv
    <2> QED
      BY <2>1, <2>2, <2>3, <2>4 DEF Pending, Extends
  <1>3. CASE r.kind = "RESOLVE"
    <2> DEFINE e == [kind |-> "CONTROL", op |-> r.op, actor |-> r.actor]
    <2>1. ResolveVerdict(r) = "PROCEED" /\ Entry(r, day) = e
      BY <1>3 DEF Verdict, Entry
    <2>2. /\ ~ maintenance.active /\ AcceptedBy(r.actor, r.op) = {}
          /\ ~ Fenced(r.actor, r.op)
      BY <2>1, ResolveProceeds
    <2>3. r.op \in Operations /\ r.actor \in Actors /\ e \in EntryShapes
      BY RequestTypes DEF EntryShapes
    <2>4. Controls(r.actor, r.op) = {}
      BY <2>2, <2>3, UnfencedIsUncontrolled DEF LedgerInv
    <2> QED
      BY <2>1, <2>2, <2>3, <2>4 DEF Pending, Extends
  <1> QED
    BY <1>1, <1>2, <1>3, RequestTypes

-----------------------------------------------------------------------------
(* Requests being served *)

LEMMA WorkTypes ==
  ASSUME ServiceTyped, NEW w \in Workers
  PROVE  /\ work[w] \in WorkShapes
         /\ work[w].phase \in {"WAITING", "HOLDING", "COMMITTING", "ANSWERING"} =>
              work[w].request \in Requests
         /\ work[w].phase = "HOLDING" => work[w].day \in Days /\ work[w].head \in Nat
         /\ work[w].phase = "COMMITTING" =>
              work[w].entry \in EntryShapes /\ work[w].position \in Nat
         /\ work[w].phase = "ANSWERING" => work[w].answer \in Answers
  <1>1. work[w] \in WorkShapes
    BY DEF ServiceTyped
  <1> QED
    BY <1>1 DEF WorkShapes

LEMMA PhaseTypes ==
  ASSUME NEW r \in Requests
  PROVE  /\ Idle \in WorkShapes /\ Waiting(r) \in WorkShapes
         /\ \A answer \in Answers : Answering(r, answer) \in WorkShapes
         /\ \A day \in Days : Len(ledger) \in Nat => Holding(r, day) \in WorkShapes
         /\ \A e \in EntryShapes, n \in Nat : Committing(r, e, n) \in WorkShapes
  BY DEF WorkShapes, Idle, Waiting, Answering, Holding, Committing

(* A step that leaves the register alone leaves what it keeps true alone. *)
LEMMA RegisterStands ==
  ASSUME LedgerInv, UNCHANGED register
  PROVE  LedgerInv'
  BY DEF LedgerInv, LedgerTyped, ProperRows, Proper, NoRow, RowsCover, FencesAreControls,
         OneFate, Accepted, AcceptedBy, Controls, register

(* A request a step does not serve stays as it is, on the head it holds. *)
LEMMA OthersHold ==
  ASSUME UNCHANGED <<register, maintenance>>, NEW v \in Workers, Holds(v),
         work'[v] = work[v], lock = v => lock' = v
  PROVE  Holds(v)'
  BY DEF Holds, Pending, CasePending, Proper, Extends, Accepted, AcceptedBy, Controls, NoRow,
         register

LEMMA NothingHeld ==
  ASSUME NEW v, work'[v].phase \notin {"HOLDING", "COMMITTING"}
  PROVE  Holds(v)'
  BY DEF Holds

(* One request moves to a phase that holds nothing, and lets the head go. *)
LEMMA StepsAside ==
  ASSUME IInv, NEW w \in Workers, NEW phase \in WorkShapes,
         phase.phase \notin {"HOLDING", "COMMITTING"},
         UNCHANGED <<register, maintenance>>,
         work' = [work EXCEPT ![w] = phase],
         lock' \in {lock, Released(w)},
         told' \subseteq Actors \X Operations \X {"ACCEPTED", "NOT_ACCEPTED"}
  PROVE  IInv'
  <1>1. LedgerInv'
    BY RegisterStands DEF IInv
  <1>2. ServiceTyped'
    BY DEF IInv, ServiceTyped, Released
  <1>3. ASSUME NEW v \in Workers PROVE Holds(v)'
    <2>1. CASE v = w
      BY <2>1, NothingHeld DEF IInv, ServiceTyped
    <2>2. CASE v # w
      <3>1. work'[v] = work[v] /\ (lock = v => lock' = v) /\ Holds(v)
        BY <2>2 DEF IInv, ServiceTyped, Released
      <3> QED
        BY <3>1, OthersHold
    <2> QED
      BY <2>1, <2>2
  <1> QED
    BY <1>1, <1>2, <1>3 DEF IInv

-----------------------------------------------------------------------------
(* The invariant *)

LEMMA InitEstablishes == Init => IInv
  <1> SUFFICES ASSUME Init PROVE IInv
    OBVIOUS
  <1>1. LedgerTyped
    BY DEF Init, LedgerTyped, NoRow
  <1>2. ProperRows
    BY AbsentIsProper DEF Init, ProperRows, NoRow
  <1>3. ledger = <<>> /\ DOMAIN ledger = {}
    BY DEF Init
  <1>4. RowsCover /\ FencesAreControls /\ OneFate
    BY <1>3 DEF Init, RowsCover, FencesAreControls, OneFate, Accepted, AcceptedBy, Controls
  <1>5. ServiceTyped
    BY RegisterAssumption DEF Init, ServiceTyped, WorkShapes, Idle
  <1>6. \A w \in Workers : Holds(w)
    BY DEF Init, Holds, Idle
  <1> QED
    BY <1>1, <1>2, <1>4, <1>5, <1>6 DEF IInv, LedgerInv

LEMMA BeginPreserves ==
  ASSUME IInv, NEW w \in Workers, Begin(w)
  PROVE  IInv'
  <1> USE DEF Begin
  <1>1. PICK day \in Days : work' = [work EXCEPT ![w] = Holding(work[w].request, day)]
    BY DEF IInv, ServiceTyped
  <1>2. LedgerInv' /\ Len(ledger) \in Nat /\ w # NoWorker
    BY RegisterStands, RegisterAssumption DEF IInv, LedgerInv, LedgerTyped
  <1>3. work[w].request \in Requests
    BY WorkTypes DEF IInv
  <1>4. Holding(work[w].request, day) \in WorkShapes
    BY <1>2, <1>3, PhaseTypes
  <1>5. ServiceTyped'
    BY <1>1, <1>4 DEF IInv, ServiceTyped
  <1>6. ASSUME NEW v \in Workers PROVE Holds(v)'
    <2>1. CASE v = w
      <3>1. work'[v] = [phase |-> "HOLDING", request |-> work[w].request, day |-> day,
                        head |-> Len(ledger)]
        BY <1>1, <2>1 DEF IInv, ServiceTyped, Holding
      <3> QED
        BY <2>1, <3>1 DEF Holds, register
    <2>2. CASE v # w
      <3>1. work'[v] = work[v] /\ lock # v /\ Holds(v)
        BY <1>1, <2>2, RegisterAssumption DEF IInv, ServiceTyped
      <3> QED
        BY <3>1, OthersHold
    <2> QED
      BY <2>1, <2>2
  <1> QED
    BY <1>2, <1>5, <1>6 DEF IInv

LEMMA DecidePreserves ==
  ASSUME IInv, NEW w \in Workers, Decide(w)
  PROVE  IInv'
  <1> DEFINE r       == work[w].request
             day     == work[w].day
             verdict == Verdict(r, day)
  <1>1. /\ r \in Requests /\ r.kind # "STATUS" /\ day \in Days
        /\ lock = w /\ work[w].head = Len(ledger) /\ Len(ledger) \in Nat
    BY WorkTypes DEF Decide, IInv, Holds, LedgerInv, LedgerTyped
  <1>2. UNCHANGED <<register, maintenance, told>>
    BY DEF Decide
  <1>3. CASE verdict = "PROCEED"
    <2> DEFINE e == Entry(r, day)
    <2>1. /\ work' = [work EXCEPT ![w] = Committing(r, e, work[w].head + 1)]
          /\ lock' = lock
      BY <1>3 DEF Decide, IInv, ServiceTyped
    <2>2. e \in EntryShapes /\ Pending(e) /\ ~ maintenance.active
      BY <1>1, <1>3, DecisionIsPending DEF IInv
    <2> HIDE DEF e
    <2>3. Committing(r, e, work[w].head + 1) \in WorkShapes
      BY <1>1, <2>2, PhaseTypes
    <2>4. LedgerInv' /\ ServiceTyped'
      BY <1>2, <2>1, <2>3, RegisterStands DEF IInv, ServiceTyped
    <2>5. ASSUME NEW v \in Workers PROVE Holds(v)'
      <3>1. CASE v = w
        <4>1. /\ work'[v] = Committing(r, e, work[w].head + 1)
              /\ work'[v].phase = "COMMITTING" /\ work'[v].entry = e
              /\ work'[v].position = Len(ledger) + 1
          BY <1>1, <2>1, <3>1 DEF IInv, ServiceTyped, Committing
        <4>2. Pending(work[v].entry)'
          BY <1>2, <2>2, <4>1 DEF Pending, CasePending, Proper, Extends, Accepted, AcceptedBy,
                                  Controls, NoRow, register
        <4> QED
          BY <1>1, <1>2, <2>1, <2>2, <3>1, <4>1, <4>2 DEF Holds, register
      <3>2. CASE v # w
        <4>1. work'[v] = work[v] /\ Holds(v)
          BY <2>1, <3>2 DEF IInv, ServiceTyped
        <4> QED
          BY <1>2, <2>1, <4>1, OthersHold
      <3> QED
        BY <3>1, <3>2
    <2> QED
      BY <2>4, <2>5 DEF IInv
  <1>4. CASE verdict # "PROCEED"
    <2>1. /\ work' = [work EXCEPT ![w] = Answering(r, verdict)]
          /\ lock' = Released(w)
      BY <1>4 DEF Decide
    <2>2. verdict \in Answers
      BY <1>1, <1>4, VerdictType
    <2> HIDE DEF verdict
    <2>3. /\ Answering(r, verdict) \in WorkShapes
          /\ Answering(r, verdict).phase = "ANSWERING"
      BY <1>1, <2>2, PhaseTypes DEF Answering
    <2> QED
      BY <1>2, <2>1, <2>3, StepsAside DEF IInv, ServiceTyped
  <1> QED
    BY <1>3, <1>4

(* The guards of the database let every decided write through. *)
LEMMA DecidedExtends ==
  ASSUME IInv, NEW w \in Workers, work[w].phase = "COMMITTING"
  PROVE  Extends(work[w].position, work[w].entry)
  BY DEF IInv, Holds, Pending

LEMMA CommitAppliedPreserves ==
  ASSUME IInv, NEW w \in Workers, CommitApplied(w)
  PROVE  IInv'
  <1> DEFINE r == work[w].request
             e == work[w].entry
  <1>1. /\ work[w].phase = "COMMITTING" /\ r \in Requests /\ e \in EntryShapes
        /\ lock = w /\ Pending(e)
    BY WorkTypes DEF CommitApplied, IInv, Holds
  <1>2. Extends(work[w].position, e)
    BY <1>1, DecidedExtends
  <1>3. /\ Commit(e)
        /\ \E answer \in {Outcome(e), "OUTCOME_UNKNOWN"} :
             work' = [work EXCEPT ![w] = Answering(r, answer)]
        /\ lock' = NoWorker
        /\ UNCHANGED <<maintenance, told>>
    BY <1>1, <1>2 DEF CommitApplied, Released
  <1>4. PICK answer \in Answers : work' = [work EXCEPT ![w] = Answering(r, answer)]
    BY <1>3 DEF Outcome, Answers
  <1>5. LedgerInv'
    BY <1>1, <1>3, CommitPreserves DEF IInv
  <1>6. Answering(r, answer) \in WorkShapes /\ Answering(r, answer).phase = "ANSWERING"
    BY <1>1, PhaseTypes DEF Answering
  <1>7. ServiceTyped'
    BY <1>3, <1>4, <1>6 DEF IInv, ServiceTyped
  <1>8. ASSUME NEW v \in Workers PROVE Holds(v)'
    <2>1. CASE v = w
      BY <1>4, <1>6, <2>1, NothingHeld DEF IInv, ServiceTyped
    <2>2. CASE v # w
      <3>1. work'[v] = work[v]
        BY <1>4, <2>2 DEF IInv, ServiceTyped
      <3>2. work[v].phase \notin {"HOLDING", "COMMITTING"}
        BY <1>1, <2>2 DEF IInv, Holds
      <3> QED
        BY <3>1, <3>2, NothingHeld
    <2> QED
      BY <2>1, <2>2
  <1> QED
    BY <1>5, <1>7, <1>8 DEF IInv

(* Maintenance changes only while nobody holds the head. *)
LEMMA MaintenancePreserves ==
  ASSUME IInv, lock = NoWorker, UNCHANGED <<register, lock, work, told>>,
         maintenance' \in [active : BOOLEAN, generation : 0 .. MaxGeneration]
  PROVE  IInv'
  <1>1. LedgerInv'
    BY RegisterStands DEF IInv
  <1>2. ServiceTyped'
    BY DEF IInv, ServiceTyped
  <1>3. ASSUME NEW v \in Workers PROVE Holds(v)'
    <2>1. work'[v].phase \notin {"HOLDING", "COMMITTING"}
      BY RegisterAssumption DEF IInv, Holds
    <2> QED
      BY <2>1, NothingHeld
  <1> QED
    BY <1>1, <1>2, <1>3 DEF IInv

LEMMA NextPreserves == IInv /\ [Next]_vars => IInv'
  <1> SUFFICES ASSUME IInv, [Next]_vars PROVE IInv'
    OBVIOUS
  <1> USE DEF IInv, ServiceTyped
  <1>1. ASSUME NEW w \in Workers, NEW r \in Requests, Receive(w, r) PROVE IInv'
    BY <1>1, PhaseTypes, StepsAside DEF Receive, Waiting
  <1>2. ASSUME NEW w \in Workers, Begin(w) PROVE IInv'
    BY <1>2, BeginPreserves
  <1>3. ASSUME NEW w \in Workers, Decide(w) PROVE IInv'
    BY <1>3, DecidePreserves
  <1>4. ASSUME NEW w \in Workers, CommitApplied(w) PROVE IInv'
    BY <1>4, CommitAppliedPreserves
  <1>5. ASSUME NEW w \in Workers, CommitLost(w) PROVE IInv'
    <2>1. Answering(work[w].request, "OUTCOME_UNKNOWN") \in WorkShapes
      BY <1>5, WorkTypes, PhaseTypes DEF CommitLost, Answers
    <2> QED
      BY <1>5, <2>1, StepsAside DEF CommitLost, Answering
  <1>6. ASSUME NEW w \in Workers, Abandon(w) PROVE IInv'
    <2>1. Answering(work[w].request, "STORE_UNAVAILABLE") \in WorkShapes
      BY <1>6, WorkTypes, PhaseTypes DEF Abandon, Answers
    <2> QED
      BY <1>6, <2>1, StepsAside DEF Abandon, Answering
  <1>7. ASSUME NEW w \in Workers, Status(w) PROVE IInv'
    <2>1. Recovered(work[w].request) \in Answers /\ work[w].request \in Requests
      BY <1>7, WorkTypes, RecoveredType DEF Status, Answers
    <2>2. Answering(work[w].request, Recovered(work[w].request)) \in WorkShapes
      BY <2>1, PhaseTypes
    <2> QED
      BY <1>7, <2>2, StepsAside DEF Status, Answering
  <1>8. Idle \in WorkShapes /\ Idle.phase = "IDLE"
    BY DEF Idle, WorkShapes
  <1>9. ASSUME NEW w \in Workers, Answer(w) PROVE IInv'
    <2>1. work[w].request.actor \in Actors /\ work[w].request.op \in Operations
      BY <1>9, WorkTypes, RequestTypes DEF Answer
    <2>2. Promise(work[w].answer) \subseteq {"ACCEPTED", "NOT_ACCEPTED"}
      BY DEF Promise
    <2>3. told' \subseteq Actors \X Operations \X {"ACCEPTED", "NOT_ACCEPTED"}
      BY <1>9, <2>1, <2>2 DEF Answer
    <2> QED
      BY <1>8, <1>9, <2>3, StepsAside DEF Answer
  <1>10. ASSUME NEW w \in Workers, LoseAnswer(w) PROVE IInv'
    BY <1>8, <1>10, StepsAside DEF LoseAnswer
  <1>11. ASSUME EnterMaintenance PROVE IInv'
    <2>1. maintenance' \in [active : BOOLEAN, generation : 0 .. MaxGeneration]
      BY <1>11, RegisterAssumption DEF EnterMaintenance
    <2> QED
      BY <1>11, <2>1, MaintenancePreserves DEF EnterMaintenance
  <1>12. ASSUME ResumeRegister PROVE IInv'
    <2>1. maintenance' \in [active : BOOLEAN, generation : 0 .. MaxGeneration]
      BY <1>12, RegisterAssumption DEF ResumeRegister
    <2> QED
      BY <1>12, <2>1, MaintenancePreserves DEF ResumeRegister
  <1>13. ASSUME UNCHANGED vars PROVE IInv'
    <2>1. LedgerInv'
      BY <1>13, RegisterStands DEF vars
    <2>2. \A v \in Workers : Holds(v)'
      BY <1>13, OthersHold DEF vars
    <2> QED
      BY <1>13, <2>1, <2>2 DEF vars
  <1> QED
    BY <1>1, <1>2, <1>3, <1>4, <1>5, <1>6, <1>7, <1>9, <1>10, <1>11, <1>12, <1>13
    DEF Next, Serve

LEMMA Invariance == Spec => []IInv
  BY InitEstablishes, NextPreserves, PTL DEF Spec

-----------------------------------------------------------------------------
(* Results *)

(* The ledger, its projections, the head's holder and every served request
   keep their types: the rows and columns the store reads and writes. *)
THEOREM TypeCorrect == Spec => []TypeOK
  <1>1. IInv => TypeOK
    BY DEF IInv, LedgerInv, LedgerTyped, ServiceTyped, FencesAreControls, TypeOK
  <1> QED
    BY <1>1, Invariance, PTL

(* An operation identity is accepted once, and never for an author whose
   nonacceptance the ledger has settled: what CaseExecution.run,
   AuthorityExecution.run and Resolution.run check under the head. *)
THEOREM OneFateHolds == Spec => []OneFate
  <1>1. IInv => OneFate
    BY DEF IInv, LedgerInv
  <1> QED
    BY <1>1, Invariance, PTL

(* The triggers and unique indexes of the ledger never refuse what was
   decided under the head: every pending write extends it. *)
THEOREM WritesExtend == Spec => []WritesExtendTheHead
  <1>1. IInv => WritesExtendTheHead
    BY DecidedExtends DEF WritesExtendTheHead
  <1> QED
    BY <1>1, Invariance, PTL

(* Only a commit changes the register. *)
LEMMA OnlyCommits ==
  ASSUME IInv, [Next]_vars
  PROVE  \/ UNCHANGED register
         \/ \E w \in Workers : /\ CommitApplied(w)
                               /\ work[w].phase = "COMMITTING"
                               /\ work[w].entry \in EntryShapes
                               /\ Pending(work[w].entry)
                               /\ Commit(work[w].entry)
  <1>1. ASSUME NEW w \in Workers, CommitApplied(w)
        PROVE  /\ work[w].phase = "COMMITTING" /\ work[w].entry \in EntryShapes
               /\ Pending(work[w].entry) /\ Commit(work[w].entry)
    <2>1. work[w].phase = "COMMITTING" /\ Pending(work[w].entry)
      BY <1>1 DEF CommitApplied, IInv, Holds
    <2>2. work[w].entry \in EntryShapes
      BY <2>1, WorkTypes DEF IInv
    <2>3. Commit(work[w].entry)
      BY <1>1, <2>1, DecidedExtends DEF CommitApplied
    <2> QED
      BY <2>1, <2>2, <2>3
  <1> QED
    BY <1>1 DEF Next, Serve, Receive, Begin, Decide, CommitLost, Abandon, Status, Answer,
                LoseAnswer, EnterMaintenance, ResumeRegister, vars

(* While maintenance is active nothing in the register changes: maintenance is
   entered under the same head lock a write is decided and committed under. *)
THEOREM MaintenanceQuiet == Spec => MaintenanceIsQuiet
  <1>1. IInv /\ [Next]_vars => [maintenance.active => UNCHANGED register]_vars
    <2> SUFFICES ASSUME IInv, [Next]_vars, maintenance.active PROVE UNCHANGED register
      OBVIOUS
    <2>1. \A w \in Workers : work[w].phase # "COMMITTING"
      BY DEF IInv, Holds
    <2> QED
      BY <2>1, OnlyCommits
  <1> QED
    BY <1>1, Invariance, PTL DEF Spec, MaintenanceIsQuiet

-----------------------------------------------------------------------------
(* Answers *)

(* A served request writes under its own author and identity, and an answer
   that names a fate names the one the ledger tells. *)
Truthful(w) ==
  /\ work[w].phase = "COMMITTING" =>
       /\ work[w].entry.op = work[w].request.op
       /\ work[w].entry.actor = work[w].request.actor
  /\ work[w].phase = "ANSWERING" =>
       \A f \in Promise(work[w].answer) :
         f = Fate(work[w].request.actor, work[w].request.op)

FateInv == \A w \in Workers : Truthful(w)

-----------------------------------------------------------------------------
(* Fates *)

FateOf(e) == IF e.kind = "CONTROL" THEN "NOT_ACCEPTED" ELSE "ACCEPTED"

(* A commit settles the fate of its entry's operation, open until then, and of
   no other. *)
LEMMA CommitSettles ==
  ASSUME LedgerInv, NEW e \in EntryShapes, Pending(e), Commit(e)
  PROVE  /\ Fate(e.actor, e.op) = "OPEN"
         /\ e.kind # "CONTROL" => \A b \in Actors : Fate(b, e.op) # "ACCEPTED"
         /\ \A a \in Actors, op \in Operations :
              Fate(a, op)' = IF a = e.actor /\ op = e.op THEN FateOf(e) ELSE Fate(a, op)
  <1>1. /\ e.kind = "CONTROL" => Controls(e.actor, e.op) = {} /\ AcceptedBy(e.actor, e.op) = {}
        /\ e.kind # "CONTROL" => Controls(e.actor, e.op) = {} /\ Accepted(e.op) = {}
    BY DEF Pending, Extends
  <1>2. Accepted(e.op) = {} => \A b \in Actors : AcceptedBy(b, e.op) = {}
    BY DEF AcceptedBy
  <1>3. e.actor \in Actors /\ e.op \in Operations
    BY EntryTypes
  <1>4. ASSUME NEW a \in Actors, NEW op \in Operations
        PROVE  Fate(a, op)' = IF a = e.actor /\ op = e.op THEN FateOf(e) ELSE Fate(a, op)
    <2>1. /\ AcceptedBy(a, op)' = AcceptedBy(a, op) \cup
               (IF e.kind # "CONTROL" /\ e.op = op /\ e.actor = a THEN {Len(ledger) + 1} ELSE {})
          /\ Controls(a, op)' = Controls(a, op) \cup
               (IF e.kind = "CONTROL" /\ e.op = op /\ e.actor = a THEN {Len(ledger) + 1} ELSE {})
      BY CommitExtendsLookups DEF LedgerInv
    <2> QED
      BY <1>1, <1>2, <1>3, <2>1 DEF Fate, FateOf
  <1> QED
    BY <1>1, <1>2, <1>3, <1>4 DEF Fate

LEMMA FateType ==
  ASSUME NEW a, NEW op
  PROVE  Fate(a, op) \in {"OPEN", "ACCEPTED", "NOT_ACCEPTED"}
  BY DEF Fate

(* What a step does to the fates: one open fate is settled, or none changes. *)
LEMMA StepSettles ==
  ASSUME IInv, [Next]_vars
  PROVE  \/ \A a \in Actors, op \in Operations : Fate(a, op)' = Fate(a, op)
         \/ \E w \in Workers :
              LET e == work[w].entry
              IN  /\ CommitApplied(w) /\ Commit(e) /\ Pending(e) /\ e \in EntryShapes
                  /\ Fate(e.actor, e.op) = "OPEN"
                  /\ e.kind # "CONTROL" => \A b \in Actors : Fate(b, e.op) # "ACCEPTED"
                  /\ \A a \in Actors, op \in Operations :
                       Fate(a, op)' = IF a = e.actor /\ op = e.op THEN FateOf(e) ELSE Fate(a, op)
  <1>1. CASE UNCHANGED register
    BY <1>1 DEF register, Fate, AcceptedBy, Accepted, Controls
  <1>2. CASE \E w \in Workers :
               CommitApplied(w) /\ work[w].entry \in EntryShapes /\ Pending(work[w].entry)
                 /\ Commit(work[w].entry)
    BY <1>2, CommitSettles DEF IInv
  <1> QED
    BY <1>1, <1>2, OnlyCommits

LEMMA SettledFatesStay ==
  ASSUME IInv, [Next]_vars, NEW a \in Actors, NEW op \in Operations, Fate(a, op) # "OPEN"
  PROVE  Fate(a, op)' = Fate(a, op)
  BY StepSettles

-----------------------------------------------------------------------------
(* Answers *)

(* A replay is told to the author of the accepted entry only. *)
LEMMA ReplayIsTrue ==
  ASSUME NEW r \in Requests, NEW identity, Accepted(r.op) # {},
         Replay(r, identity) = "ALREADY_ACCEPTED"
  PROVE  Fate(r.actor, r.op) = "ACCEPTED"
  <1> DEFINE i == CHOOSE j \in Accepted(r.op) : TRUE
  <1>1. i \in Accepted(r.op)
    OBVIOUS
  <1>2. ledger[i].actor = r.actor
    BY DEF Replay
  <1> QED
    BY <1>1, <1>2 DEF Fate, AcceptedBy

LEMMA RecoveredIsTrue ==
  ASSUME FencesAreControls, NEW r \in Requests, NEW f \in Promise(Recovered(r))
  PROVE  f = Fate(r.actor, r.op)
  <1>1. r.actor \in Actors /\ r.op \in Operations
    BY RequestTypes
  <1>2. CASE Recovered(r) = "ALREADY_ACCEPTED"
    BY <1>2 DEF Recovered, Promise, Fate
  <1>3. CASE Recovered(r) = "NOT_ACCEPTED"
    <2>1. f = "NOT_ACCEPTED"
      BY <1>3 DEF Promise
    <2>2. AcceptedBy(r.actor, r.op) = {} /\ Fenced(r.actor, r.op)
      BY <1>3 DEF Recovered, Contradicted, Fenced
    <2>3. Controls(r.actor, r.op) # {}
      BY <1>1, <2>2 DEF Fenced, FencesAreControls
    <2> QED
      BY <2>1, <2>2, <2>3 DEF Fate
  <1>4. CASE Recovered(r) \notin {"ALREADY_ACCEPTED", "NOT_ACCEPTED"}
    BY <1>4, RecoveredType DEF Promise
  <1> QED
    BY <1>2, <1>3, <1>4

(* A verdict that names a fate names the one the ledger tells. *)
LEMMA VerdictIsTrue ==
  ASSUME FencesAreControls, NEW r \in Requests, r.kind # "STATUS", NEW day,
         NEW f \in Promise(Verdict(r, day))
  PROVE  f = Fate(r.actor, r.op)
  <1>1. CASE r.kind = "CASE"
    <2> DEFINE refusal == Refusal(day, r.act, r.expected, Current(r))
               replay  == Replay(r, CaseIdentity(r))
    <2>1. Promise(refusal) = {}
      BY RefusalType DEF Promise
    <2>2. Verdict(r, day) = CaseVerdict(r, day)
      BY <1>1 DEF Verdict
    <2> HIDE DEF refusal, replay
    <2>3. Verdict(r, day) = replay /\ Accepted(r.op) # {}
      BY <2>1, <2>2 DEF CaseVerdict, Promise, refusal, replay
    <2>4. replay = "ALREADY_ACCEPTED" /\ f = "ACCEPTED"
      BY <2>3, ReplayType DEF Promise, replay
    <2> QED
      BY <2>3, <2>4, ReplayIsTrue DEF replay
  <1>2. CASE r.kind = "AUTHORITY"
    <2> DEFINE replay == Replay(r, AuthorityIdentity(r))
    <2>1. Verdict(r, day) = AuthorityVerdict(r)
      BY <1>2 DEF Verdict
    <2> HIDE DEF replay
    <2>2. Verdict(r, day) = replay /\ Accepted(r.op) # {}
      BY <2>1 DEF AuthorityVerdict, Promise, replay
    <2>3. replay = "ALREADY_ACCEPTED" /\ f = "ACCEPTED"
      BY <2>2, ReplayType DEF Promise, replay
    <2> QED
      BY <2>2, <2>3, ReplayIsTrue DEF replay
  <1>3. CASE r.kind = "RESOLVE"
    <2>1. Verdict(r, day) = ResolveVerdict(r)
      BY <1>3 DEF Verdict
    <2>2. Verdict(r, day) = Recovered(r)
      BY <2>1 DEF ResolveVerdict, Promise
    <2> QED
      BY <2>2, RecoveredIsTrue
  <1> QED
    BY <1>1, <1>2, <1>3, RequestTypes

LEMMA EntryIsTheRequests ==
  ASSUME NEW r, NEW day
  PROVE  Entry(r, day).op = r.op /\ Entry(r, day).actor = r.actor
  BY DEF Entry, CaseEntry

-----------------------------------------------------------------------------
(* Every step tells the truth *)

(* A request that a step leaves where it is stays true: what it writes does
   not change, and what it has to tell is settled. *)
LEMMA OthersStayTruthful ==
  ASSUME IInv, [Next]_vars, NEW v \in Workers, Truthful(v), work'[v] = work[v]
  PROVE  Truthful(v)'
  <1>1. ASSUME work[v].phase = "ANSWERING", NEW f \in Promise(work[v].answer)
        PROVE  f = Fate(work[v].request.actor, work[v].request.op)'
    <2>1. work[v].request.actor \in Actors /\ work[v].request.op \in Operations
      BY <1>1, WorkTypes, RequestTypes DEF IInv
    <2>2. f = Fate(work[v].request.actor, work[v].request.op) /\ f # "OPEN"
      BY <1>1 DEF Truthful, Promise
    <2>3. \A a \in Actors, op \in Operations : Fate(a, op) # "OPEN" => Fate(a, op)' = Fate(a, op)
      BY SettledFatesStay
    <2> DEFINE a  == work[v].request.actor
               op == work[v].request.op
    <2>4. a' = a /\ op' = op
      OBVIOUS
    <2>5. Fate(a, op)' = Fate(a, op)
      BY <2>1, <2>2, <2>3, <2>4 DEF Fate, AcceptedBy, Accepted, Controls
    <2> QED
      BY <2>2, <2>5
  <1> QED
    BY <1>1 DEF Truthful

(* The request a step serves stays or becomes true. *)
LEMMA ServedIsTruthful ==
  ASSUME IInv, FateInv, NEW w \in Workers, Serve(w)
  PROVE  Truthful(w)'
  <1>1. /\ work[w].phase \in {"WAITING", "HOLDING", "COMMITTING", "ANSWERING"}
        /\ work \in [Workers -> WorkShapes]
    BY DEF Serve, Begin, Decide, CommitApplied, CommitLost, Abandon, Status, Answer, LoseAnswer,
           IInv, ServiceTyped
  <1>2. PICK r \in Requests : r = work[w].request
    BY <1>1, WorkTypes DEF IInv
  <1>3. r.actor \in Actors /\ r.op \in Operations /\ FencesAreControls
    BY RequestTypes DEF IInv, LedgerInv
  <1>4. ASSUME NEW answer, work' = [work EXCEPT ![w] = Answering(r, answer)],
               \A f \in Promise(answer) : f = Fate(r.actor, r.op)'
        PROVE  Truthful(w)'
    BY <1>1, <1>4 DEF Truthful, Answering, Fate, AcceptedBy, Accepted, Controls, Promise
  <1>5. UNCHANGED register => Fate(r.actor, r.op)' = Fate(r.actor, r.op)
    BY DEF register, Fate, AcceptedBy, Accepted, Controls
  <1>6. CASE Begin(w) \/ Answer(w) \/ LoseAnswer(w)
    <2>1. work'[w].phase \in {"HOLDING", "IDLE"}
      BY <1>1, <1>6 DEF Begin, Answer, LoseAnswer, Holding, Idle
    <2> QED
      BY <2>1 DEF Truthful
  <1>7. CASE Decide(w)
    <2> DEFINE verdict == Verdict(r, work[w].day)
    <2>1. r.kind # "STATUS" /\ UNCHANGED register
      BY <1>2, <1>7 DEF Decide, IInv, Holds
    <2>2. CASE verdict = "PROCEED"
      <3>1. /\ work'[w].phase = "COMMITTING" /\ work'[w].request = r
            /\ work'[w].entry = Entry(r, work[w].day)
        BY <1>1, <1>2, <1>7, <2>2 DEF Decide, Committing
      <3> QED
        BY <3>1, EntryIsTheRequests DEF Truthful
    <2>3. CASE verdict # "PROCEED"
      <3>1. work' = [work EXCEPT ![w] = Answering(r, verdict)]
        BY <1>2, <1>7, <2>3 DEF Decide
      <3>2. \A f \in Promise(verdict) : f = Fate(r.actor, r.op)
        BY <1>3, <2>1, VerdictIsTrue
      <3> QED
        BY <1>4, <1>5, <2>1, <3>1, <3>2
    <2> QED
      BY <2>2, <2>3
  <1>8. CASE CommitApplied(w)
    <2> DEFINE e == work[w].entry
    <2>1. /\ work[w].phase = "COMMITTING" /\ e \in EntryShapes /\ Pending(e)
          /\ Extends(work[w].position, e) /\ e.op = r.op /\ e.actor = r.actor
      BY <1>2, <1>8, WorkTypes, DecidedExtends DEF CommitApplied, IInv, Holds, FateInv, Truthful
    <2>2. /\ Commit(e)
          /\ \E answer \in {Outcome(e), "OUTCOME_UNKNOWN"} :
               work' = [work EXCEPT ![w] = Answering(r, answer)]
      BY <1>2, <1>8, <2>1 DEF CommitApplied
    <2>3. Fate(r.actor, r.op)' = FateOf(e)
      BY <1>3, <2>1, <2>2, CommitSettles DEF IInv
    <2>4. Promise("OUTCOME_UNKNOWN") = {} /\ Promise(Outcome(e)) = {FateOf(e)}
      BY DEF Promise, Outcome, FateOf
    <2> QED
      BY <1>4, <2>2, <2>3, <2>4
  <1>9. CASE CommitLost(w) \/ Abandon(w)
    <2>1. PICK answer \in {"OUTCOME_UNKNOWN", "STORE_UNAVAILABLE"} :
            work' = [work EXCEPT ![w] = Answering(r, answer)]
      BY <1>2, <1>9 DEF CommitLost, Abandon
    <2>2. Promise(answer) = {}
      BY DEF Promise
    <2> QED
      BY <1>4, <2>1, <2>2
  <1>10. CASE Status(w)
    <2>1. work' = [work EXCEPT ![w] = Answering(r, Recovered(r))] /\ UNCHANGED register
      BY <1>2, <1>10 DEF Status
    <2> QED
      BY <1>3, <1>4, <1>5, <2>1, RecoveredIsTrue
  <1> QED
    BY <1>6, <1>7, <1>8, <1>9, <1>10 DEF Serve

LEMMA FatePreserved == IInv /\ FateInv /\ [Next]_vars => FateInv'
  <1> SUFFICES ASSUME IInv, FateInv, [Next]_vars, NEW v \in Workers PROVE Truthful(v)'
    BY DEF FateInv
  <1>1. work \in [Workers -> WorkShapes] /\ Truthful(v)
    BY DEF IInv, ServiceTyped, FateInv
  <1>2. CASE work'[v] = work[v]
    BY <1>1, <1>2, OthersStayTruthful
  <1>3. ASSUME NEW r \in Requests, Receive(v, r) PROVE Truthful(v)'
    BY <1>1, <1>3 DEF Receive, Waiting, Truthful
  <1>4. CASE Serve(v)
    BY <1>4, ServedIsTruthful
  <1>5. ASSUME NEW w \in Workers, w # v, (\E r \in Requests : Receive(w, r)) \/ Serve(w)
        PROVE  work'[v] = work[v]
    BY <1>1, <1>5 DEF Receive, Serve, Begin, Decide, CommitApplied, CommitLost, Abandon, Status,
                      Answer, LoseAnswer
  <1>6. EnterMaintenance \/ ResumeRegister \/ UNCHANGED vars => work'[v] = work[v]
    BY DEF EnterMaintenance, ResumeRegister, vars
  <1> QED
    BY <1>2, <1>3, <1>4, <1>5, <1>6 DEF Next

LEMMA FateInvariance == Spec => [](IInv /\ FateInv)
  <1>1. Init => FateInv
    BY DEF Init, FateInv, Truthful, Idle
  <1> QED
    BY <1>1, FatePreserved, InitEstablishes, NextPreserves, PTL DEF Spec

-----------------------------------------------------------------------------
(* The promises of Delivery *)

LEMMA RefinesInit == Init => Promised!Init
  BY DEF Init, Promised!Init, Fate, AcceptedBy, Accepted, Controls

LEMMA RefinesNext == IInv /\ FateInv /\ [Next]_vars => [Promised!Next]_(Promised!vars)
  <1> DEFINE fate == [k \in Actors \X Operations |-> Fate(k[1], k[2])]
  <1> SUFFICES ASSUME IInv, FateInv, [Next]_vars
               PROVE  \/ \E a \in Actors, o \in Operations :
                           Promised!Accept(a, o) \/ Promised!Settle(a, o) \/ Promised!Tell(a, o)
                      \/ UNCHANGED <<fate, told>>
    BY DEF Promised!Next, Promised!vars
  <1>1. \A a \in Actors, o \in Operations : fate[<<a, o>>] = Fate(a, o)
    OBVIOUS
  <1>2. UNCHANGED register => UNCHANGED fate
    BY DEF register, Fate, AcceptedBy, Accepted, Controls
  <1>3. ASSUME NEW w \in Workers, Answer(w)
        PROVE  (\E a \in Actors, o \in Operations : Promised!Tell(a, o)) \/ UNCHANGED <<fate, told>>
    <2> DEFINE r == work[w].request
    <2>1. /\ r.actor \in Actors /\ r.op \in Operations
          /\ work[w].phase = "ANSWERING" /\ UNCHANGED register
          /\ told' = told \cup {<<r.actor, r.op, f>> : f \in Promise(work[w].answer)}
      BY <1>3, WorkTypes, RequestTypes DEF Answer, IInv
    <2>2. CASE Promise(work[w].answer) = {}
      BY <1>2, <2>1, <2>2
    <2>3. CASE Promise(work[w].answer) # {}
      <3>1. PICK f : Promise(work[w].answer) = {f} /\ f # "OPEN"
        BY <2>3 DEF Promise
      <3>2. f = Fate(r.actor, r.op)
        BY <2>1, <3>1 DEF FateInv, Truthful
      <3>3. told' = told \cup {<<r.actor, r.op, Fate(r.actor, r.op)>>}
        BY <2>1, <3>1, <3>2
      <3>4. Promised!Tell(r.actor, r.op)
        BY <1>1, <1>2, <2>1, <3>1, <3>2, <3>3 DEF Promised!Tell
      <3> QED
        BY <2>1, <3>4
    <2> QED
      BY <2>2, <2>3
  <1>4. ASSUME NEW w \in Workers, CommitApplied(w)
        PROVE  \E a \in Actors, o \in Operations : Promised!Accept(a, o) \/ Promised!Settle(a, o)
    <2> DEFINE e == work[w].entry
               a == e.actor
               o == e.op
    <2>1. /\ e \in EntryShapes /\ Pending(e) /\ Commit(e) /\ told' = told
          /\ a \in Actors /\ o \in Operations
      <3>1. work[w].phase = "COMMITTING" /\ Pending(e)
        BY <1>4 DEF CommitApplied, IInv, Holds
      <3> QED
        BY <1>4, <3>1, WorkTypes, EntryTypes, DecidedExtends DEF CommitApplied, IInv
    <2>2. /\ Fate(a, o) = "OPEN"
          /\ e.kind # "CONTROL" => \A b \in Actors : Fate(b, o) # "ACCEPTED"
          /\ \A b \in Actors, p \in Operations :
               Fate(b, p)' = IF b = a /\ p = o THEN FateOf(e) ELSE Fate(b, p)
      BY <2>1, CommitSettles DEF IInv
    <2>3. fate' = [fate EXCEPT ![<<a, o>>] = FateOf(e)]
      <3>1. ASSUME NEW k \in Actors \X Operations
            PROVE  Fate(k[1], k[2])' = IF k = <<a, o>> THEN FateOf(e) ELSE Fate(k[1], k[2])
        <4>1. PICK b \in Actors, p \in Operations : k = <<b, p>>
          OBVIOUS
        <4> QED
          BY <2>2, <4>1
      <3> HIDE DEF e
      <3>2. [k \in Actors \X Operations |-> Fate(k[1], k[2])'] =
              [k \in Actors \X Operations |->
                 IF k = <<a, o>> THEN FateOf(e) ELSE Fate(k[1], k[2])]
        BY <3>1
      <3> QED
        BY <3>2
    <2>4. CASE e.kind = "CONTROL"
      BY <1>1, <2>1, <2>2, <2>3, <2>4 DEF Promised!Settle, FateOf
    <2>5. CASE e.kind # "CONTROL"
      BY <1>1, <2>1, <2>2, <2>3, <2>5 DEF Promised!Accept, FateOf
    <2> QED
      BY <2>1, <2>4, <2>5
  <1>5. CASE UNCHANGED <<register, told>>
    BY <1>2, <1>5
  <1>6. \/ UNCHANGED <<register, told>>
        \/ \E w \in Workers : Answer(w) \/ CommitApplied(w)
    BY DEF Next, Serve, Receive, Begin, Decide, CommitLost, Abandon, Status, LoseAnswer,
           EnterMaintenance, ResumeRegister, vars
  <1> QED
    BY <1>3, <1>4, <1>5, <1>6

(* Lost answers, repeats, timeouts and maintenance included, the register is a
   delivery service: Service.write answers settled fates only, and a fate once
   settled by Transactions.transact never changes. *)
THEOREM DeliveryIsKept == Spec => KeepsDeliveryPromises
  BY FateInvariance, RefinesInit, RefinesNext, PTL
  DEF Spec, KeepsDeliveryPromises, Promised!Spec

-----------------------------------------------------------------------------
(* Owners *)

(* Whoever is about to be disabled leaves another enabled owner. *)
LeavesAnOwner(e) ==
  e.kind = "AUTHORITY" /\ e.change = "DISABLE" => EnabledOwners \ {e.subject} # {}

OwnersInv ==
  /\ AnOwnerRemains
  /\ \A w \in Workers : work[w].phase = "COMMITTING" => LeavesAnOwner(work[w].entry)

(* Authority.disableChange counts; what it needs is that somebody is left. *)
LEMMA NotLastLeavesAnOwner ==
  ASSUME AnOwnerRemains, NEW r, r.change = "DISABLE", ~ LastOwner(r)
  PROVE  EnabledOwners \ {r.subject} # {}
  <1>1. CASE r.subject \notin EnabledOwners
    BY <1>1 DEF AnOwnerRemains
  <1>2. CASE r.subject \in EnabledOwners
    <2>1. IsFiniteSet(EnabledOwners)
      BY RegisterAssumption, FS_Subset DEF EnabledOwners, Owners
    <2>2. ~ (Cardinality(EnabledOwners) <= 1)
      BY <1>2 DEF LastOwner
    <2>3. Cardinality(EnabledOwners) \in Nat
      BY <2>1, FS_CardinalityType
    <2>4. /\ Cardinality(EnabledOwners \ {r.subject}) = Cardinality(EnabledOwners) - 1
          /\ IsFiniteSet(EnabledOwners \ {r.subject})
      BY <1>2, <2>1, FS_RemoveElement
    <2>5. Cardinality({}) = 0
      BY FS_EmptySet
    <2> QED
      BY <2>2, <2>3, <2>4, <2>5
  <1> QED
    BY <1>1, <1>2

LEMMA DecisionLeavesAnOwner ==
  ASSUME AnOwnerRemains, NEW r \in Requests, r.kind # "STATUS", NEW day,
         Verdict(r, day) = "PROCEED"
  PROVE  LeavesAnOwner(Entry(r, day))
  <1>1. CASE r.kind = "AUTHORITY"
    <2>1. ~ LastOwner(r)
      BY <1>1, AuthorityProceeds DEF Verdict
    <2>2. Entry(r, day).change = r.change /\ Entry(r, day).subject = r.subject
      BY <1>1 DEF Entry
    <2> QED
      BY <2>1, <2>2, NotLastLeavesAnOwner DEF LeavesAnOwner
  <1>2. CASE r.kind # "AUTHORITY"
    BY <1>2 DEF LeavesAnOwner, Entry, CaseEntry
  <1> QED
    BY <1>1, <1>2

LEMMA CommitLeavesAnOwner ==
  ASSUME LedgerInv, AnOwnerRemains, NEW e \in EntryShapes, LeavesAnOwner(e), Commit(e)
  PROVE  AnOwnerRemains'
  <1>1. CASE e.kind # "AUTHORITY"
    BY <1>1 DEF Commit, AnOwnerRemains, EnabledOwners
  <1>2. CASE e.kind = "AUTHORITY"
    <2>1. /\ enabled' = [enabled EXCEPT ![e.subject] = (e.change = "ENABLE")]
          /\ e.change \in {"ENABLE", "DISABLE"}
          /\ enabled \in [Actors -> BOOLEAN]
      BY <1>2 DEF Commit, EntryShapes, LedgerInv, LedgerTyped
    <2>2. PICK a \in EnabledOwners : e.change = "DISABLE" => a # e.subject
      BY <1>2 DEF LeavesAnOwner, AnOwnerRemains
    <2>3. a \in Actors /\ a \in Owners /\ enabled[a]
      BY DEF EnabledOwners, Owners
    <2>4. enabled'[a]
      BY <2>1, <2>2, <2>3
    <2> QED
      BY <2>3, <2>4 DEF AnOwnerRemains, EnabledOwners
  <1> QED
    BY <1>1, <1>2

LEMMA OwnersPreserved == IInv /\ OwnersInv /\ [Next]_vars => OwnersInv'
  <1> SUFFICES ASSUME IInv, OwnersInv, [Next]_vars PROVE OwnersInv'
    OBVIOUS
  <1>1. work \in [Workers -> WorkShapes]
    BY DEF IInv, ServiceTyped
  <1>2. CASE \E w \in Workers : CommitApplied(w)
    <2>1. PICK w \in Workers : CommitApplied(w)
      BY <1>2
    <2>2. /\ work[w].phase = "COMMITTING" /\ Pending(work[w].entry) /\ lock = w
          /\ work[w].entry \in EntryShapes
      BY <2>1, WorkTypes DEF CommitApplied, IInv, Holds
    <2>3. Commit(work[w].entry) /\ LeavesAnOwner(work[w].entry)
      BY <2>1, <2>2, DecidedExtends DEF CommitApplied, OwnersInv
    <2>4. AnOwnerRemains'
      BY <2>2, <2>3, CommitLeavesAnOwner DEF IInv, OwnersInv
    <2>5. ASSUME NEW v \in Workers PROVE work'[v].phase # "COMMITTING"
      <3>1. CASE v = w
        BY <1>1, <2>1, <3>1 DEF CommitApplied, Answering
      <3>2. CASE v # w
        BY <1>1, <2>1, <2>2, <3>2 DEF CommitApplied, IInv, Holds
      <3> QED
        BY <3>1, <3>2
    <2> QED
      BY <2>4, <2>5 DEF OwnersInv
  <1>3. CASE ~ \E w \in Workers : CommitApplied(w)
    <2>1. enabled' = enabled
      BY <1>3, OnlyCommits DEF register
    <2>2. ASSUME NEW v \in Workers, work'[v].phase = "COMMITTING"
          PROVE  LeavesAnOwner(work'[v].entry)
      <3>1. CASE work'[v] = work[v]
        BY <2>2, <3>1 DEF OwnersInv
      <3>2. CASE Decide(v)
        <4>1. /\ work[v].request \in Requests /\ work[v].request.kind # "STATUS"
              /\ work[v].phase = "HOLDING"
          BY <3>2, WorkTypes DEF Decide, IInv, Holds
        <4>2. /\ Verdict(work[v].request, work[v].day) = "PROCEED"
              /\ work'[v].entry = Entry(work[v].request, work[v].day)
          BY <1>1, <2>2, <3>2 DEF Decide, Committing, Answering
        <4> QED
          BY <4>1, <4>2, DecisionLeavesAnOwner DEF OwnersInv
      <3>3. CASE work'[v] # work[v] /\ ~ Decide(v)
        BY <1>1, <1>3, <2>2, <3>3
        DEF Next, Serve, Receive, Begin, Decide, CommitLost, Abandon, Status, Answer, LoseAnswer,
            EnterMaintenance, ResumeRegister, vars, Idle, Waiting, Holding, Answering
      <3> QED
        BY <3>1, <3>2, <3>3
    <2> QED
      BY <2>1, <2>2 DEF OwnersInv, AnOwnerRemains, LeavesAnOwner, EnabledOwners
  <1> QED
    BY <1>2, <1>3

(* However owners disable each other or themselves at once, one stays enabled:
   Authority.disableChange counts under the head lock it then commits under. *)
THEOREM OwnerRemains == Spec => []AnOwnerRemains
  <1>1. Init => OwnersInv
    BY RegisterAssumption DEF Init, OwnersInv, AnOwnerRemains, EnabledOwners, Owners, Idle
  <1>2. OwnersInv => AnOwnerRemains
    BY DEF OwnersInv
  <1> QED
    BY <1>1, <1>2, OwnersPreserved, InitEstablishes, NextPreserves, PTL DEF Spec

-----------------------------------------------------------------------------
(* The commit of an ERASE clears the payload of every entry of its case. *)
Clears(e, d) ==
  e.kind = "CASE" /\ e.act = "ERASE" /\ d.kind = "CASE" /\ d.subject = e.subject

Recorded(e, d) == IF Clears(e, d) THEN [d EXCEPT !.payload = {}] ELSE d

LEMMA CommitRecords ==
  ASSUME LedgerTyped, NEW e \in EntryShapes, Commit(e)
  PROVE  /\ Len(ledger) \in Nat
         /\ DOMAIN ledger = 1 .. Len(ledger)
         /\ Len(ledger') = Len(ledger) + 1
         /\ DOMAIN ledger' = 1 .. Len(ledger) + 1
         /\ \A i \in DOMAIN ledger : ledger'[i] = Recorded(e, ledger[i])
         /\ ledger'[Len(ledger) + 1] = Recorded(e, e)
  <1> DEFINE n == Len(ledger)
             all == Append(ledger, e)
  <1>1. /\ all \in Seq(EntryShapes) /\ Len(all) = n + 1 /\ n \in Nat
        /\ DOMAIN all = 1 .. n + 1 /\ DOMAIN ledger = 1 .. n
        /\ \A i \in 1 .. n : all[i] = ledger[i]
        /\ all[n + 1] = e
    BY DEF LedgerTyped
  <1>2. ledger' = Purged(all, e) /\ Len(ledger') = n + 1
    BY CommitAppends DEF Commit
  <1>3. DOMAIN ledger' = 1 .. n + 1 /\ \A i \in 1 .. n + 1 : ledger'[i] = Recorded(e, all[i])
    BY <1>1, <1>2 DEF Purged, Recorded, Clears
  <1> QED
    BY <1>1, <1>2, <1>3

LEMMA RecordedKeeps ==
  ASSUME NEW e, NEW d \in EntryShapes
  PROVE  /\ Recorded(e, d).kind = d.kind /\ Recorded(e, d).op = d.op
         /\ d.kind = "CASE" => /\ Recorded(e, d).subject = d.subject
                               /\ Recorded(e, d).revision = d.revision
                               /\ Recorded(e, d).reference = d.reference
                               /\ Recorded(e, d).act = d.act
                               /\ Recorded(e, d).day = d.day
                               /\ Recorded(e, d).payload = IF Clears(e, d) THEN {} ELSE d.payload
         /\ d.kind # "CASE" => Recorded(e, d) = d
         /\ Metadata(Recorded(e, d)) = Metadata(d)
         /\ Recorded(e, d) # d => Clears(e, d)
  BY DEF Recorded, Clears, Metadata, EntryShapes

(* Nothing the ledger holds is ever changed but for the payloads an ERASE
   takes away: ledger_guard lets only erase_case_payload touch an entry. *)
THEOREM LedgerIsAppendOnly == Spec => AppendOnly
  <1> DEFINE Step ==
        /\ Len(ledger') \in {Len(ledger), Len(ledger) + 1}
        /\ \A i \in DOMAIN ledger :
             /\ Metadata(ledger'[i]) = Metadata(ledger[i])
             /\ ledger'[i] # ledger[i] =>
                  LET last == ledger'[Len(ledger')]
                  IN  /\ Len(ledger') > Len(ledger)
                      /\ last.kind = "CASE" /\ last.act = "ERASE"
                      /\ last.subject = ledger[i].subject
  <1>1. IInv /\ [Next]_vars => [Step]_vars
    <2> SUFFICES ASSUME IInv, [Next]_vars PROVE Step
      OBVIOUS
    <2>1. CASE UNCHANGED register
      BY <2>1 DEF register
    <2>2. CASE \E w \in Workers : work[w].entry \in EntryShapes /\ Commit(work[w].entry)
      <3>1. PICK e \in EntryShapes : Commit(e)
        BY <2>2
      <3>2. LedgerTyped /\ \A i \in DOMAIN ledger : ledger[i] \in EntryShapes
        BY DEF IInv, LedgerInv, LedgerTyped
      <3>3. /\ Len(ledger) \in Nat /\ Len(ledger') = Len(ledger) + 1
            /\ \A i \in DOMAIN ledger : ledger'[i] = Recorded(e, ledger[i])
            /\ ledger'[Len(ledger')] = Recorded(e, e)
        BY <3>1, <3>2, CommitRecords
      <3>4. ASSUME NEW i \in DOMAIN ledger
            PROVE  /\ Metadata(ledger'[i]) = Metadata(ledger[i])
                   /\ ledger'[i] # ledger[i] => Clears(e, ledger[i])
        BY <3>2, <3>3, RecordedKeeps
      <3>5. e.kind = "CASE" => /\ Recorded(e, e).kind = "CASE" /\ Recorded(e, e).act = e.act
                               /\ Recorded(e, e).subject = e.subject
        BY RecordedKeeps
      <3> QED
        BY <3>3, <3>4, <3>5 DEF Clears
    <2> QED
      BY <2>1, <2>2, OnlyCommits
  <1> QED
    BY <1>1, Invariance, PTL DEF Spec, AppendOnly

-----------------------------------------------------------------------------
(* What a decision under the head knows of the case it is about *)

(* The entry is the next revision of its case: an act offered and admitted on
   the row it read, under a reference nobody has, if it opens the case. *)
NextRevision(e) ==
  /\ \E p \in e.payload :
       LET before == cases[e.subject].snapshot
           act    == p.identity.act
       IN  /\ e.payload = {p}
           /\ e.act = act.kind
           /\ e.revision = before.revision + 1
           /\ Refusal(e.day, act, p.identity.expected, before) = "NONE"
           /\ p.snapshot = After(act, before)
           /\ p.snapshot.revision = e.revision
           /\ before.state # "ERASED"
           /\ p.snapshot.state = "ERASED" <=> e.act = "ERASE"
  /\ e.act = "OPEN" =>
       e.reference # NoReference /\ \A c \in Operations : cases[c].reference # e.reference
  /\ e.act # "OPEN" => cases[e.subject] # NoRow

LEMMA CaseEntryIsNext ==
  ASSUME LedgerInv, NEW r \in Requests, r.kind = "CASE", NEW day \in Days,
         CaseVerdict(r, day) = "PROCEED"
  PROVE  NextRevision(CaseEntry(r, day))
  <1> DEFINE c      == CaseOf(r)
             before == Current(r)
             after  == After(r.act, before)
             id     == CaseIdentity(r)
             e      == CaseEntry(r, day)
             p      == [identity |-> id, snapshot |-> after]
  <1>1. r.act \in Acts /\ c \in Operations
    BY RequestTypes, CaseOfType
  <1>2. Refusal(day, r.act, r.expected, before) = "NONE"
    BY CaseProceeds
  <1>3. /\ before = cases[c].snapshot /\ Proper(before)
        /\ r.act.kind = "OPEN" => /\ Found(r.target) = {}
                                  /\ r.target.by = "REFERENCE"
                                  /\ r.target.reference \in References
        /\ r.act.kind # "OPEN" => cases[c] # NoRow
    BY CaseActTarget
  <1>4. after.revision = before.revision + 1
    BY <1>1, <1>2, <1>3, DecisionIsProper
  <1>5. /\ e.subject = c /\ e.act = r.act.kind /\ e.revision = after.revision /\ e.day = day
        /\ e.payload = {p} /\ e.reference = id.reference
        /\ id.act = r.act /\ id.expected = r.expected
        /\ id.reference = IF r.act.kind = "OPEN" THEN r.target.reference ELSE NoReference
    BY DEF CaseEntry, CaseIdentity
  <1>6. before.state # "ERASED"
    BY <1>2 DEF Refusal
  <1>7. after.state = "ERASED" <=> r.act.kind = "ERASE"
    <2>1. before.state = "ABSENT" => r.act.kind = "OPEN"
      BY <1>2 DEF Refusal
    <2> QED
      BY <1>6, <2>1 DEF After, StateAfter
  <1>8. ASSUME r.act.kind = "OPEN", NEW d \in Operations PROVE cases[d].reference # e.reference
    <2>1. e.reference = r.target.reference /\ e.reference # NoReference
      BY <1>3, <1>5, <1>8, RegisterAssumption
    <2>2. cases[d].reference = e.reference => cases[d] # NoRow
      BY <2>1 DEF NoRow
    <2> QED
      BY <1>3, <1>8, <2>1, <2>2 DEF Found
  <1>9. r.act.kind = "OPEN" => e.reference # NoReference
    BY <1>3, <1>5, RegisterAssumption
  <1> HIDE DEF after, before, c, id, e
  <1>10. /\ p \in e.payload /\ e.payload = {p}
         /\ p.snapshot = after /\ p.identity.act = r.act /\ p.identity.expected = r.expected
         /\ cases[e.subject].snapshot = before
    BY <1>3, <1>5
  <1>11. /\ e.act = p.identity.act.kind
         /\ e.revision = cases[e.subject].snapshot.revision + 1
         /\ Refusal(e.day, p.identity.act, p.identity.expected, cases[e.subject].snapshot) = "NONE"
         /\ p.snapshot = After(p.identity.act, cases[e.subject].snapshot)
         /\ p.snapshot.revision = e.revision
         /\ cases[e.subject].snapshot.state # "ERASED"
         /\ p.snapshot.state = "ERASED" <=> e.act = "ERASE"
    <2>1. after = After(r.act, before)
      BY DEF after
    <2> QED
      BY <1>2, <1>4, <1>5, <1>6, <1>7, <1>10, <2>1
  <1>12. e.act # "OPEN" => cases[e.subject] # NoRow
    BY <1>3, <1>5
  <1>13. NextRevision(e)
    BY <1>5, <1>8, <1>9, <1>10, <1>11, <1>12 DEF NextRevision
  <1> QED
    BY <1>13 DEF e

-----------------------------------------------------------------------------
(* Last entries *)

Changes(a) ==
  {i \in DOMAIN ledger : ledger[i].kind = "AUTHORITY" /\ ledger[i].subject = a}

HasLast(S) == S # {} => \E i \in S : \A j \in S : j <= i

(* Lookups only ever grow at the end, so the last of them can be read. *)
LastsExist ==
  /\ \A c \in Operations : HasLast(CaseEntries(c))
  /\ \A a \in Actors : HasLast(Changes(a))

LEMMA LastOfFacts ==
  ASSUME NEW S, S # {}, HasLast(S), \A i \in S : i \in Nat
  PROVE  LastOf(S) \in S /\ \A j \in S : j <= LastOf(S)
  BY DEF LastOf, HasLast

LEMMA LastOfGrown ==
  ASSUME NEW n \in Nat, NEW S \in SUBSET (1 .. n)
  PROVE  HasLast(S \cup {n + 1}) /\ LastOf(S \cup {n + 1}) = n + 1
  <1>1. \A j \in S \cup {n + 1} : j <= n + 1
    OBVIOUS
  <1>2. \A i \in S \cup {n + 1} : (\A j \in S \cup {n + 1} : j <= i) => i = n + 1
    OBVIOUS
  <1> QED
    BY <1>1, <1>2 DEF HasLast, LastOf

LEMMA CommitGrows ==
  ASSUME LedgerTyped, NEW e \in EntryShapes, Commit(e)
  PROVE  LET n == Len(ledger)
         IN  /\ \A c \in Operations :
                  /\ CaseEntries(c) \subseteq 1 .. n
                  /\ CaseEntries(c)' = CaseEntries(c) \cup
                       (IF e.kind = "CASE" /\ e.subject = c THEN {n + 1} ELSE {})
             /\ \A a \in Actors :
                  /\ Changes(a) \subseteq 1 .. n
                  /\ Changes(a)' = Changes(a) \cup
                       (IF e.kind = "AUTHORITY" /\ e.subject = a THEN {n + 1} ELSE {})
  <1>1. /\ Len(ledger) \in Nat
        /\ DOMAIN ledger = 1 .. Len(ledger) /\ DOMAIN ledger' = 1 .. Len(ledger) + 1
        /\ \A i \in DOMAIN ledger : ledger'[i] = Recorded(e, ledger[i]) /\ ledger[i] \in EntryShapes
        /\ ledger'[Len(ledger) + 1] = Recorded(e, e)
    BY CommitRecords DEF LedgerTyped
  <1>2. \A d \in EntryShapes :
          /\ Recorded(e, d).kind = d.kind
          /\ d.kind \in {"CASE", "AUTHORITY"} => Recorded(e, d).subject = d.subject
    BY RecordedKeeps
  <1>3. \A i \in DOMAIN ledger :
          /\ ledger'[i].kind = ledger[i].kind
          /\ ledger[i].kind \in {"CASE", "AUTHORITY"} => ledger'[i].subject = ledger[i].subject
    BY <1>1, <1>2
  <1>4. /\ ledger'[Len(ledger) + 1].kind = e.kind
        /\ e.kind \in {"CASE", "AUTHORITY"} => ledger'[Len(ledger) + 1].subject = e.subject
    BY <1>1, <1>2
  <1> QED
    BY <1>1, <1>3, <1>4 DEF CaseEntries, Changes

LEMMA CommitKeepsLasts ==
  ASSUME LedgerTyped, LastsExist, NEW e \in EntryShapes, Commit(e)
  PROVE  LastsExist'
  <1> DEFINE n == Len(ledger)
  <1>1. n \in Nat
    BY DEF LedgerTyped
  <1>2. ASSUME NEW c \in Operations PROVE HasLast(CaseEntries(c)')
    <2>1. CaseEntries(c) \in SUBSET (1 .. n) /\ HasLast(CaseEntries(c))
      BY CommitGrows DEF LastsExist
    <2>2. CaseEntries(c)' \in {CaseEntries(c), CaseEntries(c) \cup {n + 1}}
      BY CommitGrows
    <2>3. HasLast(CaseEntries(c) \cup {n + 1})
      BY <1>1, <2>1, LastOfGrown
    <2> QED
      BY <2>1, <2>2, <2>3
  <1>3. ASSUME NEW a \in Actors PROVE HasLast(Changes(a)')
    <2>1. Changes(a) \in SUBSET (1 .. n) /\ HasLast(Changes(a))
      BY CommitGrows DEF LastsExist
    <2>2. Changes(a)' \in {Changes(a), Changes(a) \cup {n + 1}}
      BY CommitGrows
    <2>3. HasLast(Changes(a) \cup {n + 1})
      BY <1>1, <2>1, LastOfGrown
    <2> QED
      BY <2>1, <2>2, <2>3
  <1> QED
    BY <1>2, <1>3 DEF LastsExist, HasLast

-----------------------------------------------------------------------------
(* A commit and the projections *)

(* What a case entry leaves of its row. *)
LEMMA CommitProjects ==
  ASSUME LedgerInv, NEW e \in EntryShapes, e.kind = "CASE", NextRevision(e), Commit(e)
  PROVE  LET s == e.subject
         IN  /\ s \in Operations
             /\ \A c \in Operations : c # s => cases'[c] = cases[c]
             /\ cases'[s].reference =
                  IF e.act = "OPEN" THEN e.reference ELSE cases[s].reference
             /\ \E p \in e.payload : e.payload = {p} /\ cases'[s].snapshot = p.snapshot
             /\ cases'[s].snapshot.revision = e.revision
             /\ cases[s].snapshot.state # "ERASED"
             /\ cases'[s].snapshot.state = "ERASED" <=> e.act = "ERASE"
  <1>1. PICK p \in e.payload :
          /\ e.payload = {p}
          /\ p.snapshot.revision = e.revision
          /\ cases[e.subject].snapshot.state # "ERASED"
          /\ p.snapshot.state = "ERASED" <=> e.act = "ERASE"
    BY DEF NextRevision
  <1>2. SnapshotOf(e) = p.snapshot
    BY <1>1 DEF SnapshotOf
  <1>3. cases' = [cases EXCEPT ![e.subject] =
                    [reference |-> IF e.act = "OPEN" THEN e.reference ELSE @.reference,
                     snapshot  |-> p.snapshot]]
    BY <1>2 DEF Commit, ProjectCase
  <1>4. e.subject \in Operations /\ DOMAIN cases = Operations
    BY EntryTypes DEF LedgerInv, LedgerTyped
  <1> QED
    BY <1>1, <1>3, <1>4

(* The two halves of ProjectionsAgree that look at a last entry. *)
RowAgrees(c) ==
  /\ CaseEntries(c) = {} => cases[c] = NoRow
  /\ CaseEntries(c) # {} =>
       LET e == ledger[LastOf(CaseEntries(c))]
       IN  /\ cases[c].snapshot.revision = e.revision
           /\ \A p \in e.payload : cases[c].snapshot = p.snapshot
           /\ cases[c].snapshot.state = "ERASED" <=> e.payload = {}

ActorAgrees(a) ==
  /\ Changes(a) = {} => enabled[a] = TRUE
  /\ Changes(a) # {} => enabled[a] = (ledger[LastOf(Changes(a))].change = "ENABLE")

LEMMA AgreementInParts ==
  ProjectionsAgree <=> /\ \A c \in Operations : RowAgrees(c)
                       /\ FencesAreControls
                       /\ \A a \in Actors : ActorAgrees(a)
  BY DEF ProjectionsAgree, RowAgrees, ActorAgrees, Changes, FencesAreControls

LEMMA CommitKeepsRows ==
  ASSUME LedgerInv, LastsExist, NEW c \in Operations, RowAgrees(c),
         NEW e \in EntryShapes, e.kind = "CASE" => NextRevision(e), Commit(e)
  PROVE  RowAgrees(c)'
  <1> DEFINE n == Len(ledger)
  <1>1. /\ n \in Nat
        /\ \A i \in 1 .. n : ledger'[i] = Recorded(e, ledger[i]) /\ ledger[i] \in EntryShapes
        /\ ledger'[n + 1] = Recorded(e, e)
    BY CommitRecords DEF LedgerInv, LedgerTyped
  <1>2. /\ CaseEntries(c) \subseteq 1 .. n
        /\ HasLast(CaseEntries(c))
        /\ CaseEntries(c)' = CaseEntries(c) \cup
             (IF e.kind = "CASE" /\ e.subject = c THEN {n + 1} ELSE {})
    BY CommitGrows DEF LedgerInv, LastsExist
  <1>3. CASE e.kind = "CASE" /\ e.subject = c
    <2>1. LastOf(CaseEntries(c)') = n + 1 /\ CaseEntries(c)' # {}
      BY <1>1, <1>2, <1>3, LastOfGrown
    <2>2. /\ ledger'[n + 1].revision = e.revision
          /\ ledger'[n + 1].payload = IF e.act = "ERASE" THEN {} ELSE e.payload
      BY <1>1, <1>3, RecordedKeeps DEF Clears
    <2>3. /\ \E p \in e.payload : e.payload = {p} /\ cases'[c].snapshot = p.snapshot
          /\ cases'[c].snapshot.revision = e.revision
          /\ cases'[c].snapshot.state = "ERASED" <=> e.act = "ERASE"
      BY <1>3, CommitProjects
    <2> QED
      BY <2>1, <2>2, <2>3 DEF RowAgrees
  <1>4. CASE ~ (e.kind = "CASE" /\ e.subject = c)
    <2>1. CaseEntries(c)' = CaseEntries(c)
      BY <1>2, <1>4
    <2>2. cases'[c] = cases[c]
      BY <1>4, CommitProjects DEF Commit, ProjectCase
    <2>3. CASE CaseEntries(c) = {}
      BY <2>1, <2>2, <2>3 DEF RowAgrees, NoRow
    <2>4. CASE CaseEntries(c) # {}
      <3>1. LastOf(CaseEntries(c)) \in CaseEntries(c)
        BY <1>2, <2>4, LastOfFacts
      <3> DEFINE d == ledger[LastOf(CaseEntries(c))]
      <3>2. /\ d \in EntryShapes /\ d.kind = "CASE" /\ d.subject = c
            /\ ledger'[LastOf(CaseEntries(c)')] = Recorded(e, d)
        BY <1>1, <1>2, <2>1, <3>1 DEF CaseEntries
      <3>3. /\ Recorded(e, d).revision = d.revision
            /\ Recorded(e, d).payload = d.payload
        BY <1>4, <3>2, RecordedKeeps DEF Clears
      <3> QED
        BY <2>1, <2>2, <2>4, <3>2, <3>3 DEF RowAgrees
    <2> QED
      BY <2>3, <2>4
  <1> QED
    BY <1>3, <1>4

LEMMA CommitKeepsActors ==
  ASSUME LedgerInv, LastsExist, NEW a \in Actors, ActorAgrees(a),
         NEW e \in EntryShapes, Commit(e)
  PROVE  ActorAgrees(a)'
  <1> DEFINE n == Len(ledger)
  <1>1. /\ n \in Nat /\ enabled \in [Actors -> BOOLEAN]
        /\ \A i \in 1 .. n : ledger'[i] = Recorded(e, ledger[i]) /\ ledger[i] \in EntryShapes
        /\ ledger'[n + 1] = Recorded(e, e)
    BY CommitRecords DEF LedgerInv, LedgerTyped
  <1>2. /\ Changes(a) \subseteq 1 .. n
        /\ HasLast(Changes(a))
        /\ Changes(a)' = Changes(a) \cup
             (IF e.kind = "AUTHORITY" /\ e.subject = a THEN {n + 1} ELSE {})
    BY CommitGrows DEF LedgerInv, LastsExist
  <1>3. CASE e.kind = "AUTHORITY" /\ e.subject = a
    <2>1. LastOf(Changes(a)') = n + 1 /\ Changes(a)' # {}
      BY <1>1, <1>2, <1>3, LastOfGrown
    <2>2. ledger'[n + 1] = e
      BY <1>1, <1>3, RecordedKeeps
    <2>3. enabled'[a] = (e.change = "ENABLE")
      BY <1>1, <1>3 DEF Commit
    <2> QED
      BY <2>1, <2>2, <2>3 DEF ActorAgrees
  <1>4. CASE ~ (e.kind = "AUTHORITY" /\ e.subject = a)
    <2>1. Changes(a)' = Changes(a) /\ enabled'[a] = enabled[a]
      BY <1>1, <1>2, <1>4 DEF Commit
    <2>2. CASE Changes(a) = {}
      BY <2>1, <2>2 DEF ActorAgrees
    <2>3. CASE Changes(a) # {}
      <3>1. LastOf(Changes(a)) \in Changes(a)
        BY <1>2, <2>3, LastOfFacts
      <3> DEFINE d == ledger[LastOf(Changes(a))]
      <3>2. /\ d \in EntryShapes /\ d.kind = "AUTHORITY"
            /\ ledger'[LastOf(Changes(a)')] = Recorded(e, d)
        BY <1>1, <1>2, <2>1, <3>1 DEF Changes
      <3>3. Recorded(e, d) = d
        BY <3>2, RecordedKeeps
      <3> QED
        BY <2>1, <2>3, <3>2, <3>3 DEF ActorAgrees
    <2> QED
      BY <2>2, <2>3
  <1> QED
    BY <1>3, <1>4

-----------------------------------------------------------------------------
(* A commit and erasure *)

LEMMA CommitKeepsErasure ==
  ASSUME LedgerInv, ProjectionsAgree, ErasureIsComplete,
         NEW e \in EntryShapes, e.kind = "CASE" => NextRevision(e), Commit(e)
  PROVE  ErasureIsComplete'
  <1> DEFINE n == Len(ledger)
             s == e.subject
  <1>1. /\ n \in Nat /\ DOMAIN ledger = 1 .. n /\ DOMAIN ledger' = 1 .. n + 1
        /\ \A i \in 1 .. n : ledger'[i] = Recorded(e, ledger[i]) /\ ledger[i] \in EntryShapes
        /\ ledger'[n + 1] = Recorded(e, e)
    BY CommitRecords DEF LedgerInv, LedgerTyped
  <1>2. \A c \in Operations : CaseEntries(c)' = CaseEntries(c) \cup
                                (IF e.kind = "CASE" /\ s = c THEN {n + 1} ELSE {})
    BY CommitGrows DEF LedgerInv
  <1>3. CASE e.kind # "CASE"
    <2>1. cases' = cases /\ \A c \in Operations : CaseEntries(c)' = CaseEntries(c)
      BY <1>2, <1>3 DEF Commit, ProjectCase
    <2>2. /\ \A i \in 1 .. n : ledger'[i] = ledger[i]
          /\ ledger'[n + 1] = e
      BY <1>1, <1>3 DEF Recorded, Clears
    <2> QED
      BY <1>1, <1>3, <2>1, <2>2 DEF ErasureIsComplete
  <1>4. CASE e.kind = "CASE"
    <2>1. /\ s \in Operations
          /\ \A c \in Operations : c # s => cases'[c] = cases[c]
          /\ cases'[s].reference = IF e.act = "OPEN" THEN e.reference ELSE cases[s].reference
          /\ cases[s].snapshot.state # "ERASED"
          /\ cases'[s].snapshot.state = "ERASED" <=> e.act = "ERASE"
          /\ e.payload # {}
      BY <1>4, CommitProjects
    <2>2. /\ e.act = "OPEN" =>
               e.reference # NoReference /\ \A c \in Operations : cases[c].reference # e.reference
          /\ e.act # "OPEN" => cases[s] # NoRow
      BY <1>4 DEF NextRevision
    <2>3. ASSUME NEW i \in DOMAIN ledger', ledger'[i].kind = "CASE"
          PROVE  ledger'[i].payload = {} <=> cases'[ledger'[i].subject].snapshot.state = "ERASED"
      <3>1. CASE i = n + 1
        <4>1. /\ ledger'[i].subject = s
              /\ ledger'[i].payload = IF e.act = "ERASE" THEN {} ELSE e.payload
          BY <1>1, <1>4, <3>1, RecordedKeeps DEF Clears
        <4> QED
          BY <2>1, <4>1
      <3>2. CASE i \in 1 .. n
        <4> DEFINE d == ledger[i]
        <4>1. d \in EntryShapes /\ ledger'[i] = Recorded(e, d)
          BY <1>1, <3>2
        <4>2. /\ d.kind = "CASE" /\ ledger'[i].subject = d.subject
              /\ ledger'[i].payload = IF Clears(e, d) THEN {} ELSE d.payload
          BY <2>3, <4>1, RecordedKeeps
        <4>3. d.payload = {} <=> cases[d.subject].snapshot.state = "ERASED"
          BY <1>1, <3>2, <4>2 DEF ErasureIsComplete
        <4>4. d.subject \in Operations
          BY <4>1, <4>2, EntryTypes
        <4>5. CASE d.subject = s
          BY <1>4, <2>1, <4>2, <4>3, <4>5 DEF Clears
        <4>6. CASE d.subject # s
          BY <2>1, <4>2, <4>3, <4>4, <4>6 DEF Clears
        <4> QED
          BY <4>5, <4>6
      <3> QED
        BY <1>1, <3>1, <3>2
    <2>4. ASSUME NEW c \in Operations, CaseEntries(c)' # {}
          PROVE  cases'[c].reference # NoReference
      <3>1. CASE c # s
        BY <1>2, <2>1, <2>4, <3>1 DEF ErasureIsComplete
      <3>2. CASE c = s
        <4>1. cases[s] # NoRow => CaseEntries(s) # {}
          BY <2>1 DEF ProjectionsAgree
        <4>2. cases[s] # NoRow => cases[s].reference # NoReference
          BY <2>1, <4>1 DEF ErasureIsComplete
        <4> QED
          BY <2>1, <2>2, <3>2, <4>2
      <3> QED
        BY <3>1, <3>2
    <2>5. ASSUME NEW c \in Operations, NEW d \in Operations,
                 cases'[c].reference = cases'[d].reference, c # d
          PROVE  cases'[c].reference = NoReference
      <3>1. \A b, f \in Operations :
              cases[b].reference = cases[f].reference /\ b # f => cases[b].reference = NoReference
        BY DEF ErasureIsComplete
      <3>2. CASE c # s /\ d # s
        BY <2>1, <2>5, <3>1, <3>2
      <3>3. CASE c = s
        BY <2>1, <2>2, <2>5, <3>1, <3>3
      <3>4. CASE d = s
        BY <2>1, <2>2, <2>5, <3>1, <3>4
      <3> QED
        BY <3>2, <3>3, <3>4
    <2> QED
      BY <2>3, <2>4, <2>5 DEF ErasureIsComplete
  <1> QED
    BY <1>3, <1>4

-----------------------------------------------------------------------------
(* A commit and the history of a case *)

Retained(c) ==
  {Absent} \cup {q.snapshot : q \in UNION {ledger[j].payload : j \in CaseEntries(c)}}

Follows(d, p, before) ==
  /\ before.revision = d.revision - 1
  /\ Refusal(d.day, p.identity.act, p.identity.expected, before) = "NONE"
  /\ p.snapshot = After(p.identity.act, before)

LEMMA CommitKeepsHistory ==
  ASSUME LedgerInv, LastsExist, ProjectionsAgree, HistoryReplays,
         NEW e \in EntryShapes, e.kind = "CASE" => NextRevision(e), Commit(e)
  PROVE  HistoryReplays'
  <1> DEFINE n == Len(ledger)
  <1> SUFFICES ASSUME NEW c \in Operations, NEW i \in CaseEntries(c)', NEW p \in ledger'[i].payload
               PROVE  \E before \in Retained(c)' : Follows(ledger'[i], p, before)
    BY DEF HistoryReplays, Retained, Follows
  <1>1. /\ n \in Nat
        /\ \A j \in 1 .. n : ledger'[j] = Recorded(e, ledger[j]) /\ ledger[j] \in EntryShapes
        /\ ledger'[n + 1] = Recorded(e, e)
    BY CommitRecords DEF LedgerInv, LedgerTyped
  <1>2. /\ CaseEntries(c) \subseteq 1 .. n
        /\ HasLast(CaseEntries(c))
        /\ CaseEntries(c)' = CaseEntries(c) \cup
             (IF e.kind = "CASE" /\ e.subject = c THEN {n + 1} ELSE {})
    BY CommitGrows DEF LedgerInv, LastsExist
  <1>3. ASSUME NEW j \in CaseEntries(c)
        PROVE  /\ ledger[j].kind = "CASE" /\ ledger[j].subject = c
               /\ ledger'[j].revision = ledger[j].revision /\ ledger'[j].day = ledger[j].day
               /\ ledger'[j].payload = IF e.kind = "CASE" /\ e.act = "ERASE" /\ e.subject = c
                                       THEN {} ELSE ledger[j].payload
    <2>1. ledger[j].kind = "CASE" /\ ledger[j].subject = c
      BY DEF CaseEntries
    <2>2. ledger[j] \in EntryShapes /\ ledger'[j] = Recorded(e, ledger[j])
      BY <1>1, <1>2
    <2> QED
      BY <2>1, <2>2, RecordedKeeps DEF Clears
  <1>4. e.kind = "CASE" =>
          /\ ledger'[n + 1].revision = e.revision /\ ledger'[n + 1].day = e.day
          /\ ledger'[n + 1].payload = IF e.act = "ERASE" THEN {} ELSE e.payload
    BY <1>1, RecordedKeeps DEF Clears
  <1>5. ~ (e.kind = "CASE" /\ e.act = "ERASE" /\ e.subject = c)
    <2> SUFFICES ASSUME e.kind = "CASE", e.act = "ERASE", e.subject = c PROVE FALSE
      OBVIOUS
    <2>1. CASE i = n + 1
      BY <1>4, <2>1
    <2>2. CASE i \in CaseEntries(c)
      BY <1>3, <2>2
    <2> QED
      BY <1>2, <2>1, <2>2
  <1>6. \A j \in CaseEntries(c) : ledger'[j].payload = ledger[j].payload
    BY <1>3, <1>5
  <1>7. Retained(c) \subseteq Retained(c)'
    BY <1>2, <1>6 DEF Retained
  <1>8. CASE i \in CaseEntries(c)
    <2>1. p \in ledger[i].payload
      BY <1>6, <1>8
    <2>2. \E before \in Retained(c) : Follows(ledger[i], p, before)
      BY <1>8, <2>1 DEF HistoryReplays, Retained, Follows
    <2> QED
      BY <1>3, <1>7, <1>8, <2>2 DEF Follows
  <1>9. CASE i = n + 1 /\ e.kind = "CASE" /\ e.subject = c
    <2> DEFINE before == cases[c].snapshot
    <2>1. /\ e.payload = {p}
          /\ e.revision = before.revision + 1
          /\ Refusal(e.day, p.identity.act, p.identity.expected, before) = "NONE"
          /\ p.snapshot = After(p.identity.act, before)
          /\ before.state # "ERASED"
      BY <1>4, <1>5, <1>9 DEF NextRevision
    <2>2. before.revision \in Nat
      BY DEF LedgerInv, LedgerTyped, Snapshot, Absent
    <2>3. Follows(ledger'[i], p, before)
      BY <1>4, <1>9, <2>1, <2>2 DEF Follows
    <2>4. before \in Retained(c)
      <3>1. CASE CaseEntries(c) = {}
        BY <3>1 DEF ProjectionsAgree, NoRow, Retained
      <3>2. CASE CaseEntries(c) # {}
        <4>1. LastOf(CaseEntries(c)) \in CaseEntries(c)
          BY <1>2, <3>2, LastOfFacts
        <4>2. RowAgrees(c)
          BY AgreementInParts
        <4>3. /\ \A q \in ledger[LastOf(CaseEntries(c))].payload : before = q.snapshot
              /\ ledger[LastOf(CaseEntries(c))].payload # {}
          BY <2>1, <3>2, <4>2 DEF RowAgrees
        <4> QED
          BY <4>1, <4>3 DEF Retained
      <3> QED
        BY <3>1, <3>2
    <2> QED
      BY <1>7, <2>3, <2>4
  <1> QED
    BY <1>2, <1>8, <1>9

-----------------------------------------------------------------------------
(* The invariant *)

HistoryInv ==
  /\ LastsExist
  /\ ProjectionsAgree
  /\ ErasureIsComplete
  /\ HistoryReplays
  /\ \A w \in Workers :
       work[w].phase = "COMMITTING" /\ work[w].entry.kind = "CASE" => NextRevision(work[w].entry)

LEMMA HistoryStarts == Init => HistoryInv
  <1> SUFFICES ASSUME Init PROVE HistoryInv
    OBVIOUS
  <1>1. ledger = <<>> /\ DOMAIN ledger = {}
    BY DEF Init
  <1>2. /\ \A c \in Operations : CaseEntries(c) = {}
        /\ \A a \in Actors : Changes(a) = {}
        /\ \A a \in Actors, op \in Operations : Controls(a, op) = {}
    BY <1>1 DEF CaseEntries, Changes, Controls
  <1>3. LastsExist /\ HistoryReplays
    BY <1>2 DEF LastsExist, HasLast, HistoryReplays
  <1>4. ProjectionsAgree
    BY <1>2, AgreementInParts DEF Init, RowAgrees, ActorAgrees, FencesAreControls
  <1>5. ErasureIsComplete
    BY <1>1, <1>2 DEF Init, ErasureIsComplete, NoRow
  <1>6. \A w \in Workers : work[w].phase # "COMMITTING"
    BY DEF Init, Idle
  <1> QED
    BY <1>3, <1>4, <1>5, <1>6 DEF HistoryInv

LEMMA HistoryPreserved == IInv /\ HistoryInv /\ [Next]_vars => HistoryInv'
  <1> SUFFICES ASSUME IInv, HistoryInv, [Next]_vars PROVE HistoryInv'
    OBVIOUS
  <1>1. work \in [Workers -> WorkShapes]
    BY DEF IInv, ServiceTyped
  <1>2. CASE \E w \in Workers : CommitApplied(w)
    <2>1. PICK w \in Workers : CommitApplied(w)
      BY <1>2
    <2> DEFINE e == work[w].entry
    <2>2. /\ work[w].phase = "COMMITTING" /\ Pending(e) /\ lock = w /\ e \in EntryShapes
      BY <2>1, WorkTypes DEF CommitApplied, IInv, Holds
    <2>3. Commit(e) /\ (e.kind = "CASE" => NextRevision(e))
      BY <2>1, <2>2, DecidedExtends DEF CommitApplied, HistoryInv
    <2> HIDE DEF e
    <2>4. LedgerInv /\ LedgerTyped /\ LedgerInv'
      BY <2>2, <2>3, CommitPreserves DEF IInv, LedgerInv
    <2>5. LastsExist'
      BY <2>2, <2>3, <2>4, CommitKeepsLasts DEF HistoryInv
    <2>6. \A c \in Operations : RowAgrees(c)'
      BY <2>2, <2>3, <2>4, CommitKeepsRows, AgreementInParts DEF HistoryInv
    <2>7. \A a \in Actors : ActorAgrees(a)'
      BY <2>2, <2>3, <2>4, CommitKeepsActors, AgreementInParts DEF HistoryInv
    <2>8. ProjectionsAgree'
      BY <2>4, <2>6, <2>7
      DEF LedgerInv, ProjectionsAgree, RowAgrees, ActorAgrees, Changes, FencesAreControls
    <2>9. ErasureIsComplete' /\ HistoryReplays'
      BY <2>2, <2>3, <2>4, CommitKeepsErasure, CommitKeepsHistory DEF HistoryInv
    <2>10. ASSUME NEW v \in Workers PROVE work'[v].phase # "COMMITTING"
      <3>1. CASE v = w
        BY <1>1, <2>1, <3>1 DEF CommitApplied, Answering
      <3>2. CASE v # w
        BY <1>1, <2>1, <2>2, <3>2 DEF CommitApplied, IInv, Holds
      <3> QED
        BY <3>1, <3>2
    <2> QED
      BY <2>5, <2>8, <2>9, <2>10 DEF HistoryInv
  <1>3. CASE ~ \E w \in Workers : CommitApplied(w)
    <2>1. UNCHANGED <<ledger, cases, fences, enabled>>
      BY <1>3, OnlyCommits DEF register
    <2>2. LastsExist' /\ ProjectionsAgree' /\ ErasureIsComplete' /\ HistoryReplays'
      <3>1. LastsExist'
        BY <2>1 DEF HistoryInv, LastsExist, HasLast, CaseEntries, Changes
      <3>2. ProjectionsAgree'
        <4>1. \A c \in Operations : RowAgrees(c)'
          BY <2>1, AgreementInParts DEF HistoryInv, RowAgrees, CaseEntries, NoRow
        <4>2. \A a \in Actors : ActorAgrees(a)'
          BY <2>1, AgreementInParts DEF HistoryInv, ActorAgrees, Changes
        <4>3. FencesAreControls'
          BY <2>1, AgreementInParts DEF HistoryInv, FencesAreControls, Controls
        <4> QED
          BY <4>1, <4>2, <4>3
          DEF ProjectionsAgree, RowAgrees, ActorAgrees, Changes, FencesAreControls
      <3>3. ErasureIsComplete'
        BY <2>1 DEF HistoryInv, ErasureIsComplete, CaseEntries
      <3>4. HistoryReplays'
        BY <2>1 DEF HistoryInv, HistoryReplays, CaseEntries
      <3> QED
        BY <3>1, <3>2, <3>3, <3>4
    <2>3. ASSUME NEW v \in Workers, work'[v].phase = "COMMITTING", work'[v].entry.kind = "CASE"
          PROVE  NextRevision(work'[v].entry)
      <3>1. CASE work'[v] = work[v]
        BY <2>3, <3>1 DEF HistoryInv
      <3>2. CASE Decide(v)
        <4>1. /\ work[v].request \in Requests /\ work[v].request.kind # "STATUS"
              /\ work[v].phase = "HOLDING" /\ work[v].day \in Days
          BY <3>2, WorkTypes DEF Decide, IInv, Holds
        <4>2. /\ Verdict(work[v].request, work[v].day) = "PROCEED"
              /\ work'[v].entry = Entry(work[v].request, work[v].day)
          BY <1>1, <2>3, <3>2 DEF Decide, Committing, Answering
        <4>3. work[v].request.kind = "CASE"
          BY <2>3, <4>2 DEF Entry
        <4>4. /\ CaseVerdict(work[v].request, work[v].day) = "PROCEED"
              /\ work'[v].entry = CaseEntry(work[v].request, work[v].day)
          BY <4>2, <4>3 DEF Verdict, Entry
        <4> QED
          BY <4>1, <4>3, <4>4, CaseEntryIsNext DEF IInv
      <3>3. CASE work'[v] # work[v] /\ ~ Decide(v)
        BY <1>1, <1>3, <2>3, <3>3
        DEF Next, Serve, Receive, Begin, Decide, CommitLost, Abandon, Status, Answer, LoseAnswer,
            EnterMaintenance, ResumeRegister, vars, Idle, Waiting, Holding, Answering
      <3> QED
        BY <3>1, <3>2, <3>3
    <2> QED
      BY <2>1, <2>2, <2>3 DEF HistoryInv, NextRevision, NoRow
  <1> QED
    BY <1>2, <1>3

LEMMA HistoryInvariance == Spec => []HistoryInv
  BY HistoryStarts, HistoryPreserved, InitEstablishes, NextPreserves, PTL DEF Spec

-----------------------------------------------------------------------------
(* Results *)

(* Every retained change of a case was offered, admitted and proposed by
   Case.decide on the state the change before it left. *)
THEOREM HistoriesReplay == Spec => []HistoryReplays
  <1>1. HistoryInv => HistoryReplays
    BY DEF HistoryInv
  <1> QED
    BY <1>1, HistoryInvariance, PTL

(* The rows WriteTx projects are what the ledger's last entries say. *)
THEOREM ProjectionsAgreeHolds == Spec => []ProjectionsAgree
  <1>1. HistoryInv => ProjectionsAgree
    BY DEF HistoryInv
  <1> QED
    BY <1>1, HistoryInvariance, PTL

(* erase_case_payload leaves no payload of its case, takes none of another,
   and the case keeps its reference to itself. *)
THEOREM ErasureIsCompleteHolds == Spec => []ErasureIsComplete
  <1>1. HistoryInv => ErasureIsComplete
    BY DEF HistoryInv
  <1> QED
    BY <1>1, HistoryInvariance, PTL
=============================================================================
