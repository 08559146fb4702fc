------------------------------ MODULE Register ------------------------------
(***************************************************************************)
(* The register: one append-only ledger behind one head lock, the           *)
(* projections it is read through, and the requests that travel to it.      *)
(* Every write is one READ COMMITTED transaction that locks the ledger      *)
(* head, reads, decides, appends and projects, and commits or rolls back;   *)
(* its caller may time out, be cancelled or never hear the outcome, and may *)
(* send the same request again. Status reads a snapshot and takes no lock.  *)
(*                                                                          *)
(* Actors are registered people with fixed installation-wide grants; only   *)
(* enabling and disabling them is modelled here. The ledger is the part     *)
(* after their admission.                                                   *)
(***************************************************************************)
EXTENDS CaseRules, AuthorityRules, Sequences, FiniteSets

CONSTANTS Operations,    \* operation identities; a case is named by its OPEN operation
          Actors,        \* registered people
          Grants,        \* their installation roles
          References,    \* case references
          NoReference,
          Requests,      \* the requests clients may send, again and again
          Workers,       \* requests served at once
          NoWorker,
          MaxGeneration  \* bound on the maintenance periods of one behaviour

Targets ==
  [by : {"REFERENCE"}, reference : References] \cup [by : {"ID"}, id : Operations]

RequestShapes ==
  [kind : {"CASE"}, op : Operations, actor : Actors, target : Targets,
   expected : Nat, act : Acts]
    \cup [kind : {"AUTHORITY"}, op : Operations, actor : Actors, subject : Actors,
          change : {"ENABLE", "DISABLE"}]
    \cup [kind : {"RESOLVE", "STATUS"}, op : Operations, actor : Actors]

Owners == {a \in Actors : "OWNER" \in Grants[a]}

ASSUME RegisterAssumption ==
  /\ Grants \in [Actors -> SUBSET Roles]
  /\ IsFiniteSet(Actors) /\ Owners # {}
  /\ Requests \subseteq RequestShapes
  /\ NoReference \notin References
  /\ NoWorker \notin Workers
  /\ MaxGeneration \in Nat

VARIABLES ledger,        \* the accepted entries and retained controls, in order
          cases,         \* case projection
          fences,        \* final nonacceptance projection
          enabled,       \* actor projection
          maintenance,   \* whether writes are paused, and which pause it is
          lock,          \* the transaction that holds the ledger head
          work,          \* where each served request is
          told           \* every final answer a client received

register == <<ledger, cases, fences, enabled>>
vars     == <<register, maintenance, lock, work, told>>

NoRow == [reference |-> NoReference, snapshot |-> Absent]

(* Phases of a served request. *)
Idle                  == [phase |-> "IDLE"]
Waiting(r)            == [phase |-> "WAITING", request |-> r]
Holding(r, day)       == [phase |-> "HOLDING", request |-> r, day |-> day,
                          head |-> Len(ledger)]
Committing(r, e, pos) == [phase |-> "COMMITTING", request |-> r, entry |-> e,
                          position |-> pos]
Answering(r, answer)  == [phase |-> "ANSWERING", request |-> r, answer |-> answer]

Init ==
  /\ ledger = <<>>
  /\ cases = [c \in Operations |-> NoRow]
  /\ fences = {}
  /\ enabled = [a \in Actors |-> TRUE]
  /\ maintenance = [active |-> FALSE, generation |-> 0]
  /\ lock = NoWorker
  /\ work = [w \in Workers |-> Idle]
  /\ told = {}

-----------------------------------------------------------------------------
(* What a transaction reads *)

Accepted(op) == {i \in DOMAIN ledger : ledger[i].kind # "CONTROL" /\ ledger[i].op = op}

Controls(actor, op) ==
  {i \in DOMAIN ledger :
     ledger[i].kind = "CONTROL" /\ ledger[i].op = op /\ ledger[i].actor = actor}

AcceptedBy(actor, op) == {i \in Accepted(op) : ledger[i].actor = actor}

Fenced(actor, op) == <<actor, op>> \in fences

(* Authority.can for installation grants: a disabled actor can do nothing. *)
Can(actor, capability) == enabled[actor] /\ capability \in Held(Grants[actor])

Permitted(actor, act) == enabled[actor] /\ MayAct(Held(Grants[actor]), act)

(* ExecutionFacts.findCase: an erased case keeps its reference and is found. *)
Found(target) ==
  {c \in Operations :
     /\ cases[c] # NoRow
     /\ IF target.by = "ID" THEN c = target.id ELSE cases[c].reference = target.reference}

CaseOf(r) == IF Found(r.target) = {} THEN r.op ELSE CHOOSE c \in Found(r.target) : TRUE

Current(r) == cases[CaseOf(r)].snapshot

(* RequestRecord.identity: the content two submissions must share to be one
   operation. The spelling of an existing case's target and the author are
   not part of it. *)
CaseIdentity(r) ==
  [id |-> CaseOf(r), op |-> r.op, expected |-> r.expected, act |-> r.act,
   reference |-> IF r.act.kind = "OPEN" THEN r.target.reference ELSE NoReference]

AuthorityIdentity(r) == [op |-> r.op, subject |-> r.subject, change |-> r.change]

StoredIdentity(e) ==
  IF e.kind = "AUTHORITY"
  THEN {[op |-> e.op, subject |-> e.subject, change |-> e.change]}
  ELSE {p.identity : p \in e.payload}

CanObserve(actor, e) ==
  Can(actor, IF e.kind = "AUTHORITY" THEN "READ_AUTHORITY" ELSE "READ_HISTORY")

-----------------------------------------------------------------------------
(* Verdicts. "PROCEED" alone lets a transaction commit. *)

(* OperationIdentity.decide: an identity that was accepted before replays,
   conflicts, or is unreadable. A receipt names its reader as its author. *)
Replay(r, identity) ==
  LET e == ledger[CHOOSE i \in Accepted(r.op) : TRUE]
  IN  IF      ~ CanObserve(r.actor, e)       THEN "RESOURCE_UNAVAILABLE"
      ELSE IF StoredIdentity(e) = {}         THEN "RESOURCE_UNAVAILABLE"
      ELSE IF StoredIdentity(e) # {identity} THEN "IDEMPOTENCY_CONFLICT"
      ELSE IF e.actor # r.actor              THEN "STORE_INTEGRITY_ERROR"
      ELSE "ALREADY_ACCEPTED"

(* NonAcceptance.read, for a valid actor: the fence and an acceptance of the
   same author contradict each other. *)
Contradicted(r) ==
  enabled[r.actor] /\ Fenced(r.actor, r.op) /\ AcceptedBy(r.actor, r.op) # {}

(* CaseExecution.complete: permission, then a selector the act can use. *)
CompleteCase(r) ==
  /\ Permitted(r.actor, r.act)
  /\ r.act.kind = "OPEN" => r.target.by = "REFERENCE"
  /\ r.act.kind # "OPEN" => Found(r.target) # {}

(* Mutation: the expected revision is not compared. *)
CaseVerdict_AnyRevision(r, day) ==
  IF      ~ CompleteCase(r)   THEN "RESOURCE_UNAVAILABLE"
  ELSE IF Accepted(r.op) # {} THEN Replay(r, CaseIdentity(r))
  ELSE IF Refusal(day, r.act, Current(r).revision, Current(r)) # "NONE" THEN "NOT_OFFERED"
  ELSE "PROCEED"

CaseVerdict(r, day) ==
  LET refusal == Refusal(day, r.act, r.expected, Current(r))
  IN  IF      ~ CompleteCase(r)     THEN "RESOURCE_UNAVAILABLE"
      ELSE IF Contradicted(r)       THEN "STORE_INTEGRITY_ERROR"
      ELSE IF Accepted(r.op) # {}   THEN Replay(r, CaseIdentity(r))
      ELSE IF Fenced(r.actor, r.op) THEN "OPERATION_RESOLVED"
      ELSE IF maintenance.active    THEN "REGISTER_MAINTENANCE"
      ELSE IF refusal # "NONE"      THEN refusal ELSE "PROCEED"

EnabledOwners == {a \in Owners : enabled[a]}

(* Mutation: the count of owners is compared one too low. *)
LastOwner_OffByOne(r) ==
  r.change = "DISABLE" /\ r.subject \in EnabledOwners /\ Cardinality(EnabledOwners) < 1

(* Authority.disableChange counts the owners left. *)
LastOwner(r) ==
  /\ r.change = "DISABLE"
  /\ r.subject \in EnabledOwners
  /\ Cardinality(EnabledOwners) <= 1

AuthorityVerdict(r) ==
  IF      Contradicted(r)                    THEN "STORE_INTEGRITY_ERROR"
  ELSE IF ~ Can(r.actor, "MANAGE_AUTHORITY") THEN "RESOURCE_UNAVAILABLE"
  ELSE IF Accepted(r.op) # {}                THEN Replay(r, AuthorityIdentity(r))
  ELSE IF Fenced(r.actor, r.op)              THEN "OPERATION_RESOLVED"
  ELSE IF LastOwner(r)                       THEN "LAST_OWNER"
  ELSE IF maintenance.active                 THEN "REGISTER_MAINTENANCE"
  ELSE "PROCEED"

(* Mutations: a lookup ignores an acceptance; a lookup that finds nothing
   reports nonacceptance. *)
Recovered_OnlyFence(r) ==
  IF Fenced(r.actor, r.op) THEN "NOT_ACCEPTED" ELSE "UNRESOLVED"

Recovered_AbsenceIsFinal(r) ==
  IF AcceptedBy(r.actor, r.op) # {} THEN "ALREADY_ACCEPTED" ELSE "NOT_ACCEPTED"

(* Resolution.resolve and RecoveryStatus.outcome share what an author may
   learn; only a settlement that finds nothing appends. *)
Recovered(r) ==
  IF      Contradicted(r)                THEN "STORE_INTEGRITY_ERROR"
  ELSE IF ~ enabled[r.actor]             THEN "RESOURCE_UNAVAILABLE"
  ELSE IF AcceptedBy(r.actor, r.op) # {} THEN "ALREADY_ACCEPTED"
  ELSE IF Fenced(r.actor, r.op)          THEN "NOT_ACCEPTED"
  ELSE "UNRESOLVED"

ResolveVerdict(r) ==
  IF      Recovered(r) # "UNRESOLVED" THEN Recovered(r)
  ELSE IF maintenance.active          THEN "REGISTER_MAINTENANCE" ELSE "PROCEED"

Verdict(r, day) ==
  CASE r.kind = "CASE"      -> CaseVerdict(r, day)
    [] r.kind = "AUTHORITY" -> AuthorityVerdict(r)
    [] r.kind = "RESOLVE"   -> ResolveVerdict(r)

(* The entry a request that proceeds appends. *)
CaseEntry(r, day) ==
  LET snapshot == After(r.act, Current(r))
  IN  [kind |-> "CASE", op |-> r.op, actor |-> r.actor, subject |-> CaseOf(r),
       act |-> r.act.kind, revision |-> snapshot.revision, day |-> day,
       reference |-> CaseIdentity(r).reference,
       payload |-> {[identity |-> CaseIdentity(r), snapshot |-> snapshot]}]

Entry(r, day) ==
  CASE r.kind = "CASE"      -> CaseEntry(r, day)
    [] r.kind = "AUTHORITY" -> [kind |-> "AUTHORITY", op |-> r.op, actor |-> r.actor,
                                subject |-> r.subject, change |-> r.change]
    [] OTHER                -> [kind |-> "CONTROL", op |-> r.op, actor |-> r.actor]

-----------------------------------------------------------------------------
(* What the database does with a write *)

(* ledger_extend_head and the unique indexes of the ledger. *)
Extends(position, e) ==
  /\ position = Len(ledger) + 1
  /\ e.kind = "CONTROL" => Controls(e.actor, e.op) = {}
  /\ e.kind # "CONTROL" => Accepted(e.op) = {}
  /\ e.kind = "CASE" =>
       \A i \in DOMAIN ledger : ledger[i].kind = "CASE" =>
         /\ <<ledger[i].subject, ledger[i].revision>> # <<e.subject, e.revision>>
         /\ e.reference # NoReference => ledger[i].reference # e.reference

SnapshotOf(e) == (CHOOSE p \in e.payload : TRUE).snapshot

(* Mutations: the payloads are cleared before the ERASE is appended; the
   clearing is not limited to the case. *)
Purged_BeforeAppend(entries, e) ==
  IF e.kind = "CASE" /\ e.act = "ERASE"
  THEN [i \in DOMAIN entries |->
          IF entries[i].kind = "CASE" /\ entries[i].subject = e.subject /\ i < Len(entries)
          THEN [entries[i] EXCEPT !.payload = {}] ELSE entries[i]]
  ELSE entries

Purged_EveryCase(entries, e) ==
  IF e.kind = "CASE" /\ e.act = "ERASE"
  THEN [i \in DOMAIN entries |->
          IF entries[i].kind = "CASE" THEN [entries[i] EXCEPT !.payload = {}] ELSE entries[i]]
  ELSE entries

(* erase_case_payload clears every payload of the case, the ERASE included. *)
Purged(entries, e) ==
  IF e.kind = "CASE" /\ e.act = "ERASE"
  THEN [i \in DOMAIN entries |->
          IF entries[i].kind = "CASE" /\ entries[i].subject = e.subject
          THEN [entries[i] EXCEPT !.payload = {}] ELSE entries[i]]
  ELSE entries

(* Mutation: an ERASE leaves the projected row as it was. *)
ProjectCase_EraseSkipped(e) ==
  IF e.kind # "CASE" THEN cases
  ELSE IF e.act = "ERASE" THEN cases
  ELSE [cases EXCEPT ![e.subject] =
          [reference |-> IF e.act = "OPEN" THEN e.reference ELSE @.reference,
           snapshot  |-> SnapshotOf(e)]]

ProjectCase(e) ==
  IF e.kind # "CASE" THEN cases
  ELSE [cases EXCEPT ![e.subject] =
          [reference |-> IF e.act = "OPEN" THEN e.reference ELSE @.reference,
           snapshot  |-> SnapshotOf(e)]]

(* Append and project as one committed transaction. *)
Commit(e) ==
  /\ ledger' = Purged(Append(ledger, e), e)
  /\ cases' = ProjectCase(e)
  /\ enabled' = IF e.kind = "AUTHORITY"
                THEN [enabled EXCEPT ![e.subject] = (e.change = "ENABLE")] ELSE enabled
  /\ fences' = IF e.kind = "CONTROL" THEN fences \cup {<<e.actor, e.op>>} ELSE fences

-----------------------------------------------------------------------------
(* Requests *)

Receive(w, r) ==
  /\ work[w] = Idle
  /\ work' = [work EXCEPT ![w] = Waiting(r)]
  /\ UNCHANGED <<register, maintenance, lock, told>>

(* Mutation: the head is read without its lock. *)
Begin_Unlocked(w) ==
  /\ work[w].phase = "WAITING"
  /\ work[w].request.kind # "STATUS"
  /\ \E day \in Days : work' = [work EXCEPT ![w] = Holding(@.request, day)]
  /\ UNCHANGED <<register, maintenance, lock, told>>

(* lock_ledger_head: wait for the head, then read the clock. *)
Begin(w) ==
  /\ work[w].phase = "WAITING"
  /\ work[w].request.kind # "STATUS"
  /\ lock = NoWorker
  /\ lock' = w
  /\ \E day \in Days : work' = [work EXCEPT ![w] = Holding(@.request, day)]
  /\ UNCHANGED <<register, maintenance, told>>

Released(w) == IF lock = w THEN NoWorker ELSE lock

(* Mutation: a verdict that does not proceed leaves its transaction open. *)
Decide_RefusalHoldsHead(w) ==
  /\ work[w].phase = "HOLDING"
  /\ LET r       == work[w].request
         verdict == Verdict(r, work[w].day)
     IN  work' = [work EXCEPT ![w] = IF verdict = "PROCEED"
                                     THEN Committing(r, Entry(r, @.day), @.head + 1)
                                     ELSE Answering(r, verdict)]
  /\ UNCHANGED <<register, maintenance, lock, told>>

(* Read and decide under the head. Any verdict but PROCEED rolls back. *)
Decide(w) ==
  /\ work[w].phase = "HOLDING"
  /\ LET r       == work[w].request
         verdict == Verdict(r, work[w].day)
     IN  IF verdict = "PROCEED"
         THEN /\ work' = [work EXCEPT ![w] =
                            Committing(r, Entry(r, @.day), @.head + 1)]
              /\ UNCHANGED lock
         ELSE /\ work' = [work EXCEPT ![w] = Answering(r, verdict)]
              /\ lock' = Released(w)
  /\ UNCHANGED <<register, maintenance, told>>

Outcome(e) == IF e.kind = "CONTROL" THEN "NOT_ACCEPTED" ELSE "ACCEPTED"

(* The commit takes effect; its confirmation may be lost. A write the
   structural guards refuse is rolled back as an integrity failure. *)
CommitApplied(w) ==
  /\ work[w].phase = "COMMITTING"
  /\ LET r  == work[w].request
         e  == work[w].entry
         ok == Extends(work[w].position, e)
     IN  /\ IF ok THEN Commit(e) ELSE UNCHANGED register
         /\ \E answer \in IF ok THEN {Outcome(e), "OUTCOME_UNKNOWN"}
                                ELSE {"STORE_INTEGRITY_ERROR"} :
              work' = [work EXCEPT ![w] = Answering(r, answer)]
  /\ lock' = Released(w)
  /\ UNCHANGED <<maintenance, told>>

(* The commit was sent, never took effect, and nobody can tell. *)
CommitLost(w) ==
  /\ work[w].phase = "COMMITTING"
  /\ work' = [work EXCEPT ![w] = Answering(@.request, "OUTCOME_UNKNOWN")]
  /\ lock' = Released(w)
  /\ UNCHANGED <<register, maintenance, told>>

(* A lock, statement or idle timeout, a cancellation, a lost connection or a
   stopped process before the commit: the transaction is rolled back. *)
Abandon(w) ==
  /\ work[w].phase \in {"WAITING", "HOLDING", "COMMITTING"}
  /\ work' = [work EXCEPT ![w] = Answering(@.request, "STORE_UNAVAILABLE")]
  /\ lock' = Released(w)
  /\ UNCHANGED <<register, maintenance, told>>

(* RecoveryStatus.run: one repeatable-read snapshot, no head lock. *)
Status(w) ==
  /\ work[w].phase = "WAITING"
  /\ work[w].request.kind = "STATUS"
  /\ work' = [work EXCEPT ![w] = Answering(@.request, Recovered(@.request))]
  /\ UNCHANGED <<register, maintenance, lock, told>>

Promise(answer) ==
  CASE answer \in {"ACCEPTED", "ALREADY_ACCEPTED"} -> {"ACCEPTED"}
    [] answer = "NOT_ACCEPTED"                     -> {"NOT_ACCEPTED"}
    [] OTHER                                       -> {}

(* The answer reaches the client, late as it may be. *)
Answer(w) ==
  /\ work[w].phase = "ANSWERING"
  /\ told' = told \cup {<<work[w].request.actor, work[w].request.op, fate>> :
                          fate \in Promise(work[w].answer)}
  /\ work' = [work EXCEPT ![w] = Idle]
  /\ UNCHANGED <<register, maintenance, lock>>

LoseAnswer(w) ==
  /\ work[w].phase = "ANSWERING"
  /\ work' = [work EXCEPT ![w] = Idle]
  /\ UNCHANGED <<register, maintenance, lock, told>>

(* Mutation: maintenance is entered without waiting for the head. *)
EnterMaintenance_Unlocked ==
  /\ ~ maintenance.active
  /\ maintenance.generation < MaxGeneration
  /\ maintenance' = [active |-> TRUE, generation |-> maintenance.generation + 1]
  /\ UNCHANGED <<register, lock, work, told>>

(* RegisterMaintenanceStore.change: also a transaction under the head lock. *)
EnterMaintenance ==
  /\ lock = NoWorker
  /\ ~ maintenance.active
  /\ maintenance.generation < MaxGeneration
  /\ maintenance' = [active |-> TRUE, generation |-> maintenance.generation + 1]
  /\ UNCHANGED <<register, lock, work, told>>

ResumeRegister ==
  /\ lock = NoWorker
  /\ maintenance.active
  /\ \E expected \in 1 .. MaxGeneration :
       /\ maintenance.generation = expected
       /\ maintenance' = [active |-> FALSE, generation |-> expected]
  /\ UNCHANGED <<register, lock, work, told>>

Serve(w) ==
  \/ Begin(w) \/ Decide(w) \/ CommitApplied(w) \/ CommitLost(w) \/ Abandon(w)
  \/ Status(w) \/ Answer(w) \/ LoseAnswer(w)

Next ==
  \/ \E w \in Workers, r \in Requests : Receive(w, r)
  \/ \E w \in Workers : Serve(w)
  \/ EnterMaintenance
  \/ ResumeRegister

Spec == Init /\ [][Next]_vars
(* Every transaction ends: the database's timeouts stop one that does not. *)
FairSpec == Spec /\ \A w \in Workers : WF_vars(Serve(w))

-----------------------------------------------------------------------------
(* Properties *)

Identities ==
  [id : Operations, op : Operations, expected : Nat, act : Acts,
   reference : References \cup {NoReference}]

EntryShapes ==
  [kind : {"CASE"}, op : Operations, actor : Actors, subject : Operations,
   act : {"OPEN", "AMEND_REGISTRATION", "CORRECT", "DECIDE", "RECORD_PAYMENT"} \cup BareKinds,
   revision : Nat \ {0}, day : Days, reference : References \cup {NoReference},
   payload : SUBSET [identity : Identities, snapshot : Snapshot]]
    \cup [kind : {"AUTHORITY"}, op : Operations, actor : Actors, subject : Actors,
          change : {"ENABLE", "DISABLE"}]
    \cup [kind : {"CONTROL"}, op : Operations, actor : Actors]

Answers ==
  {"ACCEPTED", "ALREADY_ACCEPTED", "NOT_ACCEPTED", "UNRESOLVED", "OUTCOME_UNKNOWN",
   "STORE_UNAVAILABLE", "STORE_INTEGRITY_ERROR", "RESOURCE_UNAVAILABLE",
   "OPERATION_RESOLVED", "REGISTER_MAINTENANCE", "IDEMPOTENCY_CONFLICT", "LAST_OWNER",
   "REVISION_CONFLICT", "INVALID_INPUT", "NOT_OFFERED", "CASE_ALREADY_EXISTS"}

WorkShapes ==
  [phase : {"IDLE"}]
    \cup [phase : {"WAITING"}, request : Requests]
    \cup [phase : {"HOLDING"}, request : Requests, day : Days, head : Nat]
    \cup [phase : {"COMMITTING"}, request : Requests, entry : EntryShapes, position : Nat]
    \cup [phase : {"ANSWERING"}, request : Requests, answer : Answers]

(* Type invariant. *)
TypeOK ==
  /\ ledger \in Seq(EntryShapes)
  /\ cases \in [Operations -> [reference : References \cup {NoReference},
                                snapshot : Snapshot \cup {Absent}]]
  /\ fences \subseteq Actors \X Operations
  /\ enabled \in [Actors -> BOOLEAN]
  /\ maintenance \in [active : BOOLEAN, generation : 0 .. MaxGeneration]
  /\ lock \in Workers \cup {NoWorker}
  /\ work \in [Workers -> WorkShapes]
  /\ told \subseteq Actors \X Operations \X {"ACCEPTED", "NOT_ACCEPTED"}

(* However often a request is repeated and whoever sends it, an operation is
   accepted once, and never for an author whose nonacceptance is final. *)
OneFate ==
  /\ \A op \in Operations : \A i, j \in Accepted(op) : i = j
  /\ \A a \in Actors, op \in Operations :
       Controls(a, op) # {} => AcceptedBy(a, op) = {}

(* The database's own guards are never what refuses a write: whatever is
   about to commit still extends the head it was decided on. *)
WritesExtendTheHead ==
  \A w \in Workers :
    work[w].phase = "COMMITTING" => Extends(work[w].position, work[w].entry)

CaseEntries(c) == {i \in DOMAIN ledger : ledger[i].kind = "CASE" /\ ledger[i].subject = c}

(* The retained history of a case replays: every act was offered and admitted
   on the state before it, expected that revision, and left the next one. *)
HistoryReplays ==
  \A c \in Operations : \A i \in CaseEntries(c) : \A p \in ledger[i].payload :
    \E before \in {Absent} \cup
                   {q.snapshot : q \in UNION {ledger[j].payload : j \in CaseEntries(c)}} :
      /\ before.revision = ledger[i].revision - 1
      /\ Refusal(ledger[i].day, p.identity.act, p.identity.expected, before) = "NONE"
      /\ p.snapshot = After(p.identity.act, before)

LastOf(S) == CHOOSE i \in S : \A j \in S : j <= i

(* The projections are what the ledger says: the last entry of each case, the
   controls, and the last change of each actor. *)
ProjectionsAgree ==
  /\ \A c \in Operations :
       IF CaseEntries(c) = {} THEN cases[c] = NoRow
       ELSE LET e == ledger[LastOf(CaseEntries(c))]
            IN  /\ cases[c].snapshot.revision = e.revision
                /\ \A p \in e.payload : cases[c].snapshot = p.snapshot
                /\ cases[c].snapshot.state = "ERASED" <=> e.payload = {}
  /\ fences = {k \in Actors \X Operations : Controls(k[1], k[2]) # {}}
  /\ \A a \in Actors :
       LET changes == {i \in DOMAIN ledger :
                         ledger[i].kind = "AUTHORITY" /\ ledger[i].subject = a}
       IN  enabled[a] = IF changes = {} THEN TRUE
                        ELSE ledger[LastOf(changes)].change = "ENABLE"

(* Erasure leaves no payload of its case and touches no other; the reference
   stays with the erased case and no other case ever takes it. *)
ErasureIsComplete ==
  /\ \A i \in DOMAIN ledger : ledger[i].kind = "CASE" =>
       (ledger[i].payload = {} <=> cases[ledger[i].subject].snapshot.state = "ERASED")
  /\ \A c \in Operations : CaseEntries(c) # {} => cases[c].reference # NoReference
  /\ \A c, d \in Operations :
       cases[c].reference = cases[d].reference /\ c # d => cases[c].reference = NoReference

Metadata(e) == IF e.kind = "CASE" THEN [e EXCEPT !.payload = {}] ELSE e

(* Nothing recorded is ever changed: a step appends at most one entry, and
   only the acceptance of an ERASE removes payloads, those of its own case. *)
AppendOnly ==
  [][/\ Len(ledger') \in {Len(ledger), Len(ledger) + 1}
     /\ \A i \in DOMAIN ledger :
          /\ Metadata(ledger'[i]) = Metadata(ledger[i])
          /\ ledger'[i] # ledger[i] =>
               LET last == ledger'[Len(ledger')]
               IN  /\ Len(ledger') > Len(ledger)
                   /\ last.kind = "CASE" /\ last.act = "ERASE"
                   /\ last.subject = ledger[i].subject]_vars

(* Entering maintenance lets no write in flight slip past it: until the
   register resumes, nothing in it changes, whatever was decided before. *)
MaintenanceIsQuiet ==
  [][maintenance.active => UNCHANGED register]_vars

(* Owners who disable each other, or themselves, at the same time leave one. *)
AnOwnerRemains == EnabledOwners # {}

(* The fate of an author's operation, as the ledger tells it. *)
Fate(a, op) ==
  IF AcceptedBy(a, op) # {} THEN "ACCEPTED"
  ELSE IF Controls(a, op) # {} THEN "NOT_ACCEPTED" ELSE "OPEN"

Promised == INSTANCE Delivery
  WITH fate <- [k \in Actors \X Operations |-> Fate(k[1], k[2])], told <- told

(* Every behaviour of the register, lost answers, repeats and timeouts
   included, keeps the promises of Delivery: clients are told only settled
   fates, and a fate once settled never changes. *)
KeepsDeliveryPromises == Promised!Spec

(* No transaction keeps the head for ever, whether it commits, is refused or
   is abandoned; no request is served for ever. *)
RequestsEnd ==
  \A w \in Workers : (lock = w ~> lock # w) /\ (work[w] # Idle ~> work[w] = Idle)

(* What "Stored data failed verification" says to a user: the store is
   damaged. Here nothing damages it, so the answer should never be given. *)
IntegrityErrorMeansDamage ==
  \A w \in Workers :
    work[w].phase = "ANSWERING" => work[w].answer # "STORE_INTEGRITY_ERROR"
=============================================================================
