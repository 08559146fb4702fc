----------------------------- MODULE MCBrowserPage -----------------------------
(* The page of the signed-in person: its areas, the access panel, the forms over
   a cut of the catalog, the replies to the requests they make, what is typed
   into a field and the languages of it all. These do not share variables: a
   behaviour exercises one part and leaves the rest alone.                    *)
EXTENDS CatalogForms, ReplyCorrelation, Workspace, BrowserAuthority, Presentation, TypedEntry,
        TLC

VARIABLE part    \* the part this run exercises

(* The catalog: a correction, an assignment, a grant and an admission, each
   with the kinds of input it has and fewer of each kind.                   *)
In(path, branch, prefs) ==
  prefs @@ [path |-> path, branches |-> branch, kind |-> "TEXT", vocabulary |-> "NONE", options |-> <<>>,
            source |-> "AUTHORED", required |-> FALSE, wireRequired |-> FALSE, allowsNull |-> FALSE,
            default |-> Null, isFact |-> TRUE, pairs |-> "NONE", advice |-> "NONE", about |-> "NONE"]
Always == {}
When(path, value) == {[path |-> path, value |-> value]}
Required == [required |-> TRUE, wireRequired |-> TRUE]
Group(required, options) ==
  [kind |-> "GROUP", isFact |-> FALSE, required |-> required, options |-> options]
Identity == In("operationId", Always, [source |-> "OPERATION_IDENTITY", isFact |-> FALSE])
Revision == In("expectedRevision", Always, Required @@ [source |-> "EXPECTED_REVISION", kind |-> "INTEGER", isFact |-> FALSE])
Reference == In("target.caseReference", Always, Required)
Constant(path, branch, value) == [path |-> path, branches |-> branch, value |-> value]
Entry(subject, kind, inputs, constants, collections) ==
  [subject |-> subject, kind |-> kind, ofCase |-> subject # "AUTHORITY", inputs |-> inputs,
   constants |-> constants \cup {Constant("act.kind", Always, kind)}, collections |-> collections]

Correct == Entry("CASE", "CORRECT",
  {Identity, Revision, Reference,
   In("registration.kind", Always, Group(TRUE, <<"KEEP", "UPDATE">>) @@ [advice |-> "registration"]),
   In("claimed.amount", When("registration.kind", "UPDATE"), [pairs |-> "claimed.currency"]),
   In("claimed.currency", When("registration.kind", "UPDATE"), <<>>),
   In("incidentDescription", When("registration.kind", "UPDATE"), [allowsNull |-> TRUE]),
   In("payment.kind", Always, Group(TRUE, <<"KEEP", "REPLACE", "CLEAR">>) @@ [advice |-> "payment"]),
   In("paymentDate", When("payment.kind", "REPLACE"), Required)},
  {Constant("target.kind", Always, "REFERENCE")}, {})
UpdateWork == Entry("WORK", "UPDATE_WORK",
  {Identity, Revision, Reference,
   In("responsibleActor.kind", Always, Group(FALSE, <<"CLEAR", "SET">>) @@ [about |-> "ASSIGNEE"]),
   In("responsibleActor.value", When("responsibleActor.kind", "SET"), Required @@ [about |-> "ASSIGNEE"]),
   In("handlingSummary", Always, [allowsNull |-> TRUE, about |-> "SUMMARY"])},
  {Constant("target.kind", Always, "REFERENCE")}, {})
Role == Required @@ [kind |-> "CHOICE", vocabulary |-> "role", options |-> <<"OWNER", "DATA_STEWARD", "AUDITOR">>]
Scope == [kind |-> "GROUP", isFact |-> FALSE, wireRequired |-> TRUE, default |-> "INSTALLATION",
          options |-> <<"INSTALLATION", "CASE">>]
Principal == In("target.kind", Always, Required @@
  [kind |-> "CHOICE", vocabulary |-> "principalKind", isFact |-> FALSE, options |-> <<"HUMAN", "SERVICE">>])
Grant == Entry("AUTHORITY", "GRANT",
  {Identity, Principal, In("target.subject", Always, Required @@ [isFact |-> FALSE]),
   In("act.role", Always, Role), In("act.scope.kind", Always, Scope),
   In("act.scope.caseReference", When("act.scope.kind", "CASE"), Required)},
  {Constant("act.scope.target.kind", When("act.scope.kind", "CASE"), "REFERENCE")}, {})
Admit == Entry("AUTHORITY", "ADMIT",
  {Identity, Principal, In("act.profile.contact", Always, [allowsNull |-> TRUE, isFact |-> FALSE])},
  {}, {[path |-> "act.grants", branches |-> Always, minimumItems |-> 1, maximumItems |-> 2,
        rowInputs |-> {In("role", Always, Role), In("scope.kind", Always, Scope),
                       In("scope.caseReference", When("scope.kind", "CASE"), Required)},
        rowConstants |-> {Constant("scope.target.kind", When("scope.kind", "CASE"), "REFERENCE")}]})
Disable == Entry("AUTHORITY", "DISABLE", {Identity, Principal}, {}, {})
MCEntries == {Correct, UpdateWork, Grant, Admit, Disable}
Admitted(role, kinds, scopes) == [role |-> role, kinds |-> kinds, scopes |-> scopes]
MCRoles ==
  {Admitted("OWNER", {"HUMAN"}, {"INSTALLATION"}),
   Admitted("DATA_STEWARD", {"HUMAN"}, {"INSTALLATION", "CASE"}),
   Admitted("AUDITOR", {"HUMAN", "SERVICE"}, {"INSTALLATION", "CASE"})}
MCCases ==
  {[known |-> TRUE, canAssign |-> assign, canUpdateSummary |-> summary,
    facts |-> [p \in {"target.caseReference", "claimed.amount", "handlingSummary"} |-> "old"],
    correction |-> [g \in {"payment"} |-> modes]] :
     assign \in BOOLEAN, summary \in BOOLEAN, modes \in {{"KEEP"}, {"KEEP", "REPLACE", "CLEAR"}}}

(* The requests: half of them name things by identity in upper case, half by
   reference in lower case.                                                 *)
Operation == {"o1", "o2"}
Case == {"c1", "c2"}
Target(name, by) ==
  [by |-> by, value |-> IF by = "ID" THEN Word(name, "ID", "UPPER") ELSE Word(name, "REFERENCE", "LOWER")]
NoTarget == [by |-> "NOTHING", value |-> Nothing]
Act(kind, reminder, expected, grants) ==
  [kind |-> kind, reminderId |-> reminder, expectedRevision |-> expected, grants |-> grants]
BareAct(kind) == Act(kind, Nothing, 0, 0)
Asking(kind, op, target, expected, act, principal) ==
  [kind |-> kind, operationId |-> Word(op, "ID", "UPPER"), target |-> target,
   expectedRevision |-> expected, act |-> act, principal |-> principal]
MCSent ==
  {Asking("CASE", op, Target(c, "REFERENCE"), 0, BareAct("OPEN"), NoPrincipal) : op \in Operation, c \in Case}
  \cup {Asking("CASE", op, Target(c, by), n, BareAct(k), NoPrincipal) :
          op \in Operation, c \in Case, by \in {"ID", "REFERENCE"}, n \in 1..2, k \in {"DECIDE", "CLOSE"}}
  \cup {Asking("WORK", op, Target(c, by), n, BareAct("UPDATE_WORK"), NoPrincipal) :
          op \in Operation, c \in Case, by \in {"ID", "REFERENCE"}, n \in 0..1}
  \cup {Asking("REMINDER", op, Target(c, "ID"), 0, BareAct("CREATE"), NoPrincipal) : op \in Operation, c \in Case}
  \cup {Asking("REMINDER", op, Target(c, "ID"), 0, Act(k, Word(m, "ID", "UPPER"), n, 0), NoPrincipal) :
          op \in Operation, c \in Case, m \in {"m1", "m2"}, n \in 1..2,
          k \in {"UPDATE", "COMPLETE", "COMPLETE_AND_PLAN_NEXT", "CANCEL", "REOPEN"}}
  \cup {Asking("AUTHORITY", op, NoTarget, 0, Act(k, Nothing, 0, IF k = "ADMIT" THEN g ELSE 0), a) :
          op \in Operation, a \in {"ana", "bob"}, g \in 1..2, k \in {"REGISTER", "ADMIT", "DISABLE"}}

(* Languages, one with an alias and one without display locale of its own, and
   a display locale without a language; browsers that ask for none of them, for
   another variant of one, and for the pseudolanguage.                        *)
MCLanguages == {<<"en">>, <<"ar">>, <<"zh", "Hans">>, <<"en", "XA">>}
MCAliases == (<<"zh">> :> <<"zh", "Hans">>) @@ (<<"zh", "SG">> :> <<"zh", "Hans">>)
Display(value, language) == [value |-> value, language |-> language]
MCDisplayOptions ==
  <<Display(<<"en", "GB">>, <<"en">>), Display(<<"ar", "EG">>, <<"ar">>), Display(<<"fr", "FR">>, <<"fr">>)>>
MCDefaultLanguage == <<"en">>
MCDefaultLocale == <<"en", "GB">>
MCPseudolanguage == <<"en", "XA">>
MCBrowserTags == {<< >>, <<<<"fr", "CA">>, <<"ar", "AE">>>>, <<<<"en", "XA">>, <<"zh", "SG">>>>}

(* Amounts that are read in one locale and not, or differently, in another.   *)
Numbers(decimal, group, digits) == [decimal |-> decimal, group |-> group, digits |-> digits]
MCLocales ==
  [en |-> Numbers(".", ",", "WESTERN"), de |-> Numbers(",", ".", "WESTERN"),
   lv |-> Numbers(",", "space", "WESTERN"), ar |-> Numbers("arabic comma", "arabic separator", "ARABIC")]
Text(digits, runs, marks) == [digits |-> digits, runs |-> runs, marks |-> marks]
MCPrefill == Text("WESTERN", <<1, 3>>, <<".">>)
MCAmountTexts ==
  {Text("WESTERN", <<4>>, <<>>), Text("WESTERN", <<1, 3>>, <<".">>), Text("WESTERN", <<1, 5>>, <<",">>),
   Text("WESTERN", <<1, 3, 2>>, <<".", ",">>), Text("WESTERN", <<1, 3, 2>>, <<",", ".">>),
   Text("WESTERN", <<2, 3>>, <<"space">>), Text("ARABIC", <<1, 3, 2>>, <<"arabic separator", "arabic comma">>)}

(* One entry stands for the form of the parts that have none. A reply does not
   depend on how a form got where it is: requests are sent from a fresh form.  *)
page == <<part, vars, awaited, workspace, authority, presentation, entering>>
PageInit ==
  /\ part \in {"FORM", "WORKSPACE", "AUTHORITY", "LANGUAGES", "ENTRY"}
  /\ Init /\ (part # "FORM" => entry = Disable /\ current = NoneKnown)
  /\ awaited = None
  /\ WorkspaceInit /\ (part # "WORKSPACE" => route = "home")
  /\ AuthorityInit
  /\ PresentationInit
  /\ part # "LANGUAGES" => stored = NoPreferences /\ state.language = DefaultLanguage
  /\ EntryInit /\ (part # "ENTRY" => displayLocale = "en" /\ input = FreshInput("DATE", NoParts))
PageNext ==
  \/ /\ part = "FORM" /\ UNCHANGED <<part, workspace, authority, presentation, entering>>
     /\ \/ awaited = None /\ Next /\ UNCHANGED awaited
        \/ values = initialOperationValues(entry, current) /\ (Send \/ Take) /\ UNCHANGED vars
  \/ /\ part = "WORKSPACE" /\ WorkspaceNext
     /\ UNCHANGED <<part, vars, awaited, authority, presentation, entering>>
  \/ /\ part = "AUTHORITY" /\ AuthorityNext
     /\ UNCHANGED <<part, vars, awaited, workspace, presentation, entering>>
  \/ /\ part = "LANGUAGES" /\ PresentationNext
     /\ UNCHANGED <<part, vars, awaited, workspace, authority, entering>>
  \/ /\ part = "ENTRY" /\ EntryNext
     /\ UNCHANGED <<part, vars, awaited, workspace, authority, presentation>>
PageSpec == PageInit /\ [][PageNext]_page
Directory == Permutations(Actors)

\* The amounts of this run meet what the theorem about typed entries supposes of them.
ASSUME ReadingAssumption == AmountsReadOnce
=============================================================================
