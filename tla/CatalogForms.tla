----------------------------- MODULE CatalogForms -----------------------------
(***************************************************************************)
(* The form a person fills to prepare an operation. Every form is drawn from *)
(* the catalog: an entry lists inputs, the branches under which each applies *)
(* and rows a person may add. Two filters must agree for a person to send    *)
(* what they see: the one that draws the form (components/CatalogInputs.tsx, *)
(* operation/operationForm.ts) and the one that assembles the request        *)
(* (protocol/catalogAssembly.ts). A path is a name here, a text is blank or  *)
(* one of a few; identity and revision are filled once and never typed.      *)
(***************************************************************************)
EXTENDS Naturals, FiniteSets, Sequences

CONSTANTS
  Entries,    \* the operations of the catalog
  Roles,      \* role, the principal kinds and the scopes it is admitted for
  Texts,      \* what a person may type
  Cases       \* what may be disclosed of the case the form is about

VARIABLES
  entry,      \* the operation being authored
  values,     \* path -> text, or a row sequence; a path not selected is absent
  current     \* the case as last disclosed

vars == <<entry, values, current>>

Null == "NULL"
NoneKnown == [known |-> FALSE]

\* Values with one added or changed, and bindings of which the first wins.
With(vals, path, v) == [p \in DOMAIN vals \cup {path} |-> IF p = path THEN v ELSE vals[p]]
Over(f, g) == [p \in DOMAIN f \cup DOMAIN g |-> IF p \in DOMAIN f THEN f[p] ELSE g[p]]

(* The roles of the product (operation/roleAvailability.ts).               *)
roleAdmitted(role, kind, scope) ==
  \E r \in Roles : r.role = role /\ kind \in r.kinds /\ scope \in r.scopes

(* What a form starts with.                                                *)

selectableFact(e, i) ==
  e.subject # "AUTHORITY" /\ i.source = "AUTHORED" /\ i.kind = "TEXT" /\ ~i.required /\ i.isFact

prefilledValue(case, i) ==
  IF case.known /\ i.path \in DOMAIN case.facts THEN case.facts[i.path] ELSE ""

isRole(i) == i.kind = "CHOICE" /\ i.vocabulary = "role"

authoredValue(i, case) ==
  IF isRole(i) THEN ""
  ELSE IF i.default # Null THEN i.default
  ELSE IF i.kind = "CHOICE" \/ (i.kind = "GROUP" /\ i.required) THEN Head(i.options)
  ELSE IF i.kind = "GROUP" THEN ""
  ELSE prefilledValue(case, i)

initialValue(i, case) == IF i.source = "AUTHORED" THEN authoredValue(i, case) ELSE i.source

initialCollectionRow(c) ==
  [p \in {i.path : i \in c.rowInputs} |->
     authoredValue(CHOOSE i \in c.rowInputs : i.path = p, NoneKnown)]

initialOperationValues(e, case) ==
  LET asked == {i \in e.inputs : ~selectableFact(e, i)}
  IN  Over([p \in {i.path : i \in asked} |-> initialValue(CHOOSE i \in asked : i.path = p, case)],
           [p \in {c.path : c \in e.collections} |->
              LET c == CHOOSE d \in e.collections : d.path = p
              IN  [n \in 1..c.minimumItems |-> initialCollectionRow(c)]])

Init ==
  /\ entry \in Entries
  /\ current \in IF entry.ofCase THEN Cases ELSE {NoneKnown}
  /\ values = initialOperationValues(entry, current)

(* The request.                                                            *)

applies(binding, vals) ==
  \A b \in binding.branches : b.path \in DOMAIN vals /\ vals[b.path] = b.value

emptyInput(v) == v \in {Null, ""}
implicitChoice(i, v) == ~i.wireRequired /\ i.kind = "CHOICE" /\ v = i.default

selectedFact(e, i, vals) ==
  e.subject # "AUTHORITY" /\ i.source = "AUTHORED" /\ i.kind = "TEXT" /\ i.isFact /\ i.path \in DOMAIN vals

omittedInput(e, i, vals, v) ==
  /\ ~i.required
  /\ \/ /\ emptyInput(v) /\ ~selectedFact(e, i, vals)
        /\ ~(i.allowsNull /\ v = Null /\ i.path \in DOMAIN vals)
     \/ implicitChoice(i, v)

assigned(i, vals) == IF i.path \in DOMAIN vals THEN vals[i.path] ELSE i.default

\* No operation of the catalog has a constant that waits for its parent.
assembleBindings(e, inputs, constants, vals) ==
  LET sent  == {i \in inputs : applies(i, vals) /\ ~omittedInput(e, i, vals, assigned(i, vals))}
      fixed == {c \in constants : applies(c, vals)}
  IN  Over([p \in {i.path : i \in sent} |-> assigned(CHOOSE i \in sent : i.path = p, vals)],
           [p \in {c.path : c \in fixed} |-> (CHOOSE c \in fixed : c.path = p).value])

assembleCatalogInput(e, vals) ==
  LET rows(c) == [n \in DOMAIN vals[c.path] |->
                    assembleBindings(e, c.rowInputs, c.rowConstants, vals[c.path][n])]
      filled  == {c \in e.collections : applies(c, vals)}
  IN  Over([p \in {c.path : c \in filled} |-> rows(CHOOSE c \in filled : c.path = p)],
           assembleBindings(e, e.inputs, e.constants, vals))

(* What the form shows.                                                    *)

visibleOperationInputs ==
  {i \in entry.inputs :
     /\ i.source = "AUTHORED" /\ applies(i, values)
     /\ ~(i.path = "target.caseReference" /\ current.known)
     /\ (entry.subject = "WORK" /\ current.known) =>
          /\ i.about = "ASSIGNEE" => current.canAssign
          /\ i.about = "SUMMARY" => current.canUpdateSummary}

\* The other half of a pair of facts, an amount and its currency.
peerInput(i, inputs) == {j \in inputs : j.path = i.pairs /\ j.branches = i.branches}
pairedChild(i, inputs) ==
  \E j \in inputs : selectableFact(entry, j) /\ i \in peerInput(j, inputs)

groupOptionUnavailable(i, option) ==
  /\ option # "" /\ current.known /\ i.advice \in DOMAIN current.correction
  /\ option \notin current.correction[i.advice]
roleOptionUnavailable(i, option, kind, scope) ==
  /\ entry.subject = "AUTHORITY" /\ entry.kind \in {"GRANT", "ADMIT"} /\ isRole(i)
  /\ ~roleAdmitted(option, kind, scope)

optionsOf(i) ==
  {i.options[n] : n \in DOMAIN i.options}
    \cup IF i.kind = "GROUP" /\ ~i.required /\ i.default = Null THEN {""} ELSE {}
asRole(vals, path) == IF path \in DOMAIN vals THEN vals[path] ELSE ""

(* What a person does to it.                                               *)

\* A bug: only a change of the principal is looked at.
clearsRoleSelection_PrincipalOnly(path, v) ==
  /\ entry.subject = "AUTHORITY" /\ entry.kind = "GRANT" /\ path = "target.kind"
  /\ ~roleAdmitted(values["act.role"], v, values["act.scope.kind"])

clearsRoleSelection(path, v) ==
  LET next == With(values, path, v)
  IN  /\ entry.subject = "AUTHORITY" /\ entry.kind = "GRANT"
      /\ path \in {"target.kind", "act.scope.kind"}
      /\ ~roleAdmitted(next["act.role"], next["target.kind"], next["act.scope.kind"])

edit(path, v) ==
  /\ values' = IF clearsRoleSelection(path, v) THEN With(With(values, path, v), "act.role", "")
               ELSE With(values, path, v)
  /\ UNCHANGED <<entry, current>>

editFields(chosen, omitted) ==
  /\ values' = [p \in (DOMAIN values \cup DOMAIN chosen) \ omitted |->
                  IF p \in DOMAIN chosen THEN chosen[p] ELSE values[p]]
  /\ UNCHANGED <<entry, current>>

ChoiceInput(i) ==
  /\ i.kind \in {"CHOICE", "GROUP"}
  /\ \E option \in optionsOf(i) \ {values[i.path]} :
       /\ ~groupOptionUnavailable(i, option)
       /\ ~roleOptionUnavailable(i, option, asRole(values, "target.kind"), asRole(values, "act.scope.kind"))
       /\ edit(i.path, option)

ScalarInput(i) ==
  /\ i.kind = "TEXT" /\ i.path \in DOMAIN values /\ values[i.path] # Null
  /\ \E text \in Texts : edit(i.path, text)

Selected(i) == \E j \in {i} \cup peerInput(i, visibleOperationInputs) : j.path \in DOMAIN values

\* A bug: a deselected pair leaves its second half behind.
SelectedFact_Half(i) ==
  /\ selectableFact(entry, i) /\ ~pairedChild(i, visibleOperationInputs)
  /\ LET inputs == {i} \cup peerInput(i, visibleOperationInputs)
         paths == {j.path : j \in inputs}
     IN  IF Selected(i) THEN editFields([p \in {} |-> ""], {i.path})
         ELSE editFields([p \in paths |-> prefilledValue(current, CHOOSE j \in inputs : j.path = p)], {})

\* Ticking a fact selects it with its other half; unticking it forgets both.
SelectedFact(i) ==
  /\ selectableFact(entry, i) /\ ~pairedChild(i, visibleOperationInputs)
  /\ LET inputs == {i} \cup peerInput(i, visibleOperationInputs)
         paths == {j.path : j \in inputs}
     IN  IF Selected(i) THEN editFields([p \in {} |-> ""], paths)
         ELSE editFields([p \in paths |-> prefilledValue(current, CHOOSE j \in inputs : j.path = p)], {})

\* A selected fact may be recorded as having no value.
ClearValue(i) ==
  /\ selectableFact(entry, i) /\ Selected(i) /\ i.allowsNull /\ entry.kind # "OPEN"
  /\ edit(i.path, IF values[i.path] = Null THEN prefilledValue(current, i) ELSE Null)

CollectionRow(c, n) ==
  LET row == values[c.path][n]
      update(path, v) == edit(c.path, [values[c.path] EXCEPT ![n] = With(row, path, v)])
  IN  \E i \in {j \in c.rowInputs : applies(j, row)} :
        \/ /\ i.kind = "TEXT"
           /\ \E text \in Texts : update(i.path, text)
        \/ \E option \in optionsOf(i) \ {row[i.path]} :
             /\ ~roleOptionUnavailable(i, option, values["target.kind"], row["scope.kind"])
             /\ update(i.path, option)

AddRow(c) ==
  /\ Len(values[c.path]) < c.maximumItems
  /\ edit(c.path, Append(values[c.path], initialCollectionRow(c)))

RemoveRow(c, n) ==
  /\ Len(values[c.path]) > c.minimumItems
  /\ edit(c.path, SubSeq(values[c.path], 1, n - 1) \o SubSeq(values[c.path], n + 1, Len(values[c.path])))

\* The case is read again while the form stands: what it advises and permits may change.
Disclosed ==
  /\ entry.ofCase /\ current' \in Cases
  /\ UNCHANGED <<entry, values>>

Next ==
  \/ \E i \in visibleOperationInputs :
       ChoiceInput(i) \/ ScalarInput(i) \/ SelectedFact(i) \/ ClearValue(i)
  \/ \E c \in {d \in entry.collections : applies(d, values)} :
       \/ AddRow(c)
       \/ \E n \in DOMAIN values[c.path] : CollectionRow(c, n) \/ RemoveRow(c, n)
  \/ Disclosed

Spec == Init /\ [][Next]_vars

-------------------------------------------------------------------------------
Request == assembleCatalogInput(entry, values)

(* What the catalog keeps of its entries. A binding is known by its path; a
   choice offers something and must be made, other questions have no default;
   a pair of facts is asked together or not at all; the rows of a collection
   leave nothing blank that may be; a grant asks for a role, a kind of
   principal and a kind of scope.                                          *)

Unique(bindings) == \A a, b \in bindings : a.path = b.path => a = b
Apart(as, bs) == \A a \in as, b \in bs : a.path # b.path

optioned(i) == i.kind \in {"CHOICE", "GROUP"}
offered(i, v) == \E n \in DOMAIN i.options : i.options[n] = v

CatalogInput(i) ==
  /\ i.options \in Seq(STRING) /\ ~offered(i, "") /\ ~offered(i, Null)
  /\ IF optioned(i) THEN i.options # <<>> /\ (i.default = Null \/ offered(i, i.default))
     ELSE i.options = <<>> /\ i.default = Null
  /\ i.kind = "CHOICE" => i.required

PairOfFacts(e, i, j) ==
  /\ selectableFact(e, i) <=> selectableFact(e, j)
  /\ i.required <=> j.required
  /\ selectableFact(e, i) \/ i.required
  /\ i.source = j.source /\ i.about = j.about
  /\ "target.caseReference" \notin {i.path, j.path}
  /\ \A k \in e.inputs : k.path # j.pairs /\ (k.pairs = j.path => k = i)

CatalogCollection(e, c) ==
  /\ c.branches = {} /\ c.minimumItems \in Nat
  /\ Unique(c.rowInputs) /\ Apart(c.rowInputs, c.rowConstants)
  /\ \A i \in c.rowInputs :
       CatalogInput(i) /\ (i.required \/ (i.kind = "GROUP" /\ i.default # Null))

GrantEntry(e) ==
  /\ e.subject = "AUTHORITY" /\ e.collections = {}
  /\ \E role, principal, scope \in e.inputs :
       /\ role.path = "act.role" /\ principal.path = "target.kind" /\ scope.path = "act.scope.kind"
       /\ isRole(role) /\ principal.kind = "CHOICE" /\ ~isRole(principal)
       /\ scope.kind = "GROUP" /\ scope.default # Null
       /\ \A i \in {role, principal, scope} : i.source = "AUTHORED" /\ i.branches = {}

CatalogEntry(e) ==
  /\ Unique(e.inputs) /\ Unique(e.collections)
  /\ Apart(e.inputs, e.constants) /\ Apart(e.inputs, e.collections) /\ Apart(e.collections, e.constants)
  /\ \A i \in e.inputs : CatalogInput(i) /\ \A j \in peerInput(i, e.inputs) : PairOfFacts(e, i, j)
  /\ \A c \in e.collections : CatalogCollection(e, c)
  /\ e.kind = "GRANT" => GrantEntry(e)

ASSUME CatalogAssumption ==
  /\ \A e \in Entries : CatalogEntry(e)
  /\ Null \notin Texts
  /\ \A case \in Cases : case.known => \A p \in DOMAIN case.facts : case.facts[p] # Null

\* A question put to the person and answered: a fact by being ticked, the others by not being blank.
Stated(e, i, vals) ==
  i.path \in DOMAIN vals /\ (selectableFact(e, i) \/ i.required \/ vals[i.path] # "")

Withdrawn(i) ==
  /\ entry.subject = "WORK"
  /\ (i.about = "ASSIGNEE" /\ ~current.canAssign) \/ (i.about = "SUMMARY" /\ ~current.canUpdateSummary)

(* The request says what the form shows: every answer on it, as it stands, a
   ticked fact even when it is blank or cleared, and nothing else the person
   wrote: no text of a branch they left, no half of an amount. It may still
   carry what they wrote under a permission that has since been withdrawn.
   (catalogAssembly.ts, assembleBindings; operationForm.ts,
   visibleOperationInputs; CatalogInputs.tsx, SelectedFact, CollectionInput.) *)
RequestSaysWhatIsShown ==
  LET shown == visibleOperationInputs
  IN  /\ \A i \in shown :
           /\ i.path \in DOMAIN Request <=> Stated(entry, i, values)
           /\ i.path \in DOMAIN Request => Request[i.path] = values[i.path]
           /\ \A j \in peerInput(i, shown) : i.path \in DOMAIN Request <=> j.path \in DOMAIN Request
      /\ \A i \in entry.inputs :
           (i.source = "AUTHORED" /\ i.path \in DOMAIN Request) =>
              i \in shown \/ Withdrawn(i) \/ i.path = "target.caseReference"
      /\ \A c \in entry.collections : \A n \in DOMAIN Request[c.path] :
           \A i \in c.rowInputs :
             i.path \in DOMAIN Request[c.path][n] <=> applies(i, values[c.path][n])

(* A grant that is asked for names no role its principal or its scope does not
   admit, in whatever order the person chose the three (operationState.ts,
   clearsRoleSelection; CatalogInputs.tsx, roleOptionUnavailable). The rows of
   an admission do not keep this: their roles stay when its principal kind
   changes.                                                                 *)
GrantsAreAdmissible ==
  entry.kind = "GRANT" =>
    \/ Request["act.role"] = ""
    \/ roleAdmitted(Request["act.role"], Request["target.kind"], Request["act.scope.kind"])
=============================================================================
