-------------------------- MODULE CatalogFormsProofs --------------------------
(***************************************************************************)
(* For every catalog of the shape the product's has: the request of a form   *)
(* says what the form shows, and a grant names an admitted role or none.     *)
(***************************************************************************)
EXTENDS CatalogForms, SequenceTheorems, TLAPS

(* An answer that may stand for an input: a choice that is offered, a role
   that is yet to be chosen, or a text.                                     *)
Answers(i, v) ==
  /\ v # Null
  /\ optioned(i) => v \in optionsOf(i) \/ (isRole(i) /\ v = "")

(* A row of a collection answers each of its inputs.                        *)
RowPaths(c) == {i.path : i \in c.rowInputs}
RowMarks(c) == Texts \cup {""} \cup UNION {optionsOf(i) : i \in c.rowInputs}
Rows(c) == {row \in [RowPaths(c) -> RowMarks(c)] : \A i \in c.rowInputs : Answers(i, row[i.path])}

(* Every question that is not optional has an answer at any time, ...       *)
QuestionsAnswered(vals) ==
  \A i \in entry.inputs :
    ~selectableFact(entry, i) =>
      /\ i.path \in DOMAIN vals
      /\ i.source = "AUTHORED" => Answers(i, vals[i.path])

(* ... an amount and its currency are both there or both not, ...           *)
PairsAreWhole(vals) ==
  \A i \in entry.inputs : \A j \in peerInput(i, entry.inputs) :
    i.path \in DOMAIN vals <=> j.path \in DOMAIN vals

(* ... a collection is a sequence of rows, ...                              *)
RowsAreKept(vals) ==
  \A c \in entry.collections : c.path \in DOMAIN vals /\ vals[c.path] \in Seq(Rows(c))

(* ... and the role of a grant is blank or admitted.                        *)
RoleIsAdmitted(vals) ==
  entry.kind = "GRANT" =>
    \/ vals["act.role"] = ""
    \/ roleAdmitted(vals["act.role"], vals["target.kind"], vals["act.scope.kind"])

Kept(vals) ==
  QuestionsAnswered(vals) /\ PairsAreWhole(vals) /\ RowsAreKept(vals) /\ RoleIsAdmitted(vals)

IInv == entry \in Entries /\ current \in Cases \cup {NoneKnown} /\ Kept(values)

-------------------------------------------------------------------------------
(* Bindings and options.                                                    *)

(* What is chosen by its path among bindings that are known by it.          *)
LEMMA ByPath ==
  ASSUME NEW bindings, Unique(bindings), NEW i \in bindings
  PROVE  (CHOOSE j \in bindings : j.path = i.path) = i
<1> DEFINE j == CHOOSE j \in bindings : j.path = i.path
<1>1. j \in bindings /\ j.path = i.path
  OBVIOUS
<1> QED
  BY <1>1 DEF Unique

LEMMA OptionsOf ==
  ASSUME NEW i, CatalogInput(i), optioned(i)
  PROVE  /\ i.options \in Seq(STRING) /\ i.options # <<>>
         /\ Head(i.options) \in optionsOf(i)
         /\ i.default # Null => i.default \in optionsOf(i)
         /\ Null \notin optionsOf(i)
         /\ ("" \in optionsOf(i) => i.kind = "GROUP" /\ ~i.required /\ i.default = Null)
<1>1. i.options \in Seq(STRING) /\ i.options # <<>>
  BY DEF CatalogInput
<1>2. 1 \in DOMAIN i.options /\ Head(i.options) = i.options[1]
  BY <1>1
<1>3. Head(i.options) \in optionsOf(i)
  BY <1>2 DEF optionsOf
<1>4. i.default # Null => i.default \in optionsOf(i)
  BY DEF CatalogInput, offered, optionsOf
<1>5. Null # ""
  BY DEF Null
<1>6. Null \notin optionsOf(i)
  BY <1>5 DEF CatalogInput, offered, optionsOf
<1>7. "" \in optionsOf(i) => i.kind = "GROUP" /\ ~i.required /\ i.default = Null
  BY DEF CatalogInput, offered, optionsOf
<1> QED
  BY <1>1, <1>3, <1>4, <1>6, <1>7

-------------------------------------------------------------------------------
(* The request.                                                             *)

Sends(e, i, vals) == applies(i, vals) /\ ~omittedInput(e, i, vals, assigned(i, vals))

(* An input is in the bindings if it is sent, with what it is assigned.      *)
LEMMA BindingsSay ==
  ASSUME NEW e, NEW inputs, NEW constants, NEW vals, NEW i \in inputs,
         Unique(inputs), Apart(inputs, constants)
  PROVE  LET b == assembleBindings(e, inputs, constants, vals)
         IN  /\ i.path \in DOMAIN b <=> Sends(e, i, vals)
             /\ Sends(e, i, vals) => b[i.path] = assigned(i, vals)
<1> DEFINE sent  == {j \in inputs : applies(j, vals) /\ ~omittedInput(e, j, vals, assigned(j, vals))}
           fixed == {c \in constants : applies(c, vals)}
           f == [p \in {j.path : j \in sent} |-> assigned(CHOOSE j \in sent : j.path = p, vals)]
           g == [p \in {c.path : c \in fixed} |-> (CHOOSE c \in fixed : c.path = p).value]
<1>1. assembleBindings(e, inputs, constants, vals) = Over(f, g)
  BY DEF assembleBindings
<1>2. i.path \in DOMAIN f <=> Sends(e, i, vals)
  BY DEF Sends, Unique
<1>3. i.path \notin DOMAIN g
  BY DEF Apart
<1>4. ASSUME Sends(e, i, vals) PROVE f[i.path] = assigned(i, vals)
  <2>1. i \in sent /\ Unique(sent)
    BY <1>4 DEF Sends, Unique
  <2>2. (CHOOSE j \in sent : j.path = i.path) = i
    BY <2>1, ByPath
  <2> QED
    BY <2>1, <2>2
<1> HIDE DEF f, g
<1>5. i.path \in DOMAIN Over(f, g) <=> Sends(e, i, vals)
  BY <1>2, <1>3 DEF Over
<1>6. Sends(e, i, vals) => Over(f, g)[i.path] = assigned(i, vals)
  BY <1>2, <1>4 DEF Over
<1> QED
  BY <1>1, <1>5, <1>6

LEMMA RequestSays ==
  ASSUME NEW e, CatalogEntry(e), NEW vals, NEW i \in e.inputs
  PROVE  LET request == assembleCatalogInput(e, vals)
         IN  /\ i.path \in DOMAIN request <=> Sends(e, i, vals)
             /\ Sends(e, i, vals) => request[i.path] = assigned(i, vals)
<1> DEFINE rows(c) == [n \in DOMAIN vals[c.path] |->
                         assembleBindings(e, c.rowInputs, c.rowConstants, vals[c.path][n])]
           filled == {c \in e.collections : applies(c, vals)}
           f == [p \in {c.path : c \in filled} |-> rows(CHOOSE c \in filled : c.path = p)]
           g == assembleBindings(e, e.inputs, e.constants, vals)
<1>1. assembleCatalogInput(e, vals) = Over(f, g)
  BY DEF assembleCatalogInput
<1>2. i.path \notin DOMAIN f
  BY DEF CatalogEntry, Apart
<1>3. /\ i.path \in DOMAIN g <=> Sends(e, i, vals)
      /\ Sends(e, i, vals) => g[i.path] = assigned(i, vals)
  BY BindingsSay DEF CatalogEntry
<1> HIDE DEF f, g
<1>4. i.path \in DOMAIN Over(f, g) <=> Sends(e, i, vals)
  BY <1>2, <1>3 DEF Over
<1>5. Sends(e, i, vals) => Over(f, g)[i.path] = assigned(i, vals)
  BY <1>2, <1>3 DEF Over
<1> QED
  BY <1>1, <1>4, <1>5

LEMMA RequestRows ==
  ASSUME NEW e, CatalogEntry(e), NEW vals, NEW c \in e.collections
  PROVE  assembleCatalogInput(e, vals)[c.path] =
           [n \in DOMAIN vals[c.path] |->
              assembleBindings(e, c.rowInputs, c.rowConstants, vals[c.path][n])]
<1> DEFINE rows(d) == [n \in DOMAIN vals[d.path] |->
                         assembleBindings(e, d.rowInputs, d.rowConstants, vals[d.path][n])]
           filled == {d \in e.collections : applies(d, vals)}
           f == [p \in {d.path : d \in filled} |-> rows(CHOOSE d \in filled : d.path = p)]
           g == assembleBindings(e, e.inputs, e.constants, vals)
<1>1. assembleCatalogInput(e, vals) = Over(f, g)
  BY DEF assembleCatalogInput
<1>2. c \in filled /\ Unique(filled)
  BY DEF CatalogEntry, CatalogCollection, applies, Unique
<1>3. (CHOOSE d \in filled : d.path = c.path) = c
  BY <1>2, ByPath
<1>4. c.path \in DOMAIN f /\ f[c.path] = rows(c)
  <2> HIDE DEF rows
  <2> QED
    BY <1>2, <1>3
<1> HIDE DEF f, g
<1>5. Over(f, g)[c.path] = rows(c)
  BY <1>4 DEF Over
<1> QED
  BY <1>1, <1>5

(* What is asked and applies is sent if it is stated, as it stands.          *)
LEMMA StatedIsSent ==
  ASSUME IInv, NEW i \in entry.inputs, i.source = "AUTHORED", applies(i, values)
  PROVE  /\ Sends(entry, i, values) <=> Stated(entry, i, values)
         /\ Sends(entry, i, values) => assigned(i, values) = values[i.path]
<1>1. CatalogEntry(entry)
  BY CatalogAssumption DEF IInv
<1>2. CatalogInput(i)
  BY <1>1 DEF CatalogEntry
<1>3. ~selectableFact(entry, i) =>
        i.path \in DOMAIN values /\ Answers(i, values[i.path])
  BY DEF IInv, Kept, QuestionsAnswered
<1>4. i.path \in DOMAIN values => assigned(i, values) = values[i.path]
  BY DEF assigned
<1>5. CASE i.required
  <2>1. i.path \in DOMAIN values
    BY <1>3, <1>5 DEF selectableFact
  <2>2. Sends(entry, i, values)
    BY <1>5 DEF Sends, omittedInput
  <2> QED
    BY <1>4, <1>5, <2>1, <2>2 DEF Stated
<1>6. CASE selectableFact(entry, i)
  <2>1. ~implicitChoice(i, assigned(i, values))
    BY <1>6 DEF selectableFact, implicitChoice
  <2>2. CASE i.path \in DOMAIN values
    <3>1. selectedFact(entry, i, values)
      BY <1>6, <2>2 DEF selectableFact, selectedFact
    <3>2. Sends(entry, i, values)
      BY <2>1, <2>2, <3>1 DEF Sends, omittedInput
    <3> QED
      BY <1>4, <1>6, <2>2, <3>2 DEF Stated
  <2>3. CASE i.path \notin DOMAIN values
    <3>1. assigned(i, values) = Null
      BY <1>2, <1>6, <2>3 DEF assigned, CatalogInput, optioned, selectableFact
    <3>2. ~Sends(entry, i, values)
      BY <1>6, <2>3, <3>1 DEF Sends, omittedInput, emptyInput, selectedFact, selectableFact
    <3> QED
      BY <2>3, <3>2 DEF Stated
  <2> QED
    BY <2>2, <2>3
<1>7. CASE ~i.required /\ ~selectableFact(entry, i)
  <2>1. i.path \in DOMAIN values /\ values[i.path] # Null
    BY <1>3, <1>7 DEF Answers
  <2>2. ~selectedFact(entry, i, values)
    BY <1>7 DEF selectedFact, selectableFact
  <2>3. ~implicitChoice(i, values[i.path])
    BY <1>2, <1>7 DEF CatalogInput, implicitChoice
  <2>4. Sends(entry, i, values) <=> values[i.path] # ""
    BY <1>4, <1>7, <2>1, <2>2, <2>3 DEF Sends, omittedInput, emptyInput
  <2>5. Stated(entry, i, values) <=> values[i.path] # ""
    BY <1>7, <2>1 DEF Stated
  <2> QED
    BY <1>4, <2>1, <2>4, <2>5
<1> QED
  BY <1>5, <1>6, <1>7

(* A form shows a fact with its pair.                                       *)
LEMMA PairsAreShown ==
  ASSUME CatalogEntry(entry), NEW i \in entry.inputs, NEW j \in peerInput(i, entry.inputs)
  PROVE  /\ PairOfFacts(entry, i, j)
         /\ i \in visibleOperationInputs <=> j \in visibleOperationInputs
<1>1. PairOfFacts(entry, i, j)
  BY DEF CatalogEntry
<1>2. j \in entry.inputs /\ j.branches = i.branches
  BY DEF peerInput
<1>3. i.source = j.source /\ i.about = j.about
      /\ i.path # "target.caseReference" /\ j.path # "target.caseReference"
  BY <1>1 DEF PairOfFacts
<1>4. applies(i, values) <=> applies(j, values)
  BY <1>2 DEF applies
<1> QED
  BY <1>1, <1>2, <1>3, <1>4 DEF visibleOperationInputs

LEMMA PeersAreShown ==
  ASSUME CatalogEntry(entry), NEW i \in visibleOperationInputs
  PROVE  peerInput(i, visibleOperationInputs) = peerInput(i, entry.inputs)
<1>1. visibleOperationInputs \subseteq entry.inputs
  BY DEF visibleOperationInputs
<1>2. peerInput(i, visibleOperationInputs) \subseteq peerInput(i, entry.inputs)
  BY <1>1 DEF peerInput
<1>3. ASSUME NEW j \in peerInput(i, entry.inputs)
      PROVE  j \in peerInput(i, visibleOperationInputs)
  <2>1. j \in visibleOperationInputs
    BY <1>1, PairsAreShown
  <2> QED
    BY <2>1 DEF peerInput
<1> QED
  BY <1>2, <1>3

(* The form shown and the request made of it agree.                         *)
LEMMA ShownIsRequested ==
  ASSUME IInv
  PROVE  RequestSaysWhatIsShown
<1>1. CatalogEntry(entry)
  BY CatalogAssumption DEF IInv
<1>2. ASSUME NEW i \in entry.inputs
      PROVE  /\ i.path \in DOMAIN Request <=> Sends(entry, i, values)
             /\ Sends(entry, i, values) => Request[i.path] = assigned(i, values)
  BY <1>1, RequestSays DEF Request
<1>3. ASSUME NEW i \in visibleOperationInputs
      PROVE  /\ i.path \in DOMAIN Request <=> Stated(entry, i, values)
             /\ i.path \in DOMAIN Request => Request[i.path] = values[i.path]
  <2>1. i \in entry.inputs /\ i.source = "AUTHORED" /\ applies(i, values)
    BY DEF visibleOperationInputs
  <2> QED
    BY <1>2, <2>1, StatedIsSent
<1>4. ASSUME NEW i \in visibleOperationInputs, NEW j \in peerInput(i, visibleOperationInputs)
      PROVE  i.path \in DOMAIN Request <=> j.path \in DOMAIN Request
  <2>1. i \in entry.inputs /\ j \in visibleOperationInputs /\ j \in entry.inputs
    BY DEF visibleOperationInputs, peerInput
  <2>2. j \in peerInput(i, entry.inputs)
    BY <1>1, PeersAreShown
  <2>3. PairOfFacts(entry, i, j)
    BY <1>1, <2>1, <2>2, PairsAreShown
  <2>4. i.path \in DOMAIN values <=> j.path \in DOMAIN values
    BY <2>1, <2>2 DEF IInv, Kept, PairsAreWhole
  <2>5. Stated(entry, i, values) <=> Stated(entry, j, values)
    <3>1. CASE selectableFact(entry, i)
      BY <2>3, <2>4, <3>1 DEF PairOfFacts, Stated
    <3>2. CASE i.required
      BY <2>3, <2>4, <3>2 DEF PairOfFacts, Stated
    <3> QED
      BY <2>3, <3>1, <3>2 DEF PairOfFacts
  <2> QED
    BY <1>3, <2>1, <2>5
<1>5. ASSUME NEW i \in entry.inputs, i.source = "AUTHORED", i.path \in DOMAIN Request
      PROVE  i \in visibleOperationInputs \/ Withdrawn(i) \/ i.path = "target.caseReference"
  <2>1. applies(i, values)
    BY <1>2, <1>5 DEF Sends
  <2> QED
    BY <1>5, <2>1 DEF visibleOperationInputs, Withdrawn
<1>6. ASSUME NEW c \in entry.collections, NEW n \in DOMAIN Request[c.path], NEW i \in c.rowInputs
      PROVE  i.path \in DOMAIN Request[c.path][n] <=> applies(i, values[c.path][n])
  <2> DEFINE row == values[c.path][n]
  <2>1. CatalogCollection(entry, c)
    BY <1>1 DEF CatalogEntry
  <2>2. Request[c.path] = [m \in DOMAIN values[c.path] |->
                             assembleBindings(entry, c.rowInputs, c.rowConstants, values[c.path][m])]
    BY <1>1, RequestRows DEF Request
  <2>3. n \in DOMAIN values[c.path]
        /\ Request[c.path][n] = assembleBindings(entry, c.rowInputs, c.rowConstants, row)
    BY <1>6, <2>2
  <2>4. values[c.path] \in Seq(Rows(c))
    BY DEF IInv, Kept, RowsAreKept
  <2>5. row \in Rows(c)
    BY <2>3, <2>4
  <2> HIDE DEF row
  <2>6. i.path \in DOMAIN row /\ Answers(i, row[i.path])
    BY <2>5 DEF Rows, RowPaths
  <2>7. i.path \in DOMAIN Request[c.path][n] <=> Sends(entry, i, row)
    BY <2>1, <2>3, BindingsSay DEF CatalogCollection
  <2>8. ~omittedInput(entry, i, row, assigned(i, row))
    <3>1. CatalogInput(i) /\ (i.required \/ (i.kind = "GROUP" /\ i.default # Null))
      BY <2>1 DEF CatalogCollection
    <3>2. CASE i.required
      BY <3>2 DEF omittedInput
    <3>3. CASE i.kind = "GROUP" /\ i.default # Null
      <4>1. row[i.path] # Null /\ row[i.path] # ""
        BY <2>6, <3>1, <3>3, OptionsOf DEF Answers, optioned, isRole
      <4>2. assigned(i, row) = row[i.path]
        BY <2>6 DEF assigned
      <4> QED
        BY <3>3, <4>1, <4>2 DEF omittedInput, emptyInput, implicitChoice
    <3> QED
      BY <3>1, <3>2, <3>3
  <2>9. Sends(entry, i, row) <=> applies(i, row)
    BY <2>8 DEF Sends
  <2> QED
    BY <2>7, <2>9 DEF row
<1> QED
  BY <1>3, <1>4, <1>5, <1>6 DEF RequestSaysWhatIsShown

(* The three questions of a grant are there and always answered.            *)
LEMMA GrantIsAsked ==
  ASSUME IInv, entry.kind = "GRANT"
  PROVE  \E role, principal, scope \in entry.inputs :
           /\ role.path = "act.role" /\ principal.path = "target.kind" /\ scope.path = "act.scope.kind"
           /\ isRole(role) /\ ~isRole(principal) /\ ~isRole(scope)
           /\ \A i \in {role, principal, scope} :
                /\ CatalogInput(i) /\ optioned(i) /\ ~selectableFact(entry, i)
                /\ i.source = "AUTHORED" /\ applies(i, values)
                /\ i.path \in DOMAIN values /\ Stated(entry, i, values)
<1>1. CatalogEntry(entry) /\ GrantEntry(entry)
  BY CatalogAssumption DEF IInv, CatalogEntry
<1>2. PICK role, principal, scope \in entry.inputs :
        /\ role.path = "act.role" /\ principal.path = "target.kind" /\ scope.path = "act.scope.kind"
        /\ isRole(role) /\ principal.kind = "CHOICE" /\ ~isRole(principal)
        /\ scope.kind = "GROUP" /\ scope.default # Null
        /\ \A i \in {role, principal, scope} : i.source = "AUTHORED" /\ i.branches = {}
  BY <1>1, Zenon DEF GrantEntry
<1>3. entry.subject = "AUTHORITY"
  BY <1>1 DEF GrantEntry
<1>4. ASSUME NEW i \in {role, principal, scope}
      PROVE  /\ CatalogInput(i) /\ optioned(i) /\ ~selectableFact(entry, i)
             /\ i.source = "AUTHORED" /\ applies(i, values)
             /\ i.path \in DOMAIN values /\ Stated(entry, i, values)
  <2>1. i \in entry.inputs /\ i.source = "AUTHORED" /\ i.branches = {}
    BY <1>2
  <2>2. CatalogInput(i)
    BY <1>1, <2>1 DEF CatalogEntry
  <2>3. optioned(i)
    BY <1>2 DEF optioned, isRole
  <2>4. ~selectableFact(entry, i)
    BY <1>3 DEF selectableFact
  <2>5. applies(i, values)
    BY <2>1 DEF applies
  <2>6. i.path \in DOMAIN values /\ Answers(i, values[i.path])
    BY <2>1, <2>4 DEF IInv, Kept, QuestionsAnswered
  <2>7. i.required \/ values[i.path] # ""
    <3>1. CASE i.kind = "CHOICE"
      BY <2>2, <3>1 DEF CatalogInput
    <3>2. CASE i = scope
      <4>1. "" \notin optionsOf(i) /\ ~isRole(i)
        BY <1>2, <2>2, <2>3, <3>2, OptionsOf DEF isRole
      <4> QED
        BY <2>3, <2>6, <4>1 DEF Answers
    <3> QED
      BY <1>2, <3>1, <3>2 DEF isRole
  <2> QED
    BY <2>1, <2>2, <2>3, <2>4, <2>5, <2>6, <2>7 DEF Stated
<1>5. ~isRole(scope)
  BY <1>2 DEF isRole
<1> QED
  BY <1>2, <1>4, <1>5

LEMMA GrantIsAdmissible ==
  ASSUME IInv
  PROVE  GrantsAreAdmissible
<1>1. SUFFICES ASSUME entry.kind = "GRANT"
               PROVE  \/ Request["act.role"] = ""
                      \/ roleAdmitted(Request["act.role"], Request["target.kind"], Request["act.scope.kind"])
  BY DEF GrantsAreAdmissible
<1>2. CatalogEntry(entry)
  BY CatalogAssumption DEF IInv
<1>3. ASSUME NEW i \in entry.inputs, i.source = "AUTHORED", applies(i, values), Stated(entry, i, values)
      PROVE  Request[i.path] = values[i.path]
  BY <1>2, <1>3, RequestSays, StatedIsSent DEF Request
<1>4. /\ Request["act.role"] = values["act.role"]
      /\ Request["target.kind"] = values["target.kind"]
      /\ Request["act.scope.kind"] = values["act.scope.kind"]
  BY <1>1, <1>3, GrantIsAsked
<1> QED
  BY <1>1, <1>4 DEF IInv, Kept, RoleIsAdmitted

-------------------------------------------------------------------------------
(* What a form starts with.                                                 *)

LEMMA AuthoredAnswers ==
  ASSUME NEW i, CatalogInput(i), NEW case \in Cases \cup {NoneKnown}
  PROVE  Answers(i, authoredValue(i, case))
<1>1. Null # ""
  BY DEF Null
<1>2. prefilledValue(case, i) # Null
  <2>1. ASSUME case.known PROVE case \in Cases
    BY <2>1 DEF NoneKnown
  <2>2. ASSUME case.known, i.path \in DOMAIN case.facts PROVE case.facts[i.path] # Null
    BY <2>1, <2>2, CatalogAssumption
  <2> QED
    BY <1>1, <2>2 DEF prefilledValue
<1>3. CASE isRole(i)
  BY <1>1, <1>3 DEF Answers, authoredValue
<1>4. CASE ~isRole(i) /\ optioned(i)
  <2>1. /\ Head(i.options) \in optionsOf(i)
        /\ i.default # Null => i.default \in optionsOf(i)
        /\ Null \notin optionsOf(i)
    BY <1>4, OptionsOf
  <2>2. i.kind = "GROUP" /\ ~i.required /\ i.default = Null => "" \in optionsOf(i)
    BY DEF optionsOf
  <2>3. authoredValue(i, case) \in optionsOf(i)
    BY <1>4, <2>1, <2>2 DEF authoredValue, optioned
  <2> QED
    BY <2>1, <2>3 DEF Answers
<1>5. CASE ~isRole(i) /\ ~optioned(i)
  <2>1. authoredValue(i, case) = prefilledValue(case, i)
    BY <1>5 DEF authoredValue, CatalogInput, optioned
  <2> QED
    BY <1>2, <1>5, <2>1 DEF Answers
<1> QED
  BY <1>3, <1>4, <1>5

LEMMA MarkOfRow ==
  ASSUME NEW c, NEW i \in c.rowInputs, CatalogInput(i), NEW v, Answers(i, v),
         v \in Texts \cup {""} \/ v \in optionsOf(i)
  PROVE  v \in RowMarks(c)
  BY DEF RowMarks

LEMMA RowStarts ==
  ASSUME NEW e, NEW c, CatalogCollection(e, c)
  PROVE  initialCollectionRow(c) \in Rows(c)
<1> DEFINE row == initialCollectionRow(c)
<1>1. row = [p \in RowPaths(c) |-> authoredValue(CHOOSE i \in c.rowInputs : i.path = p, NoneKnown)]
  BY DEF initialCollectionRow, RowPaths
<1>2. ASSUME NEW i \in c.rowInputs
      PROVE  row[i.path] = authoredValue(i, NoneKnown)
  <2>1. (CHOOSE j \in c.rowInputs : j.path = i.path) = i
    BY ByPath DEF CatalogCollection
  <2> QED
    BY <1>1, <2>1 DEF RowPaths
<1>3. ASSUME NEW i \in c.rowInputs
      PROVE  Answers(i, row[i.path]) /\ row[i.path] \in RowMarks(c)
  <2>1. CatalogInput(i)
    BY DEF CatalogCollection
  <2>2. Answers(i, authoredValue(i, NoneKnown))
    BY <2>1, AuthoredAnswers
  <2>3. authoredValue(i, NoneKnown) \in {""} \cup optionsOf(i)
    <3>1. CASE optioned(i)
      BY <2>2, <3>1 DEF Answers
    <3>2. CASE ~optioned(i)
      BY <2>1, <3>2 DEF CatalogInput, optioned, authoredValue, prefilledValue, NoneKnown
    <3> QED
      BY <3>1, <3>2
  <2> QED
    BY <1>2, <2>1, <2>2, <2>3, MarkOfRow
<1> HIDE DEF row
<1>4. row \in [RowPaths(c) -> RowMarks(c)]
  <2>1. ASSUME NEW p \in RowPaths(c) PROVE row[p] \in RowMarks(c)
    BY <1>3 DEF RowPaths
  <2> QED
    BY <1>1, <2>1
<1> QED
  BY <1>3, <1>4 DEF Rows, row

LEMMA InitEstablishes == Init => IInv
<1>1. SUFFICES ASSUME Init PROVE IInv
  OBVIOUS
<1>2. CatalogEntry(entry)
  BY <1>1, CatalogAssumption DEF Init
<1>3. current \in Cases \cup {NoneKnown}
  BY <1>1 DEF Init
<1> DEFINE asked == {i \in entry.inputs : ~selectableFact(entry, i)}
           f == [p \in {i.path : i \in asked} |->
                   initialValue(CHOOSE i \in asked : i.path = p, current)]
           start(c) == [n \in 1..c.minimumItems |-> initialCollectionRow(c)]
           g == [p \in {c.path : c \in entry.collections} |->
                   start(CHOOSE c \in entry.collections : c.path = p)]
<1>4. values = Over(f, g)
  BY <1>1 DEF Init, initialOperationValues
<1>5. ASSUME NEW i \in asked
      PROVE  i.path \in DOMAIN f /\ f[i.path] = initialValue(i, current)
  <2>1. Unique(asked)
    BY <1>2 DEF CatalogEntry, Unique
  <2>2. (CHOOSE j \in asked : j.path = i.path) = i
    BY <2>1, ByPath
  <2> QED
    BY <2>2
<1>6. ASSUME NEW i \in asked
      PROVE  i.path \in DOMAIN values /\ values[i.path] = initialValue(i, current)
  <2> HIDE DEF asked, f, g
  <2> QED
    BY <1>4, <1>5 DEF Over
<1>7. ASSUME NEW c \in entry.collections
      PROVE  c.path \in DOMAIN values /\ values[c.path] = start(c)
  <2>1. (CHOOSE d \in entry.collections : d.path = c.path) = c
    BY <1>2, ByPath DEF CatalogEntry
  <2>2. c.path \in DOMAIN g /\ g[c.path] = start(c)
    <3> HIDE DEF start
    <3> QED
      BY <2>1
  <2>3. c.path \notin DOMAIN f
    BY <1>2 DEF CatalogEntry, Apart
  <2> HIDE DEF f, g, start
  <2> QED
    BY <1>4, <2>2, <2>3 DEF Over
<1>8. QuestionsAnswered(values)
  <2>1. ASSUME NEW i \in entry.inputs, ~selectableFact(entry, i)
        PROVE  /\ i.path \in DOMAIN values
               /\ i.source = "AUTHORED" => Answers(i, values[i.path])
    <3>1. i.path \in DOMAIN values /\ values[i.path] = initialValue(i, current)
      BY <1>6, <2>1
    <3>2. Answers(i, authoredValue(i, current))
      BY <1>2, <1>3, AuthoredAnswers DEF CatalogEntry
    <3> QED
      BY <3>1, <3>2 DEF initialValue
  <2> QED
    BY <2>1 DEF QuestionsAnswered
<1>9. PairsAreWhole(values)
  <2>1. ASSUME NEW i \in entry.inputs
        PROVE  i.path \in DOMAIN values <=> ~selectableFact(entry, i)
    <3>1. i.path \in DOMAIN f <=> ~selectableFact(entry, i)
      BY <1>2 DEF CatalogEntry, Unique
    <3>2. i.path \notin DOMAIN g
      BY <1>2 DEF CatalogEntry, Apart
    <3> HIDE DEF f, g
    <3> QED
      BY <1>4, <3>1, <3>2 DEF Over
  <2>2. ASSUME NEW i \in entry.inputs, NEW j \in peerInput(i, entry.inputs)
        PROVE  i.path \in DOMAIN values <=> j.path \in DOMAIN values
    <3>1. j \in entry.inputs
      BY DEF peerInput
    <3>2. selectableFact(entry, i) <=> selectableFact(entry, j)
      BY <1>2 DEF CatalogEntry, PairOfFacts
    <3> QED
      BY <2>1, <3>1, <3>2
  <2> QED
    BY <2>2 DEF PairsAreWhole
<1>10. RowsAreKept(values)
  <2>1. ASSUME NEW c \in entry.collections
        PROVE  c.path \in DOMAIN values /\ values[c.path] \in Seq(Rows(c))
    <3>1. CatalogCollection(entry, c)
      BY <1>2 DEF CatalogEntry
    <3>2. initialCollectionRow(c) \in Rows(c) /\ c.minimumItems \in Nat
      BY <3>1, RowStarts DEF CatalogCollection
    <3>3. start(c) \in Seq(Rows(c))
      BY <3>2
    <3> QED
      BY <1>7, <3>3
  <2> QED
    BY <2>1 DEF RowsAreKept
<1>11. RoleIsAdmitted(values)
  <2>1. SUFFICES ASSUME entry.kind = "GRANT" PROVE values["act.role"] = ""
    BY DEF RoleIsAdmitted
  <2>2. PICK role \in entry.inputs :
          role.path = "act.role" /\ isRole(role) /\ role.source = "AUTHORED"
    BY <1>2, <2>1 DEF CatalogEntry, GrantEntry
  <2>3. ~selectableFact(entry, role)
    BY <2>2 DEF selectableFact, isRole
  <2>4. values["act.role"] = initialValue(role, current)
    BY <1>6, <2>2, <2>3
  <2> QED
    BY <2>2, <2>4 DEF initialValue, authoredValue
<1> QED
  BY <1>1, <1>3, <1>8, <1>9, <1>10, <1>11 DEF IInv, Kept, Init

-------------------------------------------------------------------------------
(* What a person does to it.                                                *)

(* A change of one answer, and of the role if it is then not admitted.       *)
LEMMA EditOutcome ==
  ASSUME NEW path, NEW v, edit(path, v)
  PROVE  /\ entry' = entry /\ current' = current
         /\ ~clearsRoleSelection(path, v) =>
              /\ DOMAIN values' = DOMAIN values \cup {path}
              /\ values'[path] = v
              /\ \A p \in DOMAIN values : p # path => values'[p] = values[p]
         /\ clearsRoleSelection(path, v) =>
              /\ DOMAIN values' = DOMAIN values \cup {path, "act.role"}
              /\ path # "act.role" /\ values'[path] = v
              /\ values'["act.role"] = ""
              /\ \A p \in DOMAIN values : p \notin {path, "act.role"} => values'[p] = values[p]
<1>1. entry' = entry /\ current' = current
  BY DEF edit
<1>2. CASE ~clearsRoleSelection(path, v)
  <2>1. values' = With(values, path, v)
    BY <1>2 DEF edit
  <2>2. /\ DOMAIN values' = DOMAIN values \cup {path}
        /\ values'[path] = v
        /\ \A p \in DOMAIN values : p # path => values'[p] = values[p]
    BY <2>1 DEF With
  <2> QED
    BY <1>1, <1>2, <2>2
<1>3. CASE clearsRoleSelection(path, v)
  <2>1. values' = With(With(values, path, v), "act.role", "")
    BY <1>3 DEF edit
  <2>2. path # "act.role"
    BY <1>3 DEF clearsRoleSelection
  <2>3. /\ DOMAIN values' = DOMAIN values \cup {path, "act.role"}
        /\ values'[path] = v
        /\ values'["act.role"] = ""
        /\ \A p \in DOMAIN values : p \notin {path, "act.role"} => values'[p] = values[p]
    BY <2>1, <2>2 DEF With
  <2> QED
    BY <1>1, <1>3, <2>2, <2>3
<1> QED
  BY <1>2, <1>3

(* An answer to a question keeps the form; a role is admitted where it is
   chosen.                                                                  *)
LEMMA AnswerKeeps ==
  ASSUME IInv, NEW i \in entry.inputs, NEW v, edit(i.path, v),
         i.path \in DOMAIN values,
         selectableFact(entry, i) \/ Answers(i, v),
         entry.kind = "GRANT" /\ i.path = "act.role" =>
           roleAdmitted(v, values["target.kind"], values["act.scope.kind"])
  PROVE  IInv'
<1>1. CatalogEntry(entry)
  BY CatalogAssumption DEF IInv
<1>2. entry' = entry /\ current' = current
  BY EditOutcome
<1>3. \A k \in entry.inputs : k.path = i.path => k = i
  BY <1>1 DEF CatalogEntry, Unique
<1>4. \A c \in entry.collections : c.path # i.path
  BY <1>1 DEF CatalogEntry, Apart
<1>5. /\ QuestionsAnswered(values) /\ PairsAreWhole(values)
      /\ RowsAreKept(values) /\ RoleIsAdmitted(values)
  BY DEF IInv, Kept
<1>6. CASE ~clearsRoleSelection(i.path, v)
  <2>1. /\ DOMAIN values' = DOMAIN values /\ values'[i.path] = v
        /\ \A p \in DOMAIN values : p # i.path => values'[p] = values[p]
    <3>1. /\ DOMAIN values' = DOMAIN values \cup {i.path} /\ values'[i.path] = v
          /\ \A p \in DOMAIN values : p # i.path => values'[p] = values[p]
      BY <1>6, EditOutcome, Zenon
    <3>2. DOMAIN values \cup {i.path} = DOMAIN values
      OBVIOUS
    <3> QED
      BY <3>1, <3>2, Zenon
  <2>2. QuestionsAnswered(values)'
    BY <1>2, <1>3, <1>5, <2>1 DEF QuestionsAnswered
  <2>3. PairsAreWhole(values)'
    BY <1>2, <1>5, <2>1 DEF PairsAreWhole
  <2>4. RowsAreKept(values)'
    BY <1>2, <1>4, <1>5, <2>1 DEF RowsAreKept
  <2>5. RoleIsAdmitted(values)'
    <3>1. SUFFICES ASSUME entry.kind = "GRANT"
                   PROVE  \/ values'["act.role"] = ""
                          \/ roleAdmitted(values'["act.role"], values'["target.kind"], values'["act.scope.kind"])
      BY <1>2 DEF RoleIsAdmitted
    <3>2. {"act.role", "target.kind", "act.scope.kind"} \subseteq DOMAIN values
      BY <3>1, GrantIsAsked
    <3>3. entry.subject = "AUTHORITY"
      BY <1>1, <3>1 DEF CatalogEntry, GrantEntry
    <3>4. CASE i.path \in {"target.kind", "act.scope.kind"}
      <4> DEFINE next == With(values, i.path, v)
      <4>1. roleAdmitted(next["act.role"], next["target.kind"], next["act.scope.kind"])
        BY <1>6, <3>1, <3>3, <3>4 DEF clearsRoleSelection
      <4>2. \A p \in DOMAIN values : next[p] = values'[p]
        BY <2>1 DEF With
      <4> HIDE DEF next
      <4> QED
        BY <3>2, <4>1, <4>2
    <3>5. CASE i.path = "act.role"
      BY <2>1, <3>1, <3>2, <3>5
    <3>6. CASE i.path \notin {"act.role", "target.kind", "act.scope.kind"}
      BY <1>5, <2>1, <3>1, <3>2, <3>6 DEF RoleIsAdmitted
    <3> QED
      BY <3>4, <3>5, <3>6
  <2> QED
    BY <1>2, <2>2, <2>3, <2>4, <2>5 DEF IInv, Kept
<1>7. CASE clearsRoleSelection(i.path, v)
  <2>1. entry.kind = "GRANT"
    BY <1>7 DEF clearsRoleSelection
  <2>2. PICK role \in entry.inputs :
          role.path = "act.role" /\ isRole(role) /\ role.path \in DOMAIN values
    BY <2>1, GrantIsAsked
  <2>3. /\ DOMAIN values' = DOMAIN values /\ i.path # "act.role" /\ values'[i.path] = v
        /\ values'["act.role"] = ""
        /\ \A p \in DOMAIN values : p \notin {i.path, "act.role"} => values'[p] = values[p]
    <3>1. /\ DOMAIN values' = DOMAIN values \cup {i.path, "act.role"}
          /\ i.path # "act.role" /\ values'[i.path] = v
          /\ values'["act.role"] = ""
          /\ \A p \in DOMAIN values : p \notin {i.path, "act.role"} => values'[p] = values[p]
      BY <1>7, EditOutcome, Zenon
    <3>2. DOMAIN values \cup {i.path, "act.role"} = DOMAIN values
      BY <2>2
    <3> QED
      BY <3>1, <3>2, Zenon
  <2>4. \A k \in entry.inputs : k.path = "act.role" => k = role
    BY <1>1, <2>2 DEF CatalogEntry, Unique
  <2>5. Answers(role, "")
    BY <2>2 DEF Answers, Null
  <2>6. QuestionsAnswered(values)'
    BY <1>2, <1>3, <1>5, <2>3, <2>4, <2>5 DEF QuestionsAnswered
  <2>7. PairsAreWhole(values)'
    BY <1>2, <1>5, <2>3 DEF PairsAreWhole
  <2>8. RowsAreKept(values)'
    BY <1>1, <1>2, <2>1 DEF RowsAreKept, CatalogEntry, GrantEntry
  <2>9. RoleIsAdmitted(values)'
    BY <2>3 DEF RoleIsAdmitted
  <2> QED
    BY <1>2, <2>6, <2>7, <2>8, <2>9 DEF IInv, Kept
<1> QED
  BY <1>6, <1>7

LEMMA ChoiceKeeps ==
  ASSUME IInv, NEW i \in visibleOperationInputs, ChoiceInput(i)
  PROVE  IInv'
<1>1. CatalogEntry(entry) /\ i \in entry.inputs /\ i.source = "AUTHORED"
  BY CatalogAssumption DEF IInv, visibleOperationInputs
<1>2. PICK option \in optionsOf(i) \ {values[i.path]} :
        /\ ~roleOptionUnavailable(i, option, asRole(values, "target.kind"), asRole(values, "act.scope.kind"))
        /\ edit(i.path, option)
  BY DEF ChoiceInput
<1>3. CatalogInput(i) /\ optioned(i)
  BY <1>1 DEF CatalogEntry, ChoiceInput, optioned
<1>4. Answers(i, option)
  BY <1>2, <1>3, OptionsOf DEF Answers
<1>5. i.path \in DOMAIN values
  BY <1>1, <1>3 DEF IInv, Kept, QuestionsAnswered, selectableFact, optioned
<1>6. ASSUME entry.kind = "GRANT", i.path = "act.role"
      PROVE  roleAdmitted(option, values["target.kind"], values["act.scope.kind"])
  <2>1. isRole(i) /\ {"target.kind", "act.scope.kind"} \subseteq DOMAIN values
    BY <1>1, <1>6, GrantIsAsked DEF CatalogEntry, Unique
  <2>2. entry.subject = "AUTHORITY"
    BY <1>1, <1>6 DEF CatalogEntry, GrantEntry
  <2> QED
    BY <1>2, <1>6, <2>1, <2>2 DEF roleOptionUnavailable, asRole
<1> QED
  BY <1>1, <1>2, <1>4, <1>5, <1>6, AnswerKeeps

(* The questions of a grant that matter here are choices.                   *)
LEMMA TextIsNoRole ==
  ASSUME IInv, NEW i \in entry.inputs, ~optioned(i), entry.kind = "GRANT"
  PROVE  i.path # "act.role"
<1>1. CatalogEntry(entry)
  BY CatalogAssumption DEF IInv
<1> QED
  BY <1>1, GrantIsAsked DEF CatalogEntry, Unique

LEMMA ScalarKeeps ==
  ASSUME IInv, NEW i \in visibleOperationInputs, ScalarInput(i)
  PROVE  IInv'
<1>1. i \in entry.inputs /\ i.path \in DOMAIN values /\ ~optioned(i)
  BY DEF visibleOperationInputs, ScalarInput, optioned
<1>2. PICK text \in Texts : edit(i.path, text)
  BY DEF ScalarInput
<1>3. Answers(i, text)
  BY <1>1, CatalogAssumption DEF Answers
<1>4. entry.kind = "GRANT" => i.path # "act.role"
  BY <1>1, TextIsNoRole
<1> QED
  BY <1>1, <1>2, <1>3, <1>4, AnswerKeeps

LEMMA ClearKeeps ==
  ASSUME IInv, NEW i \in visibleOperationInputs, ClearValue(i)
  PROVE  IInv'
<1>1. CatalogEntry(entry) /\ i \in entry.inputs
  BY CatalogAssumption DEF IInv, visibleOperationInputs
<1>2. selectableFact(entry, i) /\ ~optioned(i)
  BY DEF ClearValue, selectableFact, optioned
<1>3. PICK j \in {i} \cup peerInput(i, visibleOperationInputs) : j.path \in DOMAIN values
  BY DEF ClearValue, Selected
<1>4. i.path \in DOMAIN values
  <2>1. CASE j \in peerInput(i, entry.inputs)
    BY <1>1, <1>3, <2>1 DEF IInv, Kept, PairsAreWhole
  <2> QED
    BY <1>1, <1>3, <2>1, PeersAreShown
<1>5. PICK v : edit(i.path, v)
  BY DEF ClearValue
<1>6. entry.kind = "GRANT" => i.path # "act.role"
  BY <1>1, <1>2, TextIsNoRole
<1> QED
  BY <1>1, <1>2, <1>4, <1>5, <1>6, AnswerKeeps

(* A fact is ticked and unticked with its pair.                             *)
LEMMA FactKeeps ==
  ASSUME IInv, NEW i \in visibleOperationInputs, SelectedFact(i)
  PROVE  IInv'
<1>1. CatalogEntry(entry) /\ i \in entry.inputs
  BY CatalogAssumption DEF IInv, visibleOperationInputs
<1>2. selectableFact(entry, i)
  BY DEF SelectedFact
<1>3. peerInput(i, visibleOperationInputs) = peerInput(i, entry.inputs)
  BY <1>1, PeersAreShown
<1> DEFINE inputs == {i} \cup peerInput(i, visibleOperationInputs)
           paths == {j.path : j \in inputs}
           picked == [p \in paths |-> prefilledValue(current, CHOOSE j \in inputs : j.path = p)]
<1>4. editFields([p \in {} |-> ""], paths) \/ editFields(picked, {})
  BY Zenon DEF SelectedFact
<1>5. /\ entry' = entry /\ current' = current
      /\ DOMAIN values' = DOMAIN values \ paths \/ DOMAIN values' = DOMAIN values \cup paths
      /\ \A p \in DOMAIN values' : p \notin paths => values'[p] = values[p]
  <2>2. CASE editFields([p \in {} |-> ""], paths)
    <3> HIDE DEF paths
    <3> QED
      BY <2>2 DEF editFields
  <2>3. CASE editFields(picked, {})
    <3>1. DOMAIN picked = paths
      OBVIOUS
    <3> HIDE DEF picked, paths
    <3> QED
      BY <2>3, <3>1 DEF editFields
  <2> QED
    BY <1>4, <2>2, <2>3
<1>6. \A j \in inputs : j \in entry.inputs /\ selectableFact(entry, j)
  <2>1. ASSUME NEW j \in peerInput(i, entry.inputs)
        PROVE  j \in entry.inputs /\ selectableFact(entry, j)
    BY <1>1, <1>2, PairsAreShown DEF peerInput, PairOfFacts
  <2> QED
    BY <1>1, <1>2, <1>3, <2>1
<1>7. \A k \in entry.inputs : k.path \in paths => k \in inputs
  BY <1>1, <1>6 DEF CatalogEntry, Unique
<1>8. \A c \in entry.collections : c.path \notin paths
  BY <1>1, <1>6 DEF CatalogEntry, Apart
<1>9. \A k \in entry.inputs : i \notin peerInput(k, entry.inputs)
  <2>1. SUFFICES ASSUME NEW k \in entry.inputs, i \in peerInput(k, entry.inputs)
                 PROVE  FALSE
    OBVIOUS
  <2>2. selectableFact(entry, k) /\ k \in visibleOperationInputs
    BY <1>1, <1>2, <2>1, PairsAreShown DEF PairOfFacts
  <2>3. i \in peerInput(k, visibleOperationInputs)
    BY <1>1, <2>1, <2>2, PeersAreShown
  <2>4. pairedChild(i, visibleOperationInputs)
    BY <2>2, <2>3 DEF pairedChild
  <2> QED
    BY <2>4 DEF SelectedFact
<1>10. QuestionsAnswered(values)'
  <2>1. ASSUME NEW k \in entry.inputs, ~selectableFact(entry, k)
        PROVE  /\ k.path \in DOMAIN values'
               /\ k.source = "AUTHORED" => Answers(k, values'[k.path])
    <3>1. k.path \notin paths
      BY <1>6, <1>7, <2>1
    <3>2. /\ k.path \in DOMAIN values
          /\ k.source = "AUTHORED" => Answers(k, values[k.path])
      BY <2>1 DEF IInv, Kept, QuestionsAnswered
    <3> HIDE DEF paths
    <3> QED
      BY <1>5, <3>1, <3>2
  <2> QED
    BY <1>5, <2>1 DEF QuestionsAnswered
<1>11. PairsAreWhole(values)'
  <2>1. ASSUME NEW a \in entry.inputs, NEW b \in peerInput(a, entry.inputs)
        PROVE  a.path \in DOMAIN values' <=> b.path \in DOMAIN values'
    <3>1. b \in entry.inputs /\ b.path = a.pairs
      BY DEF peerInput
    <3>2. a.path \in DOMAIN values <=> b.path \in DOMAIN values
      BY DEF IInv, Kept, PairsAreWhole
    <3>3. CASE a = i
      <4>1. a.path \in paths /\ b.path \in paths
        BY <1>3, <3>3
      <4> HIDE DEF paths
      <4> QED
        BY <1>5, <4>1
    <3>4. CASE a # i
      <4>1. b # i
        BY <1>9
      <4>2. a \notin peerInput(i, entry.inputs)
        <5>1. SUFFICES ASSUME a \in peerInput(i, entry.inputs) PROVE FALSE
          OBVIOUS
        <5>2. PairOfFacts(entry, i, a)
          BY <1>1, <5>1, PairsAreShown
        <5> QED
          BY <3>1, <5>2 DEF PairOfFacts
      <4>3. b \notin peerInput(i, entry.inputs)
        <5>1. SUFFICES ASSUME b \in peerInput(i, entry.inputs) PROVE FALSE
          OBVIOUS
        <5>2. PairOfFacts(entry, i, b)
          BY <1>1, <5>1, PairsAreShown
        <5> QED
          BY <3>1, <3>4, <5>2 DEF PairOfFacts
      <4>4. a.path \notin paths /\ b.path \notin paths
        BY <1>3, <1>7, <3>1, <3>4, <4>1, <4>2, <4>3
      <4> HIDE DEF paths
      <4> QED
        BY <1>5, <3>2, <4>4
    <3> QED
      BY <3>3, <3>4
  <2> QED
    BY <1>5, <2>1 DEF PairsAreWhole
<1>12. RowsAreKept(values)'
  <2>1. ASSUME NEW c \in entry.collections
        PROVE  c.path \in DOMAIN values' /\ values'[c.path] \in Seq(Rows(c))
    <3>1. c.path \in DOMAIN values /\ values[c.path] \in Seq(Rows(c))
      BY DEF IInv, Kept, RowsAreKept
    <3> HIDE DEF paths
    <3> QED
      BY <1>5, <1>8, <3>1
  <2> QED
    BY <1>5, <2>1 DEF RowsAreKept
<1>13. RoleIsAdmitted(values)'
  <2>1. entry.kind # "GRANT"
    BY <1>1, <1>2 DEF CatalogEntry, GrantEntry, selectableFact
  <2> QED
    BY <1>5, <2>1 DEF RoleIsAdmitted
<1> QED
  BY <1>5, <1>10, <1>11, <1>12, <1>13 DEF IInv, Kept

(* A change of the rows of a collection.                                    *)
LEMMA RowsEditKeeps ==
  ASSUME IInv, NEW c \in entry.collections, NEW rows \in Seq(Rows(c)), edit(c.path, rows)
  PROVE  IInv'
<1>1. CatalogEntry(entry)
  BY CatalogAssumption DEF IInv
<1>2. entry.kind # "GRANT"
  BY <1>1 DEF CatalogEntry, GrantEntry
<1>3. ~clearsRoleSelection(c.path, rows)
  BY <1>2 DEF clearsRoleSelection
<1>4. /\ entry' = entry /\ current' = current
      /\ DOMAIN values' = DOMAIN values \cup {c.path} /\ values'[c.path] = rows
      /\ \A p \in DOMAIN values : p # c.path => values'[p] = values[p]
  BY <1>3, EditOutcome, Zenon
<1>5. \A i \in entry.inputs : i.path # c.path
  BY <1>1 DEF CatalogEntry, Apart
<1>6. \A d \in entry.collections : d.path = c.path => d = c
  BY <1>1 DEF CatalogEntry, Unique
<1>7. QuestionsAnswered(values)'
  BY <1>4, <1>5 DEF IInv, Kept, QuestionsAnswered
<1>8. PairsAreWhole(values)'
  <2>1. ASSUME NEW i \in entry.inputs, NEW j \in peerInput(i, entry.inputs)
        PROVE  i.path \in DOMAIN values' <=> j.path \in DOMAIN values'
    <3>1. j \in entry.inputs
      BY DEF peerInput
    <3>2. i.path \in DOMAIN values <=> j.path \in DOMAIN values
      BY DEF IInv, Kept, PairsAreWhole
    <3> QED
      BY <1>4, <1>5, <3>1, <3>2
  <2> QED
    BY <1>4, <2>1 DEF PairsAreWhole
<1>9. RowsAreKept(values)'
  <2>1. ASSUME NEW d \in entry.collections
        PROVE  d.path \in DOMAIN values' /\ values'[d.path] \in Seq(Rows(d))
    <3>1. d.path \in DOMAIN values /\ values[d.path] \in Seq(Rows(d))
      BY DEF IInv, Kept, RowsAreKept
    <3>2. CASE d = c
      BY <1>4, <3>2
    <3>3. CASE d # c
      BY <1>4, <1>6, <3>1, <3>3
    <3> QED
      BY <3>2, <3>3
  <2> QED
    BY <1>4, <2>1 DEF RowsAreKept
<1>10. RoleIsAdmitted(values)'
  BY <1>2, <1>4 DEF RoleIsAdmitted
<1> QED
  BY <1>4, <1>7, <1>8, <1>9, <1>10 DEF IInv, Kept

LEMMA RowsAreSequences ==
  ASSUME IInv, NEW c \in entry.collections
  PROVE  CatalogCollection(entry, c) /\ values[c.path] \in Seq(Rows(c))
  BY CatalogAssumption DEF IInv, Kept, RowsAreKept, CatalogEntry

LEMMA RowKeeps ==
  ASSUME IInv, NEW c \in entry.collections, NEW n \in DOMAIN values[c.path], CollectionRow(c, n)
  PROVE  IInv'
<1>1. CatalogCollection(entry, c) /\ values[c.path] \in Seq(Rows(c))
  BY RowsAreSequences
<1> DEFINE row == values[c.path][n]
           changed(path, v) == [values[c.path] EXCEPT ![n] = With(row, path, v)]
<1>2. row \in Rows(c)
  BY <1>1
<1>3. PICK i \in c.rowInputs : \E v \in Texts \cup optionsOf(i) :
        /\ i.kind # "TEXT" => v \in optionsOf(i)
        /\ edit(c.path, changed(i.path, v))
  <2>1. CASE \E i \in c.rowInputs : i.kind = "TEXT" /\ \E text \in Texts : edit(c.path, changed(i.path, text))
    BY <2>1
  <2>2. CASE \E i \in c.rowInputs : \E option \in optionsOf(i) : edit(c.path, changed(i.path, option))
    BY <2>2
  <2> QED
    BY <2>1, <2>2 DEF CollectionRow
<1>4. PICK v \in Texts \cup optionsOf(i) :
        /\ i.kind # "TEXT" => v \in optionsOf(i)
        /\ edit(c.path, changed(i.path, v))
  BY <1>3
<1>5. CatalogInput(i)
  BY <1>1 DEF CatalogCollection
<1>6. Answers(i, v)
  <2>1. CASE optioned(i)
    BY <1>4, <1>5, <2>1, OptionsOf DEF Answers, optioned
  <2>2. CASE ~optioned(i)
    <3>1. i.options = << >> /\ i.kind # "GROUP"
      BY <1>5, <2>2 DEF CatalogInput, optioned
    <3>2. optionsOf(i) = {}
      BY <3>1 DEF optionsOf
    <3>3. v # Null
      BY <1>4, <3>2, CatalogAssumption
    <3> QED
      BY <2>2, <3>3 DEF Answers
  <2> QED
    BY <2>1, <2>2
<1>7. v \in RowMarks(c)
  BY <1>4, <1>5, <1>6, MarkOfRow
<1> HIDE DEF row
<1>8. With(row, i.path, v) \in Rows(c)
  <2>1. row \in [RowPaths(c) -> RowMarks(c)] /\ \A k \in c.rowInputs : Answers(k, row[k.path])
    BY <1>2 DEF Rows
  <2>2. i.path \in RowPaths(c)
    BY DEF RowPaths
  <2>3. With(row, i.path, v) = [p \in RowPaths(c) |-> IF p = i.path THEN v ELSE row[p]]
    BY <2>1, <2>2 DEF With
  <2>4. With(row, i.path, v) \in [RowPaths(c) -> RowMarks(c)]
    BY <1>7, <2>1, <2>3
  <2>5. \A k \in c.rowInputs : k.path = i.path => k = i
    BY <1>1 DEF CatalogCollection, Unique
  <2>6. ASSUME NEW k \in c.rowInputs PROVE Answers(k, With(row, i.path, v)[k.path])
    BY <1>6, <2>1, <2>3, <2>5 DEF RowPaths
  <2> QED
    BY <2>4, <2>6 DEF Rows
<1>9. changed(i.path, v) \in Seq(Rows(c))
  BY <1>1, <1>8
<1> QED
  BY <1>4, <1>9, RowsEditKeeps

LEMMA AddKeeps ==
  ASSUME IInv, NEW c \in entry.collections, AddRow(c)
  PROVE  IInv'
<1>1. initialCollectionRow(c) \in Rows(c) /\ values[c.path] \in Seq(Rows(c))
  BY RowsAreSequences, RowStarts
<1>2. Append(values[c.path], initialCollectionRow(c)) \in Seq(Rows(c))
  BY <1>1
<1> QED
  BY <1>2, RowsEditKeeps DEF AddRow

LEMMA RemoveKeeps ==
  ASSUME IInv, NEW c \in entry.collections, NEW n \in DOMAIN values[c.path], RemoveRow(c, n)
  PROVE  IInv'
<1> DEFINE rows == values[c.path]
           left == SubSeq(rows, 1, n - 1) \o SubSeq(rows, n + 1, Len(rows))
<1>1. rows \in Seq(Rows(c))
  BY RowsAreSequences
<1>2. edit(c.path, left)
  BY DEF RemoveRow
<1> HIDE DEF rows
<1>3. n \in 1..Len(rows)
  BY <1>1 DEF rows
<1>4. SubSeq(rows, 1, n - 1) \in Seq(Rows(c))
  BY <1>1, <1>3, SubSeqProperties
<1>5. SubSeq(rows, n + 1, Len(rows)) \in Seq(Rows(c))
  BY <1>1, <1>3, SubSeqProperties
<1>6. left \in Seq(Rows(c))
  BY <1>4, <1>5, ConcatProperties
<1> QED
  BY <1>2, <1>6, RowsEditKeeps DEF rows

LEMMA NextPreserves == IInv /\ [Next]_vars => IInv'
<1>1. SUFFICES ASSUME IInv, [Next]_vars PROVE IInv'
  OBVIOUS
<1>2. ASSUME NEW i \in visibleOperationInputs,
             ChoiceInput(i) \/ ScalarInput(i) \/ SelectedFact(i) \/ ClearValue(i)
      PROVE  IInv'
  BY <1>1, <1>2, ChoiceKeeps, ScalarKeeps, FactKeeps, ClearKeeps, Zenon
<1>3. ASSUME NEW c \in entry.collections, AddRow(c)
      PROVE  IInv'
  BY <1>1, <1>3, AddKeeps, Zenon
<1>4. ASSUME NEW c \in entry.collections, NEW n \in DOMAIN values[c.path],
             CollectionRow(c, n) \/ RemoveRow(c, n)
      PROVE  IInv'
  BY <1>1, <1>4, RowKeeps, RemoveKeeps, Zenon
<1>5. ASSUME Disclosed
      PROVE  IInv'
  BY <1>1, <1>5 DEF Disclosed, IInv, Kept, QuestionsAnswered, PairsAreWhole, RowsAreKept, RoleIsAdmitted
<1>6. ASSUME UNCHANGED vars
      PROVE  IInv'
  BY <1>1, <1>6 DEF vars, IInv, Kept, QuestionsAnswered, PairsAreWhole, RowsAreKept, RoleIsAdmitted
<1> QED
  BY <1>1, <1>2, <1>3, <1>4, <1>5, <1>6 DEF Next

LEMMA Invariance == Spec => []IInv
  BY InitEstablishes, NextPreserves, PTL DEF Spec

(* Whatever the catalog asks and in whatever order it is answered, the
   request says what the form shows (catalogAssembly.ts, operationForm.ts).  *)
THEOREM RequestsSayWhatIsShown == Spec => []RequestSaysWhatIsShown
<1>1. IInv => RequestSaysWhatIsShown
  BY ShownIsRequested
<1> QED
  BY <1>1, Invariance, PTL

(* A grant that is asked for names an admitted role or none, whichever of
   the role, the principal and the scope is chosen last (operationState.ts,
   clearsRoleSelection).                                                    *)
THEOREM GrantsStayAdmissible == Spec => []GrantsAreAdmissible
<1>1. IInv => GrantsAreAdmissible
  BY GrantIsAdmissible
<1> QED
  BY <1>1, Invariance, PTL
=============================================================================
