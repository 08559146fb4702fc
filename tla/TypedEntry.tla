------------------------------- MODULE TypedEntry -------------------------------
(***************************************************************************)
(* Dates and amounts as they are typed into an operation form, in the order,  *)
(* digits and marks of the display locale (DateEntryDraft.tsx,                *)
(* CatalogDate.tsx, dateEntryDraft.ts, amountEntry.ts, localeNumbers.ts and   *)
(* their part of operationState.ts). The form holds the value of the input    *)
(* as it goes on the wire and, beside it, the parts of a date that is not     *)
(* complete; the segments live in the mounted field only, which goes whenever *)
(* settings, a question, a review or the loss of the session covers the form. *)
(* A behaviour is about one input. An editor handed to another person is      *)
(* Workspace's, the latest facts after a conflict BrowserOperation's.         *)
(***************************************************************************)
EXTENDS Naturals, Sequences, FiniteSets

CONSTANTS
  Locales,      \* the display locales: name |-> [decimal, group, digits]
  AmountTexts,  \* the texts a person may type
  Prefill,      \* an amount as the service discloses it
  PartValues    \* the numbers typed into a segment

ASSUME LocalesAssumption ==
  /\ PartValues # {} /\ 0 \notin PartValues
  /\ \A l \in DOMAIN Locales : Locales[l].decimal # Locales[l].group

VARIABLES
  displayLocale,
  input,    \* the input in the operation: its kind, value, baseline, date entry and phase
  field,    \* the mounted date field
  cover,    \* what covers the form
  prepared, \* the value in the request under review
  typed     \* ghost: what the person last saw themselves type

entering == <<displayLocale, input, field, cover, prepared, typed>>

(* Dates. A segment without a number is a placeholder, 0 here; a complete
   date stands for its ISO text and NoParts for the empty text.             *)

Parts == {"year", "month", "day"}
NoParts == [part \in Parts |-> 0]
Complete(parts) == \A part \in Parts : parts[part] # 0
ISO(parts) == IF Complete(parts) THEN parts ELSE NoParts
captured(parts) == IF Complete(parts) THEN NoParts ELSE parts
Covered == [mounted |-> FALSE, parts |-> NoParts, previous |-> NoParts, restoring |-> NoParts]

canEdit(f) == f.phase \in {"EDITING", "REVIEWING"}
editInput(f, value) ==
  IF ~canEdit(f) THEN f
  ELSE [f EXCEPT !.entry = NoParts, !.value = value, !.phase = IF f.value = value THEN @ ELSE "EDITING"]
dateEntry(f, canonical, parts) ==
  IF ~canEdit(f) \/ f.value # canonical THEN f
  ELSE IF parts = NoParts THEN [f EXCEPT !.entry = NoParts]
  ELSE [editInput(f, NoParts) EXCEPT !.entry = parts]

\* A bug: a field starts from the value alone.
Mounted_ValueOnly(f) == [mounted |-> TRUE, parts |-> f.value, previous |-> f.value, restoring |-> NoParts]

Mounted(f) == [mounted |-> TRUE, parts |-> f.value, previous |-> f.value, restoring |-> f.entry]

(* React Aria: segments follow a value that changed; at a value that became
   empty they go, unless it was the field itself that emptied it.           *)
Follow(w, f, keeps) ==
  IF w.previous = f.value THEN w
  ELSE [w EXCEPT !.parts = IF f.value # NoParts THEN f.value ELSE IF keeps THEN @ ELSE NoParts]

\* The layout effect after a rendering, with the renderings its restored parts cause.
DateEntryDraft(w, f) ==
  LET seen == IF w.previous = f.value THEN w
              ELSE [w EXCEPT !.previous = f.value, !.restoring = IF f.value = NoParts THEN f.entry ELSE NoParts]
      shown == IF seen.restoring = NoParts THEN seen
               ELSE [seen EXCEPT !.parts = seen.restoring, !.restoring = NoParts]
  IN  IF f.phase = "PREVIEWING" THEN [field |-> w, input |-> f]
      ELSE [field |-> shown, input |-> dateEntry(f, f.value, captured(shown.parts))]

\* An effect that empties the value causes one more rendering, and that is the last.
Settle(w, f, keeps, keepsAfter) ==
  LET first == DateEntryDraft(Follow(w, f, keeps), f)
      second == DateEntryDraft(Follow(first.field, first.input, keepsAfter), first.input)
  IN  field' = second.field /\ input' = second.input

Uncovered(f) == IF f.kind = "DATE" THEN Settle(Mounted(f), f, TRUE, TRUE) ELSE input' = f /\ UNCHANGED field
Shown == cover = {} /\ input.phase # "REVIEWING"
Editable == Shown /\ input.phase = "EDITING"

(* Amounts. A text is its runs of digits, by length, and the marks between
   them; which digits they are and in what script matters only for reading.  *)

Ungrouped(whole, fraction, mark) ==
  [digits |-> "WESTERN", runs |-> <<whole>> \o (IF fraction = 0 THEN <<>> ELSE <<fraction>>),
   marks |-> IF fraction = 0 THEN <<>> ELSE <<mark>>]
isAmountText(text) ==
  \E whole \in 1..18, fraction \in 0..4 : text = Ungrouped(whole, fraction, ".")

normalizeAmountEntry(raw, locale) ==
  LET numbers == Locales[locale]
      decimals == {n \in DOMAIN raw.marks : raw.marks[n] = numbers.decimal}
      last == IF decimals = {} THEN Len(raw.runs) ELSE CHOOSE n \in decimals : TRUE
      whole == SubSeq(raw.marks, 1, last - 1)
      grouped == \E n \in DOMAIN whole : whole[n] = numbers.group
      regular == /\ raw.runs[1] \in 1..3
                 /\ \A n \in DOMAIN whole : whole[n] = numbers.group /\ raw.runs[n + 1] = 3
      normalized ==
        [digits |-> IF raw.digits = numbers.digits THEN "WESTERN" ELSE raw.digits,
         runs |-> (IF grouped THEN <<raw.runs[1] + 3 * (last - 1)>> ELSE SubSeq(raw.runs, 1, last))
                    \o SubSeq(raw.runs, last + 1, Len(raw.runs)),
         marks |-> (IF grouped THEN <<>> ELSE whole)
                    \o (IF decimals = {} THEN <<>> ELSE <<".">>) \o SubSeq(raw.marks, last + 1, Len(raw.marks))]
  IN  IF Cardinality(decimals) > 1 \/ (grouped /\ ~regular) \/ ~isAmountText(normalized)
      THEN raw ELSE normalized

\* What the service discloses is canonical; what a person types keeps the locale it was typed in.
Canonical == "CANONICAL"
captureAmountEntry(text) == [text |-> text, locale |-> displayLocale]
normalizeAmountValues(value) ==
  IF value.locale = Canonical THEN value.text ELSE normalizeAmountEntry(value.text, value.locale)

(* The form.                                                               *)

FreshInput(kind, baseline) ==
  [kind |-> kind, value |-> baseline, baseline |-> baseline, entry |-> NoParts, phase |-> "EDITING"]
FullDate == [part \in Parts |-> CHOOSE n \in PartValues : TRUE]
Unprepared == [ready |-> FALSE]
dirty == input.value # input.baseline \/ input.entry # NoParts

EntryInit ==
  /\ displayLocale \in DOMAIN Locales
  /\ input \in {FreshInput("DATE", date) : date \in {NoParts, FullDate}}
              \cup {FreshInput("AMOUNT", [text |-> Prefill, locale |-> Canonical])}
  /\ field = IF input.kind = "DATE" THEN Mounted(input) ELSE Covered
  /\ cover = {}
  /\ prepared = Unprepared
  /\ typed = input.value

\* A segment gets a number or loses it; a field may or may not report that its date is gone.
TypeSegment(part, number, reports, keeps) ==
  LET parts == [field.parts EXCEPT ![part] = number]
      heard == IF Complete(parts) THEN editInput(input, parts)
               ELSE IF number = 0 /\ reports THEN editInput(input, NoParts) ELSE input
  IN  /\ Editable /\ input.kind = "DATE"
      /\ parts # field.parts
      /\ Settle([field EXCEPT !.parts = parts], heard, TRUE, keeps)
      /\ typed' = parts
      /\ UNCHANGED <<displayLocale, cover, prepared>>

PickDate(date) ==
  /\ Editable /\ input.kind = "DATE"
  /\ Settle(field, editInput(input, date), TRUE, TRUE)
  /\ typed' = date
  /\ UNCHANGED <<displayLocale, cover, prepared>>

TypeAmount(text) ==
  /\ Editable /\ input.kind = "AMOUNT"
  /\ input' = editInput(input, captureAmountEntry(text))
  /\ typed' = [text |-> text, locale |-> displayLocale]
  /\ UNCHANGED <<displayLocale, field, cover, prepared>>

Cover(by) ==
  /\ by \notin cover
  /\ by \in {"SETTINGS", "QUESTION"} => cover = {} /\ input.phase # "PREVIEWING"
  /\ by = "QUESTION" => dirty \/ input.phase = "REVIEWING"
  /\ cover' = cover \cup {by}
  /\ IF by = "SESSION"
     THEN input' = [input EXCEPT !.phase = "EDITING"] /\ prepared' = Unprepared
     ELSE UNCHANGED <<input, prepared>>
  /\ field' = Covered
  /\ UNCHANGED <<displayLocale, typed>>

ChangeDisplayLocale(locale) ==
  /\ cover = {"SETTINGS"} /\ locale # displayLocale
  /\ displayLocale' = locale
  /\ UNCHANGED <<input, field, cover, prepared, typed>>

\* Back from settings, the draft kept, or the same person verified again.
Uncover(by) ==
  /\ by \in cover
  /\ cover' = cover \ {by}
  /\ IF cover' # {} \/ input.phase = "REVIEWING" THEN UNCHANGED <<input, field>> ELSE Uncovered(input)
  /\ UNCHANGED <<displayLocale, prepared, typed>>

DiscardDraft ==
  /\ "QUESTION" \in cover
  /\ cover' = cover \ {"QUESTION"}
  /\ LET f == FreshInput(input.kind, input.baseline)
     IN  IF cover' = {} THEN Uncovered(f) ELSE input' = f /\ UNCHANGED field
  /\ prepared' = Unprepared
  /\ typed' = input.baseline
  /\ UNCHANGED displayLocale

SendForReview ==
  /\ Editable
  /\ input' = [input EXCEPT !.phase = "PREVIEWING"]
  /\ prepared' = [ready |-> TRUE, value |-> IF input.kind = "DATE" THEN input.value ELSE normalizeAmountValues(input.value)]
  /\ UNCHANGED <<displayLocale, field, cover, typed>>

Reviewed ==
  /\ input.phase = "PREVIEWING"
  /\ input' = [input EXCEPT !.phase = "REVIEWING"]
  /\ field' = Covered
  /\ UNCHANGED <<displayLocale, cover, prepared, typed>>

\* A refused or failed preview enables the field again.
NotReviewed ==
  /\ input.phase = "PREVIEWING"
  /\ LET f == [input EXCEPT !.phase = "EDITING"]
     IN  IF input.kind = "DATE" THEN Settle(field, f, TRUE, TRUE) ELSE input' = f /\ UNCHANGED field
  /\ prepared' = Unprepared
  /\ UNCHANGED <<displayLocale, cover, typed>>

ReturnToEdit ==
  /\ cover = {} /\ input.phase = "REVIEWING"
  /\ Uncovered([input EXCEPT !.phase = "EDITING"])
  /\ prepared' = Unprepared
  /\ UNCHANGED <<displayLocale, cover, typed>>

EntryNext ==
  \/ \E part \in Parts, number \in PartValues \cup {0}, reports, keeps \in BOOLEAN :
       TypeSegment(part, number, reports, keeps)
  \/ \E date \in [Parts -> PartValues] : PickDate(date)
  \/ \E text \in AmountTexts : TypeAmount(text)
  \/ \E by \in {"SETTINGS", "QUESTION", "SESSION"} : Cover(by) \/ Uncover(by)
  \/ \E locale \in DOMAIN Locales : ChangeDisplayLocale(locale)
  \/ DiscardDraft \/ SendForReview \/ Reviewed \/ NotReviewed \/ ReturnToEdit

\* The numbers a text can be read as in a locale: written with its marks, in groups
\* or not, or with the point of the wire where the locale does not group by it.
Reads(text, whole, fraction, locale) ==
  LET numbers == Locales[locale]
      groups == (whole - 1) \div 3
      western == [text EXCEPT !.digits = "WESTERN"]
      Group(n) == IF n = 1 THEN whole - 3 * groups ELSE 3
      inGroups == [digits |-> "WESTERN",
                   runs |-> [n \in 1..groups + 1 |-> Group(n)] \o (IF fraction = 0 THEN <<>> ELSE <<fraction>>),
                   marks |-> [n \in 1..groups |-> numbers.group] \o (IF fraction = 0 THEN <<>> ELSE <<numbers.decimal>>)]
  IN  /\ text.digits \in {"WESTERN", numbers.digits}
      /\ \/ western \in {inGroups, Ungrouped(whole, fraction, numbers.decimal)}
         \/ numbers.group # "." /\ western = Ungrouped(whole, fraction, ".")
Meant(t) ==
  LET readings == {n \in (1..18) \X (0..4) : t.locale # Canonical /\ Reads(t.text, n[1], n[2], t.locale)}
  IN  IF readings = {} THEN {t.text} ELSE {Ungrouped(n[1], n[2], ".") : n \in readings}

\* In each locale, what a typed amount becomes in a request is the one number it reads as there.
AmountsReadOnce ==
  \A text \in AmountTexts, l \in DOMAIN Locales :
    {normalizeAmountEntry(text, l)} = Meant([text |-> text, locale |-> l])

(* What a person typed into a date or an amount stays what they typed, through
   settings and another display locale, reviews, refusals, questions and the
   loss of the session: the segments on the page are the typed ones, the form
   counts them as unsaved, an incomplete date is never a value, and a request
   carries the complete date, or the one number the text reads as where it was
   typed, or the text itself if it reads as none.                           *)
TypedEntriesAreKept ==
  /\ input.kind = "DATE" =>
       /\ input.value = ISO(typed) /\ input.entry = captured(typed)
       /\ field.mounted => field.parts = typed
  /\ typed # input.baseline => dirty
  /\ input.phase \in {"PREVIEWING", "REVIEWING"} =>
       prepared.ready /\ {prepared.value} = IF input.kind = "DATE" THEN {ISO(typed)} ELSE Meant(typed)
=============================================================================
