--------------------------- MODULE BrowserPageProofs ---------------------------
(***************************************************************************)
(* What the parts of the signed-in page keep, for every value of their       *)
(* constants: the languages (Presentation), the workspace (Workspace), the   *)
(* access panel (BrowserAuthority), the typed fields (TypedEntry) and the    *)
(* replies (ReplyCorrelation). The parts share no variables, so each has a   *)
(* specification and an inductive invariant of its own.                      *)
(***************************************************************************)
EXTENDS Presentation, Workspace, BrowserAuthority, TypedEntry, ReplyCorrelation,
        WellFoundedInduction, SequenceTheorems, TLAPS

-------------------------------------------------------------------------------
(* Least and greatest elements of sets of numbers.                          *)

LEMMA LeastIsLeast ==
  ASSUME NEW S \in SUBSET Nat, S # {}
  PROVE  Least(S) \in S /\ \A m \in S : Least(S) <= m
<1>1. PICK n \in S : \A m \in S : ~ (<<m, n>> \in OpToRel(<, Nat))
  BY WFMin, NatLessThanWellFounded, Zenon
<1>2. \A m \in S : ~ (m < n)
  BY <1>1, Zenon DEF OpToRel
<1>3. \A m \in S : n <= m
  BY <1>2
<1> QED
  BY <1>3 DEF Least

LEMMA GreatestExists ==
  ASSUME NEW S \in SUBSET Nat, S # {}, NEW bound \in Nat, \A n \in S : n <= bound
  PROVE  \E n \in S : \A m \in S : m <= n
<1> DEFINE bounds == {b \in Nat : \A m \in S : m <= b}
<1>1. bounds \in SUBSET Nat /\ bounds # {}
  OBVIOUS
<1> DEFINE least == Least(bounds)
<1>2. least \in bounds /\ \A b \in bounds : least <= b
  BY <1>1, LeastIsLeast
<1>3. SUFFICES ASSUME least \notin S PROVE FALSE
  BY <1>2
<1> HIDE DEF least
<1>4. \A m \in S : m \in Nat /\ m <= least /\ m # least
  BY <1>2, <1>3
<1>5. least - 1 \in Nat
  <2>1. PICK m \in S : TRUE
    OBVIOUS
  <2> QED
    BY <1>2, <1>4, <2>1
<1>6. \A m \in S : m <= least - 1
  BY <1>2, <1>4
<1>7. least - 1 \in bounds
  BY <1>5, <1>6
<1> QED
  BY <1>2, <1>5, <1>7

LEMMA EntryOfSeq ==
  ASSUME NEW S, NEW s \in Seq(S), NEW i \in DOMAIN s
  PROVE  s[i] \in S
  OBVIOUS

-------------------------------------------------------------------------------
(* Languages.                                                               *)

PresentationSpec == PresentationInit /\ [][PresentationNext]_presentation

Provided == [language : Languages, displayLocale : displayLocales, ready : BOOLEAN,
             pending : Languages \cup {NoTag}, failed : Languages \cup {NoTag},
             persistenceFailed : BOOLEAN, changed : BOOLEAN, detected : BOOLEAN]

PresentationTypes ==
  /\ state \in Provided
  /\ generation \in Nat
  /\ loads \subseteq [language : Languages, identity : Nat, initiated : BOOLEAN]
  /\ installed \subseteq Languages
  /\ stored \in {NoPreferences} \cup [language : Languages, displayLocale : displayLocales]
  /\ asked \in Languages

(* Only the load begun last may still change the page, it loads what is awaited,
   and the load the page began by itself is over once a language is shown.    *)
LoadRules ==
  /\ state.pending = NoTag \/ state.failed = NoTag
  /\ state.changed => state.ready
  /\ \A l \in loads :
       /\ l.identity <= generation
       /\ l.identity = generation => l.language = state.pending /\ (state.ready => l.initiated)
  /\ \A l, m \in loads : l.identity = m.identity => l = m

PresentationInvariant == PresentationTypes /\ LoadRules /\ LatestChoiceRules

LEMMA MatchingLanguageType ==
  ASSUME NEW tag \in Seq(STRING)
  PROVE  matchingLanguage(tag) \in Languages \cup {NoTag}
<1> DEFINE known == {n \in 1..Len(tag) : SubSeq(tag, 1, n) \in Languages \cup DOMAIN Aliases}
           longest == CHOOSE n \in known : \A m \in known : m <= n
           range == SubSeq(tag, 1, longest)
<1>1. CASE known = {}
  BY <1>1 DEF matchingLanguage
<1>2. CASE known # {}
  <2>1. known \in SUBSET Nat /\ Len(tag) \in Nat /\ \A n \in known : n <= Len(tag)
    OBVIOUS
  <2>2. \E n \in known : \A m \in known : m <= n
    BY <1>2, <2>1, GreatestExists
  <2>3. longest \in known
    BY <2>2
  <2>4. range \in Languages \cup DOMAIN Aliases
    BY <2>3
  <2>5. matchingLanguage(tag) = IF range \in Languages THEN range ELSE Aliases[range]
    BY <1>2 DEF matchingLanguage
  <2> QED
    BY <2>4, <2>5, LanguagesAssumption
<1> QED
  BY <1>1, <1>2

LEMMA DefaultsAreOffered ==
  /\ DefaultLanguage \in Languages /\ DefaultLanguage # NoTag
  /\ DefaultLocale \in displayLocales
  BY LanguagesAssumption DEF displayLocales

LEMMA ResolvedAreOffered ==
  ASSUME NEW tag \in Seq(STRING)
  PROVE  resolveLanguage(tag) \in Languages /\ resolveDisplayLocale(tag) \in displayLocales
  BY MatchingLanguageType, DefaultsAreOffered
  DEF resolveLanguage, resolveDisplayLocale, Otherwise

LEMMA MatchingLocaleType ==
  ASSUME NEW tag \in Seq(STRING)
  PROVE  matchingLocale(tag) \in displayLocales \cup {NoTag}
<1> DEFINE speaking == {n \in DOMAIN DisplayOptions : DisplayOptions[n].language = matchingLanguage(tag)}
           sharing == {n \in DOMAIN DisplayOptions : DisplayOptions[n].value[1] = tag[1]}
           fitting == IF speaking # {} THEN speaking ELSE sharing
<1>1. DOMAIN DisplayOptions \subseteq Nat
  BY TagsAssumption
<1>2. fitting \in SUBSET (DOMAIN DisplayOptions)
  OBVIOUS
<1>3. matchingLocale(tag) = IF tag \in displayLocales THEN tag
                            ELSE IF fitting = {} THEN NoTag ELSE DisplayOptions[Least(fitting)].value
  BY DEF matchingLocale
<1> HIDE DEF fitting
<1>4. fitting # {} => Least(fitting) \in DOMAIN DisplayOptions
  BY <1>1, <1>2, LeastIsLeast
<1> QED
  BY <1>3, <1>4 DEF displayLocales

\* What a browser asks for, whatever that is, is answered by what the page has.
LEMMA NegotiatedAreOffered ==
  ASSUME NEW requested \in BrowserTags
  PROVE  negotiatePreferences(requested) \in [language : Languages, displayLocale : displayLocales]
<1> DEFINE speakable == {n \in DOMAIN requested : matchingLanguage(requested[n]) \notin {NoTag, Pseudolanguage}}
           displayable == {n \in DOMAIN requested : matchingLocale(requested[n]) # NoTag}
<1>1. requested \in Seq(Seq(STRING))
  BY TagsAssumption
<1>2. DOMAIN requested \subseteq Nat /\ \A n \in DOMAIN requested : requested[n] \in Seq(STRING)
  BY <1>1
<1>3. speakable # {} => Least(speakable) \in speakable
  BY <1>2, LeastIsLeast
<1>4. displayable # {} => Least(displayable) \in displayable
  BY <1>2, LeastIsLeast
<1>5. speakable # {} => matchingLanguage(requested[Least(speakable)]) \in Languages
  BY <1>2, <1>3, MatchingLanguageType
<1>6. displayable # {} => matchingLocale(requested[Least(displayable)]) \in displayLocales
  BY <1>2, <1>4, MatchingLocaleType
<1> QED
  BY <1>5, <1>6, DefaultsAreOffered DEF negotiatePreferences

LEMMA LoadedAreOffered ==
  ASSUME NEW text \in {NoPreferences} \cup [language : Languages, displayLocale : displayLocales],
         NEW requested \in BrowserTags
  PROVE  parsePreferences(text, negotiatePreferences(requested))
           \in [language : Languages, displayLocale : displayLocales]
<1>1. CASE text = NoPreferences
  BY <1>1, NegotiatedAreOffered DEF parsePreferences
<1>2. CASE text # NoPreferences
  <2>1. text.language \in Seq(STRING) /\ text.displayLocale \in displayLocales
    BY <1>2, TagsAssumption
  <2>2. PICK i \in DOMAIN DisplayOptions : text.displayLocale = DisplayOptions[i].value
    BY <2>1 DEF displayLocales
  <2>3. DisplayOptions[i] \in [value : Seq(STRING), language : Seq(STRING)]
    BY TagsAssumption, EntryOfSeq, Zenon
  <2>4. text.displayLocale \in Seq(STRING)
    BY <2>2, <2>3
  <2> QED
    BY <1>2, <2>1, <2>4, ResolvedAreOffered DEF parsePreferences
<1> QED
  BY <1>1, <1>2

\* A page that has just been loaded awaits the language it found and shows nothing.
LEMMA LoadedPage ==
  ASSUME NEW text \in {NoPreferences} \cup [language : Languages, displayLocale : displayLocales],
         NEW requested \in BrowserTags
  PROVE  LET page == Loaded(text, requested)
         IN  /\ page \in Provided /\ page.pending = page.language /\ page.failed = NoTag
             /\ ~page.ready /\ ~page.changed
<1> DEFINE found == parsePreferences(text, negotiatePreferences(requested))
           detected == text = NoPreferences
           page == [language |-> found.language, displayLocale |-> found.displayLocale,
                    ready |-> FALSE, pending |-> found.language, failed |-> NoTag,
                    persistenceFailed |-> FALSE, changed |-> FALSE, detected |-> detected]
<1>1. found \in [language : Languages, displayLocale : displayLocales] /\ detected \in BOOLEAN
  BY LoadedAreOffered
<1>2. Loaded(text, requested) = page
  BY DEF Loaded
<1> HIDE DEF found, detected
<1>3. page \in Provided /\ page.pending = page.language /\ page.failed = NoTag
  BY <1>1 DEF Provided
<1> QED
  BY <1>2, <1>3

LEMMA PresentationInitHolds ==
  PresentationInit => PresentationInvariant
<1> SUFFICES ASSUME PresentationInit PROVE PresentationInvariant
  OBVIOUS
<1>1. PICK requested \in BrowserTags, readable \in BOOLEAN :
        state = Loaded(IF readable THEN stored ELSE NoPreferences, requested)
  BY DEF PresentationInit
<1>2. (IF readable THEN stored ELSE NoPreferences)
        \in {NoPreferences} \cup [language : Languages, displayLocale : displayLocales]
  BY DEF PresentationInit
<1>3. /\ state \in Provided /\ state.pending = state.language /\ state.failed = NoTag
      /\ ~state.ready /\ ~state.changed
  BY <1>1, <1>2, LoadedPage
<1>4. PresentationTypes
  BY <1>3 DEF PresentationInit, PresentationTypes, Provided, Load
<1>5. LoadRules
  BY <1>3 DEF PresentationInit, LoadRules, Load
<1>6. LatestChoiceRules
  BY <1>3, LanguagesAssumption DEF PresentationInit, LatestChoiceRules, Provided, Load, Otherwise
<1> QED
  BY <1>4, <1>5, <1>6 DEF PresentationInvariant

LEMMA ReloadHolds ==
  ASSUME PresentationInvariant, NEW requested \in BrowserTags, Reload(requested)
  PROVE  PresentationInvariant'
<1>1. stored \in {NoPreferences} \cup [language : Languages, displayLocale : displayLocales]
  BY DEF PresentationInvariant, PresentationTypes
<1>2. /\ state' \in Provided /\ state'.pending = state'.language /\ state'.failed = NoTag
      /\ ~state'.ready /\ ~state'.changed
  BY <1>1, LoadedPage DEF Reload
<1>3. PresentationTypes'
  BY <1>1, <1>2 DEF Reload, PresentationTypes, Provided, Load
<1>4. LoadRules'
  BY <1>2 DEF Reload, LoadRules, Load
<1>5. LatestChoiceRules'
  BY <1>2, LanguagesAssumption DEF Reload, LatestChoiceRules, Provided, Load, Otherwise
<1> QED
  BY <1>3, <1>4, <1>5 DEF PresentationInvariant

(* Showing a language whose catalog is installed, once no load may change it. *)
LEMMA ActivateHolds ==
  ASSUME PresentationInvariant,
         NEW language \in Languages, NEW initiated \in BOOLEAN, NEW saved \in BOOLEAN,
         activate(language, initiated, saved), asked' = language,
         initiated \/ ~state.ready,
         catalogLanguage(language) \in installed', installed' \subseteq Languages,
         generation' \in Nat, generation' >= generation,
         loads' \subseteq loads, \A l \in loads' : l.identity # generation'
  PROVE  PresentationInvariant'
<1> DEFINE failing == IF initiated THEN ~saved ELSE state.persistenceFailed
           changed == state.changed \/ initiated
           detected == state.detected /\ ~initiated
           next == [language |-> language, displayLocale |-> state.displayLocale]
<1>1. PresentationTypes /\ LoadRules /\ LatestChoiceRules /\ NoTag \notin Languages
  BY LanguagesAssumption DEF PresentationInvariant
<1>2. failing \in BOOLEAN /\ changed \in BOOLEAN /\ detected \in BOOLEAN
  BY <1>1 DEF PresentationTypes, Provided
<1>3. state' = [state EXCEPT !.language = language, !.ready = TRUE, !.pending = NoTag, !.failed = NoTag,
                             !.persistenceFailed = failing, !.changed = changed, !.detected = detected]
  BY DEF activate
<1>4. /\ initiated => changed /\ failing = ~saved /\ stored' = IF saved THEN next ELSE stored
      /\ ~initiated => changed = state.changed /\ stored' = stored
  BY <1>1 DEF activate, savePreferences, PresentationTypes, Provided
<1>5. next \in [language : Languages, displayLocale : displayLocales]
  BY <1>1 DEF PresentationTypes, Provided
<1>6. next.language = language /\ next.displayLocale = state.displayLocale
  OBVIOUS
<1> HIDE DEF failing, changed, detected
<1>7. state' \in Provided /\ state'.language = language /\ state'.ready /\ state'.pending = NoTag
      /\ state'.failed = NoTag /\ state'.persistenceFailed = failing /\ state'.changed = changed
      /\ state'.displayLocale = state.displayLocale
  BY <1>1, <1>2, <1>3 DEF PresentationTypes, Provided
<1>8. preferences(state') = next
  BY <1>7 DEF preferences
<1> HIDE DEF next
<1>9. PresentationTypes'
  BY <1>1, <1>4, <1>5, <1>7 DEF PresentationTypes, Provided
<1>10. LoadRules'
  <2>1. \A l \in loads' : l.identity \in Nat /\ l.identity <= generation'
    BY <1>1 DEF LoadRules, PresentationTypes
  <2> QED
    BY <1>1, <1>7, <2>1 DEF LoadRules
<1>11. catalogLanguage(state'.language) \in installed' /\ asked' = state'.language
  BY <1>7
<1>12. state'.changed /\ ~state'.persistenceFailed => stored' = preferences(state')
  <2>1. CASE initiated
    BY <1>4, <1>7, <1>8, <2>1
  <2>2. CASE ~initiated
    BY <1>1, <1>4, <1>7, <2>2 DEF LoadRules
  <2> QED
    BY <2>1, <2>2
<1>13. LatestChoiceRules'
  BY <1>7, <1>11, <1>12 DEF LatestChoiceRules, languageLoaded, Otherwise
<1> QED
  BY <1>9, <1>10, <1>13 DEF PresentationInvariant

LEMMA LoadEndsHolds ==
  ASSUME PresentationInvariant, NEW l \in loads, NEW saved \in BOOLEAN, LoadEnds(l, saved)
  PROVE  PresentationInvariant'
<1>1. PresentationTypes /\ LoadRules /\ LatestChoiceRules /\ NoTag \notin Languages
  BY LanguagesAssumption DEF PresentationInvariant
<1>2. l.language \in Languages /\ l.initiated \in BOOLEAN /\ l.identity \in Nat
  BY <1>1 DEF PresentationTypes
<1>3. catalogLanguage(l.language) \in Languages
  BY <1>2, LanguagesAssumption DEF catalogLanguage
<1>4. /\ loads' = loads \ {l} /\ installed' = installed \cup {catalogLanguage(l.language)}
      /\ generation' = generation /\ asked' = asked
  BY DEF LoadEnds
<1>5. CASE l.identity = generation
  <2>1. activate(l.language, l.initiated, saved)
    BY <1>5 DEF LoadEnds
  <2>2. l.language = state.pending /\ (state.ready => l.initiated)
    BY <1>1, <1>5 DEF LoadRules
  <2>3. asked = l.language
    BY <1>1, <1>2, <2>2 DEF LatestChoiceRules, Otherwise
  <2>4. \A m \in loads' : m.identity # generation
    BY <1>1, <1>4, <1>5 DEF LoadRules
  <2>5. generation \in Nat /\ installed' \subseteq Languages
    BY <1>1, <1>3, <1>4 DEF PresentationTypes
  <2> QED
    BY <1>2, <1>4, <2>1, <2>2, <2>3, <2>4, <2>5, ActivateHolds
<1>6. CASE l.identity # generation
  <2>1. state' = state /\ stored' = stored
    BY <1>6 DEF LoadEnds
  <2>2. PresentationTypes'
    BY <1>1, <1>3, <1>4, <2>1 DEF PresentationTypes
  <2>3. LoadRules'
    BY <1>1, <1>4, <2>1 DEF LoadRules
  <2>4. LatestChoiceRules'
    BY <1>1, <1>4, <1>6, <2>1 DEF LatestChoiceRules, languageLoaded, preferences
  <2> QED
    BY <2>2, <2>3, <2>4 DEF PresentationInvariant
<1> QED
  BY <1>5, <1>6

LEMMA LoadFailsHolds ==
  ASSUME PresentationInvariant, NEW l \in loads, LoadFails(l)
  PROVE  PresentationInvariant'
<1>1. PresentationTypes /\ LoadRules /\ LatestChoiceRules /\ NoTag \notin Languages
  BY LanguagesAssumption DEF PresentationInvariant
<1>2. l.language \in Languages
  BY <1>1 DEF PresentationTypes
<1>3. /\ loads' = loads \ {l} /\ installed' = installed
      /\ generation' = generation /\ asked' = asked /\ stored' = stored
  BY DEF LoadFails
<1>4. CASE l.identity = generation
  <2>1. /\ state' \in Provided /\ state'.pending = NoTag /\ state'.failed = l.language
        /\ state'.language = state.language /\ state'.ready = state.ready
        /\ state'.displayLocale = state.displayLocale /\ state'.changed = state.changed
        /\ state'.persistenceFailed = state.persistenceFailed
    BY <1>1, <1>2, <1>4 DEF LoadFails, PresentationTypes, Provided
  <2>2. asked = l.language
    BY <1>1, <1>2, <1>4 DEF LoadRules, LatestChoiceRules, Otherwise
  <2>3. PresentationTypes'
    BY <1>1, <1>3, <2>1 DEF PresentationTypes
  <2>4. LoadRules'
    BY <1>1, <1>3, <1>4, <2>1 DEF LoadRules
  <2>5. preferences(state') = preferences(state)
    BY <2>1 DEF preferences
  <2>6. LatestChoiceRules'
    BY <1>1, <1>2, <1>3, <2>1, <2>2, <2>5 DEF LatestChoiceRules, languageLoaded, Otherwise
  <2> QED
    BY <2>3, <2>4, <2>6 DEF PresentationInvariant
<1>5. CASE l.identity # generation
  <2>1. state' = state
    BY <1>5 DEF LoadFails
  <2>2. PresentationTypes'
    BY <1>1, <1>3, <2>1 DEF PresentationTypes
  <2>3. LoadRules'
    BY <1>1, <1>3, <2>1 DEF LoadRules
  <2>4. LatestChoiceRules'
    BY <1>1, <1>3, <1>5, <2>1 DEF LatestChoiceRules, languageLoaded, preferences
  <2> QED
    BY <2>2, <2>3, <2>4 DEF PresentationInvariant
<1> QED
  BY <1>4, <1>5

LEMMA RequestHolds ==
  ASSUME PresentationInvariant, NEW language \in Languages, NEW saved \in BOOLEAN,
         requestLanguage(language, saved)
  PROVE  PresentationInvariant'
<1>1. PresentationTypes /\ LoadRules /\ LatestChoiceRules /\ NoTag \notin Languages
  BY LanguagesAssumption DEF PresentationInvariant
<1>2. /\ generation \in Nat /\ generation' = generation + 1 /\ asked' = language
      /\ installed' = installed
  BY <1>1 DEF requestLanguage, PresentationTypes
<1>3. \A l \in loads : l.identity \in Nat /\ l.identity <= generation
  BY <1>1 DEF PresentationTypes, LoadRules
<1>4. CASE languageLoaded(language)
  <2>1. activate(language, TRUE, saved) /\ loads' = loads
    BY <1>4 DEF requestLanguage
  <2>2. catalogLanguage(language) \in installed' /\ installed' \subseteq Languages
    BY <1>1, <1>2, <1>4 DEF languageLoaded, PresentationTypes
  <2>3. /\ generation' \in Nat /\ generation' >= generation
        /\ loads' \subseteq loads /\ \A l \in loads' : l.identity # generation'
    BY <1>2, <1>3, <2>1
  <2> QED
    BY <1>2, <2>1, <2>2, <2>3, ActivateHolds
<1>5. CASE ~languageLoaded(language)
  <2> DEFINE new == Load(language, generation + 1, TRUE)
  <2>1. loads' = loads \cup {new} /\ stored' = stored
    BY <1>5 DEF requestLanguage
  <2>2. /\ new \in [language : Languages, identity : Nat, initiated : BOOLEAN]
        /\ new.language = language /\ new.identity = generation + 1 /\ new.initiated
    BY <1>2 DEF Load
  <2> HIDE DEF new
  <2>3. /\ state' \in Provided /\ state'.pending = language /\ state'.failed = NoTag
        /\ state'.language = state.language /\ state'.ready = state.ready
        /\ state'.displayLocale = state.displayLocale /\ state'.changed = state.changed
        /\ state'.persistenceFailed = state.persistenceFailed
    BY <1>1, <1>5 DEF requestLanguage, PresentationTypes, Provided
  <2>4. PresentationTypes'
    BY <1>1, <1>2, <2>1, <2>2, <2>3 DEF PresentationTypes
  <2>5. LoadRules'
    <3>1. \A l \in loads' : l = new \/ (l \in loads /\ l.identity < generation + 1)
      BY <1>2, <1>3, <2>1
    <3>2. \A l \in loads' :
            /\ l.identity <= generation'
            /\ l.identity = generation' => l.language = state'.pending /\ (state'.ready => l.initiated)
      BY <1>2, <1>3, <2>2, <2>3, <3>1
    <3>3. \A l, m \in loads' : l.identity = m.identity => l = m
      BY <1>1, <1>2, <1>3, <2>2, <3>1 DEF LoadRules
    <3>4. state'.failed = NoTag /\ (state'.changed => state'.ready)
      BY <1>1, <2>3 DEF LoadRules
    <3> QED
      BY <3>2, <3>3, <3>4 DEF LoadRules
  <2>6. preferences(state') = preferences(state)
    BY <2>3 DEF preferences
  <2>7. LatestChoiceRules'
    BY <1>1, <1>2, <2>1, <2>2, <2>3, <2>6 DEF LatestChoiceRules, languageLoaded, Otherwise
  <2> QED
    BY <2>4, <2>5, <2>7 DEF PresentationInvariant
<1> QED
  BY <1>4, <1>5

LEMMA ChooseDisplayLocaleHolds ==
  ASSUME PresentationInvariant, NEW locale \in displayLocales, NEW saved \in BOOLEAN,
         ChooseDisplayLocale(locale, saved)
  PROVE  PresentationInvariant'
<1>1. PresentationTypes /\ LoadRules /\ LatestChoiceRules
  BY DEF PresentationInvariant
<1>2. /\ state' \in Provided /\ state'.displayLocale = locale /\ state'.ready /\ state.ready
      /\ state'.persistenceFailed = ~saved /\ state'.changed
      /\ state'.language = state.language /\ state'.pending = state.pending
      /\ state'.failed = state.failed
  BY <1>1 DEF ChooseDisplayLocale, PresentationTypes, Provided
<1>3. UNCHANGED <<generation, loads, installed, asked>>
  BY DEF ChooseDisplayLocale
<1>4. stored' = IF saved THEN preferences(state') ELSE stored
  BY DEF ChooseDisplayLocale, savePreferences
<1>5. preferences(state') \in [language : Languages, displayLocale : displayLocales]
  BY <1>2 DEF preferences, Provided
<1>6. PresentationTypes'
  BY <1>1, <1>2, <1>3, <1>4, <1>5 DEF PresentationTypes
<1>7. LoadRules'
  BY <1>1, <1>2, <1>3 DEF LoadRules
<1>8. LatestChoiceRules'
  BY <1>1, <1>2, <1>3, <1>4 DEF LatestChoiceRules, languageLoaded, Otherwise
<1> QED
  BY <1>6, <1>7, <1>8 DEF PresentationInvariant

(* However loads overlap, fail and end, and whatever is chosen meanwhile, the
   page shows, awaits or reports as failed the language chosen last, never one
   without its catalog, and stores what it shows (PresentationProvider.tsx).  *)
THEOREM LatestChoiceHolds == PresentationSpec => []LatestChoiceRules
<1>1. PresentationInvariant /\ [PresentationNext]_presentation => PresentationInvariant'
  <2> SUFFICES ASSUME PresentationInvariant, [PresentationNext]_presentation
               PROVE  PresentationInvariant'
    OBVIOUS
  <2>1. ASSUME NEW l \in loads, NEW saved \in BOOLEAN, LoadEnds(l, saved)
        PROVE  PresentationInvariant'
    BY <2>1, LoadEndsHolds
  <2>2. ASSUME NEW l \in loads, LoadFails(l) PROVE PresentationInvariant'
    BY <2>2, LoadFailsHolds
  <2>3. ASSUME NEW language \in Languages, NEW saved \in BOOLEAN, ChooseLanguage(language, saved)
        PROVE  PresentationInvariant'
    BY <2>3, RequestHolds DEF ChooseLanguage
  <2>4. ASSUME NEW saved \in BOOLEAN, retryLanguage(saved) PROVE PresentationInvariant'
    <3>1. state.failed \in Languages
      BY <2>4 DEF retryLanguage, PresentationInvariant, PresentationTypes, Provided
    <3> QED
      BY <2>4, <3>1, RequestHolds DEF retryLanguage
  <2>5. ASSUME NEW locale \in displayLocales, NEW saved \in BOOLEAN, ChooseDisplayLocale(locale, saved)
        PROVE  PresentationInvariant'
    BY <2>5, ChooseDisplayLocaleHolds
  <2>6. ASSUME NEW requested \in BrowserTags, Reload(requested) PROVE PresentationInvariant'
    BY <2>6, ReloadHolds
  <2>7. CASE UNCHANGED presentation
    BY <2>7 DEF presentation, PresentationInvariant, PresentationTypes, LoadRules,
                LatestChoiceRules, languageLoaded
  <2> QED
    BY <2>1, <2>2, <2>3, <2>4, <2>5, <2>6, <2>7 DEF PresentationNext
<1>2. PresentationInvariant => LatestChoiceRules
  BY DEF PresentationInvariant
<1> QED
  BY <1>1, <1>2, PresentationInitHolds, PTL DEF PresentationSpec

-------------------------------------------------------------------------------
(* The workspace.                                                           *)

WorkspaceSpec == WorkspaceInit /\ [][WorkspaceNext]_workspace

Pages == {"home", "cases", "case", "caseAct", "newCase", "reminders", "people", "person", "settings"}
EditorPhases ==
  {"CLEAN", "DIRTY", "PREVIEWING", "REVIEWING", "SUBMITTING", "CHECKING", "UNRESOLVED", "ACCEPTED"}
Editors ==
  [kind : {"EDITOR"}, screen : Screens, phase : EditorPhases, asked : {"NOTHING", "LEAVE", "CHANGE"}]
Departures == {Missing, SignOut} \cup {To(r) : r \in Pages}

WorkspaceTypes ==
  /\ route \in Pages /\ source \in Pages
  /\ editor \in Editors \cup {Missing}
  /\ departure \in Departures

(* Only settings park a page; an editor is mounted in the area of its page and of
   the owner, which was allowed at some time; and a departure stays stopped for as
   long as it is remembered.                                                *)
SourceFollows == route # "settings" => source = route

AreaKey(o, r) == [kind |-> "AREA", actor |-> workspaceKey(o), category |-> category(r)]
EditorIsMounted ==
  editor # Missing =>
    /\ area # Missing /\ area.opened = TRUE
    /\ area.key = AreaKey(owner, Content(route, source))
    /\ screenOf(Content(route, source)) = editor.screen
DepartureIsStopped == departure # Missing => ~permits(departure)

WorkspaceInvariant ==
  WorkspaceTypes /\ SourceFollows /\ EditorIsMounted
    /\ DepartureIsAsked /\ DepartureIsStopped /\ DraftsEndByConsent

\* The workspace is handed to another person or to nobody.
Replaced ==
  \/ ~retainInactiveWorkspace(session', requester', owner')
  \/ workspaceKey(owner') # workspaceKey(owner)

LEMMA InvalidatedType ==
  ASSUME NEW e \in Editors
  PROVE  /\ invalidated(e) \in Editors /\ invalidated(e).screen = e.screen
         /\ invalidated(e).asked = e.asked /\ ~Busy(invalidated(e))
         /\ Unsaved(e) => Unsaved(invalidated(e))
  BY DEF Editors, EditorPhases, invalidated, Busy, Unsaved, Missing

LEMMA EditorsExist == Missing \notin Editors /\ Unsaved(Missing) = FALSE
  BY DEF Missing, Editors, Unsaved

\* What a rendering leaves of the editor, of the area around it and of a departure.
LEMMA RenderedEditor ==
  ASSUME WorkspaceTypes, NEW e \in Editors \cup {Missing}, NEW d \in Departures, NEW why,
         route' \in Pages, Render(e, d, why)
  PROVE  /\ source' = IF Replaced \/ area = Missing \/ route' # "settings" THEN route' ELSE source
         /\ editor' # Missing =>
              /\ e # Missing /\ ~Replaced /\ area # Missing
              /\ editor' \in {e, invalidated(e)} /\ editor' \in Editors
              /\ editor'.screen = e.screen /\ editor'.asked = e.asked
              /\ Busy(editor') => Busy(e)
         /\ WorkspaceTypes' /\ SourceFollows' /\ EditorIsMounted'
         /\ departure' = IF editor' # Missing /\ editor'.asked = "LEAVE" THEN d ELSE Missing
<1> DEFINE kept == retainInactiveWorkspace(session', requester', owner')
           here == Content(route', source')
           key == AreaKey(owner', here)
           allowed == availableRoute(here, views(requester'))
           opens == allowed \/ (area # Missing /\ area.key = key /\ area.opened)
           mounted == [kind |-> "MOUNTED", key |-> key, opened |-> opens]
           stays == /\ e # Missing /\ ~Replaced /\ area # Missing /\ area.key = area'.key
                    /\ screenOf(here) = e.screen
                    /\ WorkspaceContents(here, views(requester'), area'.opened)
<1>1. /\ source' = IF Replaced \/ area = Missing \/ route' # "settings" THEN route' ELSE source
      /\ area' = IF kept THEN mounted ELSE Missing
      /\ editor' = IF ~stays THEN Missing
                   ELSE IF ~allowed \/ session'.epoch # session.epoch THEN invalidated(e) ELSE e
      /\ departure' = IF editor' # Missing /\ editor'.asked = "LEAVE" THEN d ELSE Missing
  BY DEF Render, Replaced, AreaKey
<1>2. ~Replaced => kept
  BY DEF Replaced
<1>3. opens \in BOOLEAN
  BY DEF availableRoute
<1>4. mounted.key = key /\ mounted.opened = opens /\ mounted # Missing
  BY DEF Missing
<1>5. source' \in Pages /\ SourceFollows'
  BY <1>1 DEF WorkspaceTypes, SourceFollows
<1>6. ASSUME editor' # Missing
      PROVE  /\ e # Missing /\ ~Replaced /\ area # Missing
             /\ editor' \in {e, invalidated(e)} /\ editor' \in Editors
             /\ editor'.screen = e.screen /\ editor'.asked = e.asked
             /\ Busy(editor') => Busy(e)
             /\ EditorIsMounted'
  <2>1. stays /\ e \in Editors /\ editor' \in {e, invalidated(e)}
    BY <1>1, <1>6
  <2>2. /\ editor' \in Editors /\ editor'.screen = e.screen /\ editor'.asked = e.asked
        /\ Busy(editor') => Busy(e)
    BY <2>1, InvalidatedType
  <2>3. area' = mounted
    BY <1>1, <1>2, <2>1
  <2>4. WorkspaceContents(here, views(requester'), opens)
    BY <1>4, <2>1, <2>3
  <2>5. opens
    BY <1>3, <2>4 DEF WorkspaceContents
  <2>6. area' # Missing /\ area'.opened = TRUE /\ area'.key = key
    BY <1>4, <2>3, <2>5
  <2>7. EditorIsMounted'
    BY <2>1, <2>2, <2>6 DEF EditorIsMounted
  <2> QED
    BY <2>1, <2>2, <2>7
<1>7. EditorIsMounted'
  BY <1>6 DEF EditorIsMounted
<1>8. WorkspaceTypes'
  BY <1>1, <1>5, <1>6 DEF WorkspaceTypes, Departures
<1> QED
  BY <1>1, <1>5, <1>6, <1>7, <1>8

\* Work in an editor that is built to keep it stays while its page and its owner do.
LEMMA RenderedKeeps ==
  ASSUME WorkspaceTypes, EditorIsMounted, NEW e \in Editors, NEW d, NEW why,
         Render(e, d, why), ~Replaced,
         editor # Missing, e.screen = editor.screen, e.screen \notin {"case", "reminders"},
         Unsaved(e), route' \in Pages, source' \in Pages,
         category(Content(route', source')) = category(Content(route, source)),
         screenOf(Content(route', source')) = screenOf(Content(route, source))
  PROVE  Unsaved(editor')
<1> DEFINE kept == retainInactiveWorkspace(session', requester', owner')
           here == Content(route', source')
           key == AreaKey(owner', here)
           allowed == availableRoute(here, views(requester'))
           opens == allowed \/ (area # Missing /\ area.key = key /\ area.opened)
           mounted == [kind |-> "MOUNTED", key |-> key, opened |-> opens]
           stays == /\ e # Missing /\ ~Replaced /\ area # Missing /\ area.key = area'.key
                    /\ screenOf(here) = e.screen
                    /\ WorkspaceContents(here, views(requester'), area'.opened)
<1>1. /\ area' = mounted
      /\ editor' = IF ~stays THEN Missing
                   ELSE IF ~allowed \/ session'.epoch # session.epoch THEN invalidated(e) ELSE e
  BY DEF Render, Replaced, AreaKey
<1>2. area # Missing /\ area.opened = TRUE /\ area.key = key /\ screenOf(here) = e.screen
  BY DEF EditorIsMounted, Replaced, AreaKey
<1>3. opens
  BY <1>2
<1>4. area'.opened = opens /\ area'.key = key
  BY <1>1
<1>5. here \in Pages /\ retainOperation(here)
  <2>1. here \in Pages
    BY DEF Content
  <2>2. screenOf(here) \in Screens \ {"case", "reminders"}
    BY <1>2 DEF Editors
  <2> QED
    BY <2>1, <2>2 DEF Pages, Screens, screenOf, retainOperation
<1>6. e # Missing
  BY EditorsExist
<1>7. stays
  BY <1>2, <1>3, <1>4, <1>5, <1>6 DEF WorkspaceContents
<1> QED
  BY <1>1, <1>7, InvalidatedType

LEMMA RenderedEnd ==
  ASSUME NEW e, NEW d, NEW why, Render(e, d, why), ended'.how = "UNMOUNTED"
  PROVE  /\ why = "UNMOUNTED" /\ ~Replaced
         /\ Unsaved(editor) /\ ~Unsaved(editor') /\ ended'.screen = editor.screen
<1>1. ended' = IF Unsaved(editor) /\ ~Unsaved(editor')
               THEN [how |-> IF why # "UNMOUNTED" THEN why ELSE IF Replaced THEN "REPLACED" ELSE "UNMOUNTED",
                     screen |-> editor.screen]
               ELSE NothingEnded
  BY DEF Render, Replaced
<1>2. NothingEnded.how # "UNMOUNTED"
  BY DEF NothingEnded
<1> QED
  BY <1>1, <1>2

\* The page of the editor: its screen and the category of its area.
SamePlace ==
  /\ category(Content(route', source')) = category(Content(route, source))
  /\ screenOf(Content(route', source')) = screenOf(Content(route, source))

LEMMA RenderedHolds ==
  ASSUME WorkspaceInvariant, NEW e \in Editors \cup {Missing}, NEW d \in Departures, NEW why,
         Render(e, d, why), route' \in Pages,
         why = "UNMOUNTED" /\ Unsaved(editor) /\ ~Replaced =>
           e \in Editors /\ Unsaved(e) /\ e.screen = editor.screen /\ SamePlace,
         d # Missing /\ e # Missing /\ e.asked = "LEAVE" /\ editor' # Missing /\ ~Replaced =>
           ~Busy(e) /\ d # To(route') /\ ~permits(d)'
  PROVE  WorkspaceInvariant'
<1>1. WorkspaceTypes /\ EditorIsMounted
  BY DEF WorkspaceInvariant
<1>2. /\ editor' # Missing =>
            e # Missing /\ ~Replaced /\ editor'.asked = e.asked /\ (Busy(editor') => Busy(e))
      /\ WorkspaceTypes' /\ SourceFollows' /\ EditorIsMounted'
      /\ departure' = IF editor' # Missing /\ editor'.asked = "LEAVE" THEN d ELSE Missing
  BY <1>1, RenderedEditor
<1>3. DraftsEndByConsent'
  <2> SUFFICES ASSUME ended'.how = "UNMOUNTED", ended'.screen \notin {"case", "reminders"} PROVE FALSE
    BY DEF DraftsEndByConsent
  <2>1. /\ why = "UNMOUNTED" /\ ~Replaced
        /\ Unsaved(editor) /\ ~Unsaved(editor') /\ ended'.screen = editor.screen
    BY RenderedEnd
  <2>2. editor # Missing
    BY <2>1 DEF Unsaved
  <2>3. source' \in Pages
    BY <1>2 DEF WorkspaceTypes
  <2>4. e \in Editors /\ Unsaved(e) /\ e.screen = editor.screen /\ e.screen \notin {"case", "reminders"}
        /\ category(Content(route', source')) = category(Content(route, source))
        /\ screenOf(Content(route', source')) = screenOf(Content(route, source))
    BY <2>1 DEF SamePlace
  <2>5. Unsaved(editor')
    BY <1>1, <2>1, <2>2, <2>3, <2>4, RenderedKeeps
  <2> QED
    BY <2>1, <2>5
<1>4. DepartureIsAsked' /\ DepartureIsStopped'
  <2> SUFFICES ASSUME departure' # Missing
               PROVE  /\ editor' # Missing /\ editor'.asked = "LEAVE" /\ ~locked'
                      /\ departure' # To(route') /\ ~permits(departure)'
    BY DEF DepartureIsAsked, DepartureIsStopped
  <2>1. editor' # Missing /\ editor'.asked = "LEAVE" /\ departure' = d
    BY <1>2
  <2>2. ~Busy(e) /\ d # To(route') /\ ~permits(d)'
    BY <1>2, <2>1
  <2>3. ~locked'
    BY <1>2, <2>1, <2>2 DEF locked
  <2>4. ~permits(departure)'
    BY <2>1, <2>2 DEF permits, contentPath
  <2> QED
    BY <2>1, <2>2, <2>3, <2>4
<1> QED
  BY <1>2, <1>3, <1>4 DEF WorkspaceInvariant

\* A rendering that leaves the page where it is.
LEMMA WithinHolds ==
  ASSUME WorkspaceInvariant, NEW e \in Editors \cup {Missing}, NEW d \in Departures, NEW why,
         Render(e, d, why), route' = route,
         why = "UNMOUNTED" /\ Unsaved(editor) =>
           e \in Editors /\ Unsaved(e) /\ e.screen = editor.screen,
         d # Missing /\ e # Missing /\ e.asked = "LEAVE" =>
           ~Busy(e) /\ ~permits(d) /\ editor # Missing /\ e.screen = editor.screen
  PROVE  WorkspaceInvariant'
<1>1. WorkspaceTypes /\ SourceFollows /\ EditorIsMounted
  BY DEF WorkspaceInvariant
<1>2. route' \in Pages
  BY <1>1 DEF WorkspaceTypes
<1>3. /\ source' = IF Replaced \/ area = Missing \/ route' # "settings" THEN route' ELSE source
      /\ editor' # Missing => editor'.screen = e.screen
  BY <1>1, <1>2, RenderedEditor
<1>4. ASSUME ~Replaced, area # Missing PROVE source' = source
  BY <1>1, <1>3, <1>4 DEF SourceFollows
<1>5. ASSUME why = "UNMOUNTED", Unsaved(editor), ~Replaced
      PROVE  e \in Editors /\ Unsaved(e) /\ e.screen = editor.screen /\ SamePlace
  <2>1. area # Missing
    BY <1>1, <1>5 DEF Unsaved, EditorIsMounted
  <2> QED
    BY <1>4, <1>5, <2>1 DEF SamePlace
<1>6. ASSUME d # Missing, e # Missing, e.asked = "LEAVE", editor' # Missing, ~Replaced
      PROVE  ~Busy(e) /\ d # To(route') /\ ~permits(d)'
  <2>1. ~Busy(e) /\ ~permits(d) /\ editor # Missing /\ e.screen = editor.screen
    BY <1>6
  <2>2. d # To(route)
    BY <2>1 DEF permits, contentPath
  <2>3. source' = source /\ editor'.screen = editor.screen
    BY <1>1, <1>3, <1>4, <1>6, <2>1 DEF EditorIsMounted
  <2>4. ~permits(d)'
    BY <2>1, <2>3 DEF permits, contentPath
  <2> QED
    BY <2>1, <2>2, <2>4
<1> QED
  BY <1>2, <1>5, <1>6, RenderedHolds

\* A departure the page permits stays on the page of the editor.
LEMMA PermittedStays ==
  ASSUME WorkspaceTypes, SourceFollows, EditorIsMounted, editor # Missing, ~Replaced,
         NEW d \in {SignOut} \cup {To(r) : r \in Pages}, permits(d), d # SignOut => route' = d.route,
         source' = IF Replaced \/ area = Missing \/ route' # "settings" THEN route' ELSE source
  PROVE  SamePlace
<1>1. d # SignOut
  BY DEF permits, SignOut, To
<1>2. PICK r \in Pages : d = To(r)
  BY <1>1
<1>3. route' = r
  BY <1>1, <1>2 DEF To
<1>4. r = "settings" \/ r = contentPath \/ (editor.screen = "people" /\ r \in {"people", "person"})
  BY <1>2 DEF permits, To
<1>5. area # Missing /\ screenOf(Content(route, source)) = editor.screen
  BY DEF EditorIsMounted
<1>6. source' = IF r # "settings" THEN r ELSE source
  BY <1>3, <1>5
<1>7. CASE r = "settings" \/ r = contentPath
  BY <1>3, <1>6, <1>7 DEF SamePlace, SourceFollows, Content, Parked, contentPath
<1>8. CASE editor.screen = "people" /\ r \in {"people", "person"}
  <2>1. Content(route, source) \in {"people", "person"}
    BY <1>5, <1>8 DEF screenOf
  <2>2. Content(route', source') = r
    BY <1>3, <1>8 DEF Content, Parked
  <2> QED
    BY <1>8, <2>1, <2>2 DEF SamePlace, category, screenOf
<1> QED
  BY <1>4, <1>7, <1>8

LEMMA ProceedHolds ==
  ASSUME WorkspaceInvariant, NEW d \in {SignOut} \cup {To(r) : r \in Pages},
         NEW e \in Editors \cup {Missing}, NEW why, Proceed(d, e, why),
         why = "UNMOUNTED" /\ Unsaved(editor) => e = editor /\ permits(d)
  PROVE  WorkspaceInvariant'
<1>1. WorkspaceTypes /\ SourceFollows /\ EditorIsMounted
  BY DEF WorkspaceInvariant
<1>2. Render(e, Missing, why) /\ Missing \in Departures
  BY DEF Proceed, Departures
<1>3. route' \in Pages /\ (d # SignOut => route' = d.route)
  BY <1>1 DEF Proceed, To, WorkspaceTypes
<1>4. source' = IF Replaced \/ area = Missing \/ route' # "settings" THEN route' ELSE source
  BY <1>1, <1>2, <1>3, RenderedEditor
<1>5. ASSUME why = "UNMOUNTED", Unsaved(editor), ~Replaced
      PROVE  e \in Editors /\ Unsaved(e) /\ e.screen = editor.screen /\ SamePlace
  <2>1. editor # Missing /\ e = editor /\ permits(d)
    BY <1>5 DEF Unsaved
  <2> QED
    BY <1>1, <1>3, <1>4, <1>5, <2>1, PermittedStays DEF WorkspaceTypes
<1> QED
  BY <1>2, <1>3, <1>5, RenderedHolds

LEMMA GuardedHolds ==
  ASSUME WorkspaceInvariant, NEW d \in {SignOut} \cup {To(r) : r \in Pages}, guardedDeparture(d)
  PROVE  WorkspaceInvariant'
<1>1. editor \in Editors \cup {Missing} /\ ~locked
  BY DEF WorkspaceInvariant, WorkspaceTypes, guardedDeparture
<1>2. CASE blocker(d)
  <2> DEFINE e == [editor EXCEPT !.asked = "LEAVE"]
  <2>1. Unsaved(editor) /\ ~permits(d) /\ editor \in Editors
    BY <1>1, <1>2 DEF blocker, Unsaved
  <2>2. e \in Editors /\ e.screen = editor.screen /\ e.phase = editor.phase
    BY <2>1 DEF Editors
  <2>3. Unsaved(e) /\ ~Busy(e) /\ e # Missing /\ editor # Missing
    BY <1>1, <2>1, <2>2, EditorsExist DEF Unsaved, Busy, locked
  <2>4. Render(e, d, "UNMOUNTED") /\ route' = route /\ d \in Departures
    BY <1>2 DEF guardedDeparture, Departures
  <2> HIDE DEF e
  <2> QED
    BY <2>1, <2>2, <2>3, <2>4, WithinHolds
<1>3. CASE ~blocker(d)
  <2>1. Proceed(d, editor, "UNMOUNTED") /\ (Unsaved(editor) => permits(d))
    BY <1>3 DEF guardedDeparture, blocker
  <2> QED
    BY <1>1, <2>1, ProceedHolds
<1> QED
  BY <1>2, <1>3

\* Whatever the service says of the session or of the requester.
LEMMA ToldHolds ==
  ASSUME WorkspaceInvariant, route' = route, Render(editor, departure, "UNMOUNTED")
  PROVE  WorkspaceInvariant'
<1>1. editor \in Editors \cup {Missing} /\ departure \in Departures
  BY DEF WorkspaceInvariant, WorkspaceTypes
<1>2. Unsaved(editor) => editor \in Editors
  BY <1>1 DEF Unsaved
<1>3. departure # Missing => ~Busy(editor) /\ ~permits(departure) /\ editor # Missing
  BY DEF WorkspaceInvariant, DepartureIsAsked, DepartureIsStopped, locked
<1> QED
  BY <1>1, <1>2, <1>3, WithinHolds

LEMMA WorkspaceInitHolds == WorkspaceInit => WorkspaceInvariant
<1> SUFFICES ASSUME WorkspaceInit PROVE WorkspaceInvariant
  OBVIOUS
<1>1. WorkspaceTypes
  BY RoutesAssumption DEF WorkspaceInit, WorkspaceTypes, Pages, Departures
<1>2. SourceFollows /\ EditorIsMounted /\ DepartureIsAsked /\ DepartureIsStopped
  BY DEF WorkspaceInit, SourceFollows, EditorIsMounted, DepartureIsAsked, DepartureIsStopped
<1>3. DraftsEndByConsent
  BY DEF WorkspaceInit, DraftsEndByConsent, NothingEnded
<1> QED
  BY <1>1, <1>2, <1>3 DEF WorkspaceInvariant

LEMMA PagesAreNamed ==
  /\ Routes \subseteq Pages
  /\ {"cases", "case", "people", "settings"} \subseteq Pages
  BY RoutesAssumption DEF Pages

\* An editor that was not asked to leave has stopped no departure.
LEMMA NothingStopped ==
  ASSUME WorkspaceInvariant, editor # Missing => editor.asked = "NOTHING"
  PROVE  departure = Missing
  BY DEF WorkspaceInvariant, DepartureIsAsked

LEMMA PhaseHolds ==
  ASSUME WorkspaceInvariant, NEW from, NEW to \in SUBSET (EditorPhases \ {"CLEAN", "ACCEPTED"}),
         Phase(from, to)
  PROVE  WorkspaceInvariant'
<1>1. PICK phase \in to : /\ UNCHANGED <<session, requester, route, leaving>>
                         /\ Render([editor EXCEPT !.phase = phase], departure, "UNMOUNTED")
  BY DEF Phase, Within
<1> DEFINE e == [editor EXCEPT !.phase = phase]
<1>2. editor \in Editors /\ editor.asked = "NOTHING"
  BY DEF Phase, WorkspaceInvariant, WorkspaceTypes
<1>3. e \in Editors /\ e.screen = editor.screen /\ e.asked = "NOTHING" /\ e.phase = phase
  BY <1>2 DEF Editors
<1>4. Unsaved(e)
  BY <1>3, EditorsExist DEF Unsaved
<1>5. departure = Missing
  BY <1>2, NothingStopped
<1>6. Render(e, Missing, "UNMOUNTED") /\ route' = route
  BY <1>1, <1>5
<1> HIDE DEF e
<1> QED
  BY <1>3, <1>4, <1>6, WithinHolds DEF Departures

LEMMA WorkHolds ==
  ASSUME WorkspaceInvariant, Work \/ Answered
  PROVE  WorkspaceInvariant'
<1>1. {"DIRTY"} \in SUBSET (EditorPhases \ {"CLEAN", "ACCEPTED"})
  BY DEF EditorPhases
<1>2. /\ {"PREVIEWING"} \in SUBSET (EditorPhases \ {"CLEAN", "ACCEPTED"})
      /\ {"SUBMITTING"} \in SUBSET (EditorPhases \ {"CLEAN", "ACCEPTED"})
      /\ {"CHECKING"} \in SUBSET (EditorPhases \ {"CLEAN", "ACCEPTED"})
  BY DEF EditorPhases
<1>3. /\ {"REVIEWING", "DIRTY"} \in SUBSET (EditorPhases \ {"CLEAN", "ACCEPTED"})
      /\ {"UNRESOLVED", "DIRTY"} \in SUBSET (EditorPhases \ {"CLEAN", "ACCEPTED"})
  BY DEF EditorPhases
<1> QED
  BY <1>1, <1>2, <1>3, PhaseHolds DEF Work, Answered

LEMMA OpenHolds ==
  ASSUME WorkspaceInvariant, Open
  PROVE  WorkspaceInvariant'
<1> DEFINE e == [kind |-> "EDITOR", screen |-> screenOf(route), phase |-> "CLEAN", asked |-> "NOTHING"]
<1>1. e \in Editors
  BY DEF Open, Editors, EditorPhases
<1>2. Render(e, Missing, "UNMOUNTED") /\ route' = route /\ ~Unsaved(editor)
  BY DEF Open, Within, Unsaved
<1> HIDE DEF e
<1> QED
  BY <1>1, <1>2, WithinHolds DEF Departures

\* A question over the editor, which it may carry to a stopped departure.
LEMMA AskHolds ==
  ASSUME WorkspaceInvariant, editor # Missing, NEW question \in {"NOTHING", "LEAVE", "CHANGE"},
         NEW d, d = Missing \/ d = departure, editor.asked = "NOTHING" \/ d = Missing,
         Within([editor EXCEPT !.asked = question], d, "UNMOUNTED")
  PROVE  WorkspaceInvariant'
<1> DEFINE e == [editor EXCEPT !.asked = question]
<1>1. editor \in Editors
  BY DEF WorkspaceInvariant, WorkspaceTypes
<1>2. e \in Editors /\ e.screen = editor.screen /\ e.phase = editor.phase
  BY <1>1 DEF Editors
<1>3. Unsaved(editor) => Unsaved(e)
  BY <1>2, EditorsExist DEF Unsaved
<1>4. d = Missing
  BY NothingStopped
<1>5. Render(e, Missing, "UNMOUNTED") /\ route' = route
  BY <1>4 DEF Within
<1> HIDE DEF e
<1> QED
  BY <1>2, <1>3, <1>5, WithinHolds DEF Departures

LEMMA CloseHolds ==
  ASSUME WorkspaceInvariant, requestClose
  PROVE  WorkspaceInvariant'
<1>1. editor # Missing /\ editor.asked = "NOTHING" /\ editor \in Editors
  BY DEF requestClose, WorkspaceInvariant, WorkspaceTypes
<1>2. CASE Unsaved(editor)
  BY <1>1, <1>2, AskHolds DEF requestClose
<1>3. CASE ~Unsaved(editor) /\ editor.screen \in {"caseAct", "newCase"}
  <2>1. Proceed(To("case"), editor, "UNMOUNTED")
    BY <1>3 DEF requestClose
  <2> QED
    BY <1>1, <1>3, <2>1, ProceedHolds, PagesAreNamed
<1>4. CASE ~Unsaved(editor) /\ editor.screen \notin {"caseAct", "newCase"}
  <2>1. Render(Missing, Missing, "UNMOUNTED") /\ route' = route
    BY <1>4 DEF requestClose, Within
  <2> QED
    BY <1>4, <2>1, WithinHolds DEF Departures
<1> QED
  BY <1>2, <1>3, <1>4

LEMMA DiscardHolds ==
  ASSUME WorkspaceInvariant, Discard
  PROVE  WorkspaceInvariant'
<1> DEFINE fresh == [editor EXCEPT !.phase = "CLEAN", !.asked = "NOTHING"]
<1>1. editor \in Editors /\ departure \in Departures
  BY DEF Discard, WorkspaceInvariant, WorkspaceTypes
<1>2. fresh \in Editors
  BY <1>1 DEF Editors, EditorPhases
<1>3. \/ Within(fresh, Missing, "DISCARDED")
      \/ departure # Missing /\ Proceed(departure, fresh, "DISCARDED")
      \/ Proceed(To("case"), fresh, "DISCARDED")
      \/ Within(Missing, Missing, "DISCARDED")
  BY DEF Discard
<1> HIDE DEF fresh
<1>4. CASE Within(fresh, Missing, "DISCARDED") \/ Within(Missing, Missing, "DISCARDED")
  BY <1>2, <1>4, WithinHolds DEF Within, Departures
<1>5. CASE departure # Missing /\ Proceed(departure, fresh, "DISCARDED")
  BY <1>1, <1>2, <1>5, ProceedHolds DEF Departures
<1>6. CASE Proceed(To("case"), fresh, "DISCARDED")
  BY <1>2, <1>6, ProceedHolds, PagesAreNamed
<1> QED
  BY <1>3, <1>4, <1>5, <1>6

LEMMA RecordedHolds ==
  ASSUME WorkspaceInvariant, Recorded
  PROVE  WorkspaceInvariant'
<1> DEFINE accepted == [editor EXCEPT !.phase = "ACCEPTED"]
<1>1. editor \in Editors
  BY DEF Recorded, WorkspaceInvariant, WorkspaceTypes
<1>2. accepted \in Editors
  BY <1>1 DEF Editors, EditorPhases
<1>3. \/ Proceed(To("case"), editor, "RECORDED") \/ Within(accepted, Missing, "RECORDED")
      \/ Proceed(To("people"), Missing, "RECORDED") \/ Within(Missing, Missing, "RECORDED")
  BY DEF Recorded
<1> HIDE DEF accepted
<1>4. CASE Within(accepted, Missing, "RECORDED") \/ Within(Missing, Missing, "RECORDED")
  BY <1>2, <1>4, WithinHolds DEF Within, Departures
<1>5. CASE Proceed(To("case"), editor, "RECORDED") \/ Proceed(To("people"), Missing, "RECORDED")
  BY <1>1, <1>5, ProceedHolds, PagesAreNamed
<1> QED
  BY <1>3, <1>4, <1>5

LEMMA RefusedHolds ==
  ASSUME WorkspaceInvariant, DirectoryRefused
  PROVE  WorkspaceInvariant'
<1> DEFINE e == IF editor = Missing THEN Missing ELSE invalidated(editor)
<1>1. /\ WorkspaceTypes /\ SourceFollows /\ EditorIsMounted
      /\ editor \in Editors \cup {Missing} /\ departure \in Departures
  BY DEF WorkspaceInvariant, WorkspaceTypes
<1>. PICK d \in Departures : d = departure
  BY <1>1
<1>2. /\ route' = "people" /\ category(Content(route, source)) = "people"
      /\ Render(e, d, "UNMOUNTED")
  BY DEF DirectoryRefused
<1>3. e \in Editors \cup {Missing} /\ (e # Missing => editor # Missing /\ e = invalidated(editor))
  BY <1>1, InvalidatedType
<1> HIDE DEF e
<1>4. route' \in Pages
  BY <1>2 DEF Pages
<1>5. /\ source' = "people"
      /\ editor' # Missing => editor'.screen = e.screen
  BY <1>1, <1>2, <1>3, <1>4, RenderedEditor
<1>6. Content(route, source) \in {"people", "person"} /\ Content(route', source') = "people"
  BY <1>1, <1>2, <1>5 DEF Content, Parked, category, WorkspaceTypes
<1>7. SamePlace
  BY <1>6 DEF SamePlace, category, screenOf
<1>8. editor # Missing => editor.screen = "people"
  BY <1>1, <1>6 DEF EditorIsMounted, screenOf
<1>9. ASSUME Unsaved(editor) PROVE e \in Editors /\ Unsaved(e) /\ e.screen = editor.screen
  BY <1>1, <1>9, InvalidatedType DEF Unsaved, e
<1>10. ASSUME d # Missing, e # Missing, editor' # Missing
       PROVE  ~Busy(e) /\ d # To(route') /\ ~permits(d)'
  <2>1. editor \in Editors /\ ~permits(d)
    BY <1>1, <1>3, <1>10 DEF WorkspaceInvariant, DepartureIsStopped
  <2>2. ~Busy(e) /\ e.screen = "people"
    BY <1>3, <1>8, <1>10, <2>1, InvalidatedType
  <2>3. d # To("settings") /\ d \notin {To("people"), To("person")}
    BY <1>3, <1>8, <1>10, <2>1 DEF permits
  <2>4. ~permits(d)'
    BY <1>2, <2>3 DEF permits, contentPath
  <2> QED
    BY <1>2, <2>2, <2>3, <2>4
<1> QED
  BY <1>1, <1>2, <1>3, <1>4, <1>7, <1>9, <1>10, RenderedHolds

LEMMA WorkspaceNextHolds ==
  WorkspaceInvariant /\ [WorkspaceNext]_workspace => WorkspaceInvariant'
<1> SUFFICES ASSUME WorkspaceInvariant, [WorkspaceNext]_workspace
             PROVE  WorkspaceInvariant'
  OBVIOUS
<1>1. CASE refresh \/ LogoutAnswered
  BY <1>1, ToldHolds DEF refresh, LogoutAnswered, Resolved
<1>2. CASE InvalidateReads \/ ContextAnswered
  BY <1>2, ToldHolds DEF InvalidateReads, ContextAnswered, Requested
<1>3. CASE Navigate \/ Logout \/ useInitialAllowedRoute
  BY <1>3, GuardedHolds, PagesAreNamed DEF Navigate, Logout, useInitialAllowedRoute
<1>4. CASE Open
  BY <1>4, OpenHolds
<1>5. CASE Work \/ Answered
  BY <1>5, WorkHolds
<1>6. CASE requestClose
  BY <1>6, CloseHolds
<1>7. CASE RequestChange
  BY <1>7, AskHolds DEF RequestChange
<1>8. CASE Keep
  BY <1>8, AskHolds DEF Keep
<1>9. CASE Discard
  BY <1>9, DiscardHolds
<1>10. CASE Recorded
  BY <1>10, RecordedHolds
<1>11. CASE DirectoryRefused
  BY <1>11, RefusedHolds
<1>12. CASE UNCHANGED workspace
  BY <1>12
  DEF workspace, WorkspaceInvariant, WorkspaceTypes, SourceFollows, EditorIsMounted, DepartureIsAsked,
      DepartureIsStopped, DraftsEndByConsent, permits, contentPath, locked
<1> QED
  BY <1>1, <1>2, <1>3, <1>4, <1>5, <1>6, <1>7, <1>8, <1>9, <1>10, <1>11, <1>12 DEF WorkspaceNext

(* On the pages built to keep it, unsaved work ends because it was discarded or
   recorded or because the workspace passed to somebody else or to nobody, for
   any people, pages and number of sessions (Dashboard.tsx).                *)
THEOREM DraftsEndHolds == WorkspaceSpec => []DraftsEndByConsent
<1>1. WorkspaceInvariant => DraftsEndByConsent
  BY DEF WorkspaceInvariant
<1> QED
  BY <1>1, WorkspaceInitHolds, WorkspaceNextHolds, PTL DEF WorkspaceSpec

(* A departure that was stopped is in front of the person, who can still refuse
   it, or forgotten: no later event carries it out (useOperationNavigation.ts). *)
THEOREM DepartureHolds == WorkspaceSpec => []DepartureIsAsked
<1>1. WorkspaceInvariant => DepartureIsAsked
  BY DEF WorkspaceInvariant
<1> QED
  BY <1>1, WorkspaceInitHolds, WorkspaceNextHolds, PTL DEF WorkspaceSpec

-------------------------------------------------------------------------------
(* The access panel.                                                        *)

AuthoritySpec == AuthorityInit /\ [][AuthorityNext]_authority

Selections == {Nobody} \cup {Person(a) : a \in Actors}
Forms ==
  [kind : {"ADMIT"} \cup Acts, about : {Applicant} \cup Selections, facts : SUBSET Nat,
   phase : {"EDITING", "PREVIEWING", "PREPARED", "SUBMITTING", "UNRESOLVED", "ACCEPTED"},
   work : {"NOTHING", "TEXT", "IDENTITY"}, seeded : BOOLEAN, masked : BOOLEAN]
Snapshots == [kind : {"RECORD"}, revision : Nat, actor : Actors, offered : SUBSET Acts]
Intents == [kind : {"INTENT"}, revision : Nat, actor : Actors, act : Acts]

Disclosures ==
  [revision : Nat, active : BOOLEAN, ready : BOOLEAN, revalidating : BOOLEAN,
   restored : SUBSET {"context", "listing"}]

AuthorityTypes ==
  /\ actorId \in Selections
  /\ disclosure \in Disclosures
  /\ snapshot \in {NoRecord} \cup Snapshots
  /\ form \in Forms
  /\ intent \in {NoIntent} \cup Intents
  /\ pending \in {NothingAsked, "LEAVE", "ADMIT"} \cup Acts
  /\ admission \in BOOLEAN

\* No record outlives the disclosure it was read under.
SnapshotIsCurrent == snapshot # NoRecord => snapshot.revision = disclosure.revision

AuthorityInvariant == AuthorityTypes /\ SnapshotIsCurrent

LEMMA FreshType ==
  ASSUME NEW kind \in {"ADMIT"} \cup Acts, NEW about \in {Applicant} \cup Selections,
         NEW facts \in SUBSET Nat, NEW masked \in BOOLEAN
  PROVE  /\ Fresh(kind, about, facts, masked) \in Forms
         /\ Fresh(kind, about, facts, masked).facts = facts
  BY DEF Fresh, Forms

\* The values the default effect may put into a form.
LEMMA DefaultForm ==
  ASSUME NEW f \in Forms, NEW s \in {NoRecord} \cup Snapshots, NEW request \in BOOLEAN
  PROVE  LET g == useActorDefault(f, s, request)
         IN  /\ g \in Forms
             /\ g.facts = f.facts \/ g.facts = {} \/ (s # NoRecord /\ g.facts = {s.revision})
             /\ \/ retained(f) \/ Waiting(f)
                \/ f.phase = "ACCEPTED" /\ s = NoRecord
                => g.kind = f.kind /\ g.about = f.about /\ g.facts = f.facts
<1> DEFINE g == useActorDefault(f, s, request)
           bound == [f EXCEPT !.seeded = TRUE]
           offer == CHOOSE k \in authorityPrimaryAction(s.offered) : TRUE
           taken == actorValues(s, offer, f)
           seeded == [taken EXCEPT !.seeded = TRUE]
           blank == Blank("ADMIT", f)
<1>1. g = IF retained(f) \/ Waiting(f) THEN f
          ELSE IF fixed(f, s, request) THEN bound
          ELSE IF s = NoRecord THEN (IF f.phase # "ACCEPTED" /\ f.seeded THEN blank ELSE f)
          ELSE IF authorityPrimaryAction(s.offered) # {} THEN seeded ELSE f
  BY DEF useActorDefault
<1>2. bound \in Forms /\ bound.kind = f.kind /\ bound.about = f.about /\ bound.facts = f.facts
  BY DEF Forms
<1>3. blank \in Forms /\ blank.facts = {}
  <2>1. f.masked \in BOOLEAN
    BY DEF Forms
  <2> QED
    BY <2>1, FreshType DEF Blank, Selections
<1>4. ASSUME s # NoRecord, authorityPrimaryAction(s.offered) # {}
      PROVE  seeded \in Forms /\ seeded.facts = {s.revision}
  <2>1. s \in Snapshots
    BY <1>4
  <2>2. offer \in Acts
    BY <1>4 DEF authorityPrimaryAction, Acts
  <2> DEFINE facts == {s.revision}
             about == Person(s.actor)
             masked == f.masked
  <2>3. masked \in BOOLEAN /\ facts \in SUBSET Nat /\ about \in {Applicant} \cup Selections
    BY <2>1 DEF Forms, Snapshots, Selections
  <2>4. taken = Fresh(offer, about, facts, masked)
    BY DEF actorValues
  <2> HIDE DEF offer, taken, facts, about, masked
  <2>5. taken \in Forms /\ taken.facts = facts
    BY <2>2, <2>3, <2>4, FreshType
  <2>6. taken \in Forms /\ taken.facts = {s.revision}
    BY <2>5 DEF facts
  <2> QED
    BY <2>6 DEF Forms
<1> HIDE DEF bound, seeded, blank
<1> QED
  BY <1>1, <1>2, <1>3, <1>4

\* What one step may do to the form.
Knowingly ==
  /\ retained(form) /\ pending = NothingAsked /\ ~Revert =>
       <<form'.kind, form'.about, form'.facts>> = <<form.kind, form.about, form.facts>>
  /\ form'.facts # form.facts => form'.facts \in {{}, {disclosure'.revision}}

LEMMA FormHolds ==
  ASSUME NEW f \in Forms, NEW open, Rendered(f, open),
         snapshot' \in {NoRecord} \cup Snapshots, SnapshotIsCurrent', admission' \in BOOLEAN,
         f.facts # form.facts => f.facts \in {{}, {disclosure'.revision}},
         retained(form) /\ pending = NothingAsked /\ ~Revert =>
           /\ retained(f) \/ Waiting(f) \/ (f.phase = "ACCEPTED" /\ snapshot' = NoRecord)
           /\ f.kind = form.kind /\ f.about = form.about /\ f.facts = form.facts
  PROVE  form' \in Forms /\ Knowingly
<1> DEFINE lifted == IF disclosure'.ready /\ ~disclosure.ready THEN [f EXCEPT !.masked = FALSE] ELSE f
<1>1. /\ lifted \in Forms /\ lifted.phase = f.phase /\ lifted.work = f.work
      /\ lifted.kind = f.kind /\ lifted.about = f.about /\ lifted.facts = f.facts
  BY DEF Forms
<1>2. (retained(lifted) <=> retained(f)) /\ (Waiting(lifted) <=> Waiting(f))
  BY <1>1 DEF retained, Waiting
<1>3. form' = useActorDefault(lifted, snapshot', admission')
  BY DEF Rendered
<1> HIDE DEF lifted
<1>4. /\ form' \in Forms
      /\ \/ form'.facts = lifted.facts \/ form'.facts = {}
         \/ snapshot' # NoRecord /\ form'.facts = {snapshot'.revision}
      /\ \/ retained(lifted) \/ Waiting(lifted)
         \/ lifted.phase = "ACCEPTED" /\ snapshot' = NoRecord
         => form'.kind = lifted.kind /\ form'.about = lifted.about /\ form'.facts = lifted.facts
  BY <1>1, <1>3, DefaultForm
<1>5. snapshot' # NoRecord => snapshot'.revision = disclosure'.revision
  BY DEF SnapshotIsCurrent
<1> QED
  BY <1>1, <1>2, <1>4, <1>5 DEF Knowingly

\* A step of the person, which leaves what is read alone.
LEMMA BecomesHolds ==
  ASSUME AuthorityInvariant, NEW f \in Forms, NEW open, NEW i \in {NoIntent} \cup Intents,
         NEW ask \in {NothingAsked, "LEAVE", "ADMIT"} \cup Acts, NEW request \in BOOLEAN,
         Becomes(f, open, i, ask, request),
         f.facts # form.facts => f.facts \in {{}, {disclosure.revision}},
         retained(form) /\ pending = NothingAsked /\ ~Revert =>
           /\ retained(f) \/ Waiting(f)
           /\ f.kind = form.kind /\ f.about = form.about /\ f.facts = form.facts
  PROVE  AuthorityInvariant' /\ Knowingly
<1>1. /\ UNCHANGED <<actorId, available, disclosure, snapshot>>
      /\ intent' = i /\ pending' = ask /\ admission' = request /\ Rendered(f, open)
  BY DEF Becomes
<1>2. AuthorityTypes /\ SnapshotIsCurrent
  BY DEF AuthorityInvariant
<1>3. snapshot' \in {NoRecord} \cup Snapshots /\ SnapshotIsCurrent' /\ admission' \in BOOLEAN
  BY <1>1, <1>2 DEF AuthorityTypes, SnapshotIsCurrent
<1>4. f.facts # form.facts => f.facts \in {{}, {disclosure'.revision}}
  BY <1>1
<1>5. form' \in Forms /\ Knowingly
  BY <1>1, <1>3, <1>4, FormHolds
<1>6. AuthorityTypes'
  BY <1>1, <1>2, <1>5 DEF AuthorityTypes
<1> QED
  BY <1>3, <1>5, <1>6 DEF AuthorityInvariant

LEMMA ForgetsStale ==
  ASSUME AuthorityTypes, Forgets
  PROVE  /\ snapshot' \in {NoRecord} \cup Snapshots /\ SnapshotIsCurrent'
         /\ actorId' = Nobody => snapshot' = NoRecord
<1>1. \/ snapshot' = NoRecord
      \/ /\ snapshot' = snapshot /\ snapshot.revision = disclosure'.revision
         /\ Person(snapshot.actor) = actorId'
  BY DEF Forgets, disclosedTo
<1>2. actorId' = Nobody => snapshot' = NoRecord
  BY <1>1 DEF Person, Nobody
<1> QED
  BY <1>1, <1>2 DEF AuthorityTypes, SnapshotIsCurrent

\* A step of what is read, which may interrupt the form but not write into it.
LEMMA ReadHolds ==
  ASSUME AuthorityInvariant, NEW f \in Forms, NEW open, Rendered(f, open), Forgets,
         actorId' \in Selections, admission' = admission, intent' = intent,
         pending' \in {pending, NothingAsked},
         disclosure' \in Disclosures,
         f.kind = form.kind, f.about = form.about, f.facts = form.facts,
         retained(form) => retained(f) \/ Waiting(f) \/ (f.phase = "ACCEPTED" /\ actorId' = Nobody)
  PROVE  AuthorityInvariant' /\ Knowingly
<1>1. AuthorityTypes
  BY DEF AuthorityInvariant
<1>2. /\ snapshot' \in {NoRecord} \cup Snapshots /\ SnapshotIsCurrent'
      /\ actorId' = Nobody => snapshot' = NoRecord
  BY <1>1, ForgetsStale
<1>3. admission' \in BOOLEAN
  BY <1>1 DEF AuthorityTypes
<1>4. form' \in Forms /\ Knowingly
  BY <1>2, <1>3, FormHolds
<1>5. AuthorityTypes'
  BY <1>1, <1>2, <1>3, <1>4 DEF AuthorityTypes
<1> QED
  BY <1>2, <1>4, <1>5 DEF AuthorityInvariant

LEMMA InvalidatedDisclosure ==
  ASSUME AuthorityTypes, NEW force \in BOOLEAN, invalidate(force)
  PROVE  disclosure' \in Disclosures
<1> DEFINE active == force \/ ~disclosure.revalidating
<1>1. active \in BOOLEAN
  OBVIOUS
<1>2. disclosure.revision + 1 \in Nat
  BY DEF AuthorityTypes, Disclosures
<1>3. disclosure' = [revision |-> disclosure.revision + 1, active |-> active,
                     ready |-> FALSE, revalidating |-> TRUE, restored |-> {}]
  BY DEF invalidate
<1> HIDE DEF active
<1> QED
  BY <1>1, <1>2, <1>3 DEF Disclosures

LEMMA InterruptedForm ==
  ASSUME NEW f \in Forms
  PROVE  LET g == interrupted(f)
         IN  /\ g \in Forms /\ g.kind = f.kind /\ g.about = f.about /\ g.facts = f.facts
             /\ retained(f) => retained(g)
  BY DEF Forms, interrupted, retained

LEMMA RefuseHolds ==
  ASSUME AuthorityInvariant, NEW n, NEW f \in Forms, Refuse(n, f),
         f.kind = form.kind, f.about = form.about, f.facts = form.facts,
         retained(form) => retained(f)
  PROVE  AuthorityInvariant' /\ Knowingly
<1> DEFINE g == interrupted(f)
<1>1. AuthorityTypes
  BY DEF AuthorityInvariant
<1>2. /\ g \in Forms /\ g.kind = form.kind /\ g.about = form.about /\ g.facts = form.facts
      /\ retained(form) => retained(g)
  BY InterruptedForm
<1>3. disclosure' \in Disclosures
  BY <1>1, InvalidatedDisclosure DEF Refuse, AuthorityTypes
<1>4. /\ actorId' \in Selections /\ UNCHANGED <<intent, pending, admission>>
      /\ Forgets /\ Rendered(g, opened)
  BY DEF Refuse, Selections
<1> HIDE DEF g
<1> QED
  BY <1>2, <1>3, <1>4, ReadHolds

LEMMA ReadingHolds ==
  ASSUME AuthorityInvariant, Select \/ ViewsChanged \/ refused \/ restored \/ ReloadActors
  PROVE  AuthorityInvariant' /\ Knowingly
<1>1. AuthorityTypes /\ form \in Forms
  BY DEF AuthorityInvariant, AuthorityTypes
<1>2. CASE Select
  BY <1>1, <1>2, ReadHolds DEF Select, AuthorityTypes, Selections
<1>3. CASE ViewsChanged
  BY <1>1, <1>3, ReadHolds DEF ViewsChanged, AuthorityTypes
<1>4. CASE refused
  BY <1>1, <1>4, RefuseHolds DEF refused
<1>5. CASE restored
  <2>1. PICK part \in {"context", "listing"} :
          LET all == disclosure.restored \cup {part}
              both == Cardinality(all) = 2
          IN  disclosure' = [disclosure EXCEPT !.restored = all, !.revalidating = @ /\ ~both, !.ready = @ \/ both]
    BY <1>5 DEF restored
  <2> DEFINE all == disclosure.restored \cup {part}
             both == Cardinality(all) = 2
             revalidating == disclosure.revalidating /\ ~both
             ready == disclosure.ready \/ both
  <2>2. all \in SUBSET {"context", "listing"} /\ revalidating \in BOOLEAN /\ ready \in BOOLEAN
    BY <1>1 DEF AuthorityTypes, Disclosures
  <2>3. disclosure' = [disclosure EXCEPT !.restored = all, !.revalidating = revalidating, !.ready = ready]
    BY <2>1
  <2> HIDE DEF all, revalidating, ready
  <2>4. disclosure' \in Disclosures
    BY <1>1, <2>2, <2>3 DEF AuthorityTypes, Disclosures
  <2> QED
    BY <1>1, <1>5, <2>4, ReadHolds DEF restored, AuthorityTypes
<1>6. CASE ReloadActors
  <2>1. disclosure' \in Disclosures
    BY <1>1, <1>6, InvalidatedDisclosure DEF ReloadActors
  <2> QED
    BY <1>1, <1>6, <2>1, ReadHolds DEF ReloadActors, AuthorityTypes
<1> QED
  BY <1>2, <1>3, <1>4, <1>5, <1>6

LEMMA ObserveHolds ==
  ASSUME AuthorityInvariant, observe
  PROVE  AuthorityInvariant' /\ Knowingly
<1>1. AuthorityTypes /\ form \in Forms
  BY DEF AuthorityInvariant, AuthorityTypes
<1>2. PICK offered \in {{"SET_PROFILE"}, Acts} :
        snapshot' = [kind |-> "RECORD", revision |-> disclosure.revision,
                     actor |-> actorId.actor, offered |-> offered]
  BY DEF observe
<1>3. PICK a \in Actors : actorId = Person(a)
  BY <1>1 DEF observe, AuthorityTypes, Selections
<1>4. snapshot' \in Snapshots /\ snapshot'.revision = disclosure.revision
  BY <1>1, <1>2, <1>3 DEF Snapshots, Person, Acts, AuthorityTypes, Disclosures
<1>5. UNCHANGED <<actorId, available, disclosure, intent, pending, admission>> /\ Rendered(form, opened)
  BY DEF observe
<1>6. snapshot' \in {NoRecord} \cup Snapshots /\ SnapshotIsCurrent' /\ admission' \in BOOLEAN
  BY <1>1, <1>4, <1>5 DEF SnapshotIsCurrent, AuthorityTypes
<1>7. form' \in Forms /\ Knowingly
  BY <1>1, <1>5, <1>6, FormHolds
<1>8. AuthorityTypes'
  BY <1>1, <1>5, <1>6, <1>7 DEF AuthorityTypes
<1> QED
  BY <1>6, <1>7, <1>8 DEF AuthorityInvariant

\* What replaces a form comes from a disclosure in force.
LEMMA DiscardedForm ==
  ASSUME AuthorityInvariant, NEW kind \in {"ADMIT"} \cup Acts
  PROVE  discarded(kind) \in Forms /\ discarded(kind).facts \in {{}, {disclosure.revision}}
<1> DEFINE chosen == currentIntent(kind)
           about == IF admissionBound(form, admission) THEN Applicant
                    ELSE IF actorBound(form, snapshot) THEN Person(snapshot.actor) ELSE Nobody
           facts == IF snapshot = NoRecord THEN {} ELSE {snapshot.revision}
           masked == form.masked
           actor == Person(chosen.actor)
           intended == {chosen.revision}
<1>1. AuthorityTypes /\ SnapshotIsCurrent
  BY DEF AuthorityInvariant
<1>2. masked \in BOOLEAN
  BY <1>1 DEF AuthorityTypes, Forms
<1>3. discarded(kind) = IF chosen # NoIntent THEN Fresh(kind, actor, intended, masked)
                        ELSE IF about = Nobody THEN Fresh(kind, Nobody, {}, masked)
                        ELSE Fresh(kind, about, facts, masked)
  BY DEF discarded, Blank
<1>4. chosen # NoIntent =>
        actor \in Selections /\ intended \in SUBSET Nat /\ intended = {disclosure.revision}
  BY <1>1 DEF currentIntent, AuthorityTypes, Intents, Selections
<1>5. about \in {Applicant} \cup Selections
  BY <1>1 DEF AuthorityTypes, actorBound, Snapshots, Selections
<1>6. facts \in SUBSET Nat /\ facts \in {{}, {disclosure.revision}}
  BY <1>1 DEF AuthorityTypes, SnapshotIsCurrent, Snapshots
<1> HIDE DEF chosen, about, facts, masked, actor, intended
<1>7. Nobody \in {Applicant} \cup Selections /\ {} \in SUBSET Nat
  BY DEF Selections
<1>8. Fresh(kind, about, facts, masked) \in Forms /\ Fresh(kind, about, facts, masked).facts = facts
  BY <1>2, <1>5, <1>6, FreshType
<1>9. Fresh(kind, Nobody, {}, masked) \in Forms /\ Fresh(kind, Nobody, {}, masked).facts = {}
  BY <1>2, <1>7, FreshType
<1>10. CASE chosen # NoIntent
  <2>1. actor \in {Applicant} \cup Selections /\ intended \in SUBSET Nat
    BY <1>4, <1>10
  <2>2. Fresh(kind, actor, intended, masked) \in Forms
        /\ Fresh(kind, actor, intended, masked).facts = intended
    BY <1>2, <2>1, FreshType
  <2> QED
    BY <1>3, <1>4, <1>10, <2>2
<1>11. CASE chosen = NoIntent
  BY <1>3, <1>6, <1>8, <1>9, <1>11
<1> QED
  BY <1>10, <1>11

LEMMA BeginHolds ==
  ASSUME AuthorityInvariant, begin
  PROVE  AuthorityInvariant' /\ Knowingly
<1>1. AuthorityTypes /\ SnapshotIsCurrent /\ form \in Forms /\ snapshot \in Snapshots
  BY DEF AuthorityInvariant, AuthorityTypes, begin
<1>2. PICK kind \in snapshot.offered :
        IF retained(form)
        THEN Becomes(form, TRUE, [kind |-> "INTENT", revision |-> disclosure.revision,
                                  actor |-> snapshot.actor, act |-> kind], kind, admission)
        ELSE Becomes(actorValues(snapshot, kind, form), TRUE, intent, pending, admission)
  BY DEF begin
<1>3. kind \in Acts
  BY <1>1 DEF Snapshots
<1>4. CASE retained(form)
  <2> DEFINE i == [kind |-> "INTENT", revision |-> disclosure.revision, actor |-> snapshot.actor, act |-> kind]
  <2>1. i \in Intents
    BY <1>1, <1>3 DEF Intents, AuthorityTypes, Snapshots, Disclosures
  <2>2. Becomes(form, TRUE, i, kind, admission)
    BY <1>2, <1>4
  <2> HIDE DEF i
  <2> QED
    BY <1>1, <1>3, <1>4, <2>1, <2>2, BecomesHolds DEF AuthorityTypes
<1>5. CASE ~retained(form)
  <2> DEFINE f == actorValues(snapshot, kind, form)
             about == Person(snapshot.actor)
             facts == {snapshot.revision}
             masked == form.masked
  <2>1. about \in {Applicant} \cup Selections /\ masked \in BOOLEAN
    BY <1>1 DEF Snapshots, Selections, Forms
  <2>2. facts \in SUBSET Nat /\ facts = {disclosure.revision}
    BY <1>1 DEF Snapshots, SnapshotIsCurrent, NoRecord
  <2>3. f = Fresh(kind, about, facts, masked)
    BY DEF actorValues
  <2>4. Becomes(f, TRUE, intent, pending, admission)
    BY <1>2, <1>5
  <2> HIDE DEF f, about, facts, masked
  <2>5. f \in Forms /\ f.facts = {disclosure.revision}
    BY <1>3, <2>1, <2>2, <2>3, FreshType
  <2> QED
    BY <1>1, <1>5, <2>4, <2>5, BecomesHolds DEF AuthorityTypes
<1> QED
  BY <1>4, <1>5

LEMMA AdmitHolds ==
  ASSUME AuthorityInvariant, admit
  PROVE  AuthorityInvariant' /\ Knowingly
<1> DEFINE masked == form.masked
           facts == {disclosure.revision}
           fresh == Fresh("ADMIT", Applicant, facts, masked)
           blank == Blank("ADMIT", form)
           next == IF retained(form) THEN form ELSE blank
           request == IF retained(form) THEN admission ELSE FALSE
<1>1. /\ form \in Forms /\ masked \in BOOLEAN /\ facts \in SUBSET Nat
      /\ intent \in {NoIntent} \cup Intents /\ admission \in BOOLEAN
      /\ pending \in {NothingAsked, "LEAVE", "ADMIT"} \cup Acts
  BY DEF AuthorityInvariant, AuthorityTypes, Forms, Disclosures
<1>2. blank = Fresh("ADMIT", Nobody, {}, masked) /\ Nobody \in Selections
  BY DEF Blank, Selections
<1>3. \/ ~retained(form) /\ Becomes(fresh, TRUE, intent, pending, TRUE)
      \/ Becomes(next, TRUE, intent, pending, request)
  BY DEF admit
<1>4. request \in BOOLEAN
  BY <1>1
<1> HIDE DEF masked, facts, fresh, blank
<1>5. fresh \in Forms /\ fresh.facts = facts
  BY <1>1, FreshType DEF fresh
<1>6. blank \in Forms /\ blank.facts = {}
  BY <1>1, <1>2, FreshType
<1>7. next \in Forms /\ (retained(form) => next = form) /\ (~retained(form) => next.facts = {})
  BY <1>1, <1>6
<1> HIDE DEF next, request
<1>8. CASE ~retained(form) /\ Becomes(fresh, TRUE, intent, pending, TRUE)
  BY <1>1, <1>5, <1>8, BecomesHolds DEF facts
<1>9. CASE Becomes(next, TRUE, intent, pending, request)
  BY <1>1, <1>4, <1>7, <1>9, BecomesHolds
<1> QED
  BY <1>3, <1>8, <1>9

\* Steps that leave the form as it is.
LEMMA SameFormHolds ==
  ASSUME AuthorityInvariant, NEW open, NEW i \in {NoIntent} \cup Intents,
         NEW ask \in {NothingAsked, "LEAVE", "ADMIT"} \cup Acts, Becomes(form, open, i, ask, admission)
  PROVE  AuthorityInvariant' /\ Knowingly
<1>1. form \in Forms /\ admission \in BOOLEAN
  BY DEF AuthorityInvariant, AuthorityTypes
<1> QED
  BY <1>1, BecomesHolds

LEMMA ReplacingHolds ==
  ASSUME AuthorityInvariant, NEW kind \in {"ADMIT"} \cup Acts, NEW open,
         NEW ask \in {NothingAsked, "LEAVE", "ADMIT"} \cup Acts,
         Becomes(discarded(kind), open, NoIntent, ask, admission),
         ~retained(form) \/ pending # NothingAsked
  PROVE  AuthorityInvariant' /\ Knowingly
<1> DEFINE f == discarded(kind)
<1>1. admission \in BOOLEAN
  BY DEF AuthorityInvariant, AuthorityTypes
<1>2. f \in Forms /\ f.facts \in {{}, {disclosure.revision}}
  BY DiscardedForm
<1> HIDE DEF f
<1>3. Becomes(f, open, NoIntent, ask, admission)
  BY DEF f
<1> QED
  BY <1>1, <1>2, <1>3, BecomesHolds

LEMMA DialogHolds ==
  ASSUME AuthorityInvariant, Continue \/ Change \/ closePanel \/ Depart \/ KeepForm \/ discard
  PROVE  AuthorityInvariant' /\ Knowingly
<1>1. AuthorityTypes
  BY DEF AuthorityInvariant
<1>2. CASE Continue
  BY <1>1, <1>2, SameFormHolds DEF Continue, AuthorityTypes
<1>3. CASE Change
  <2>1. PICK kind \in ({"ADMIT"} \cup Acts) \ {form.kind} :
          IF retained(form) THEN Becomes(form, opened, NoIntent, kind, admission)
          ELSE Becomes(discarded(kind), opened, NoIntent, pending, admission)
    BY <1>3 DEF Change
  <2> QED
    BY <1>1, <2>1, SameFormHolds, ReplacingHolds DEF AuthorityTypes
<1>4. CASE closePanel
  BY <1>1, <1>4, SameFormHolds DEF closePanel, AuthorityTypes
<1>5. CASE Depart
  BY <1>1, <1>5, SameFormHolds DEF Depart
<1>6. CASE KeepForm
  BY <1>1, <1>6, SameFormHolds DEF KeepForm
<1>7. CASE discard
  <2> DEFINE primary == IF snapshot = NoRecord THEN {} ELSE authorityPrimaryAction(snapshot.offered)
             kind == IF pending # "LEAVE" THEN pending
                     ELSE IF primary = {} THEN "ADMIT" ELSE CHOOSE k \in primary : TRUE
  <2>1. /\ pending # NothingAsked
        /\ Becomes(discarded(kind), opened /\ pending # "LEAVE", NoIntent, NothingAsked, admission)
    BY <1>7 DEF discard, Idle
  <2>2. primary \subseteq Acts
    BY DEF authorityPrimaryAction, Acts
  <2>3. kind \in {"ADMIT"} \cup Acts
    BY <1>1, <2>1, <2>2 DEF AuthorityTypes
  <2> HIDE DEF kind
  <2> QED
    BY <2>1, <2>3, ReplacingHolds
<1> QED
  BY <1>2, <1>3, <1>4, <1>5, <1>6, <1>7

\* Steps inside the form, which keep what it is about.
LEMMA StepHolds ==
  ASSUME AuthorityInvariant, NEW f \in Forms, Step(f),
         f.kind = form.kind, f.about = form.about, f.facts = form.facts,
         retained(form) /\ ~Revert => retained(f) \/ Waiting(f)
  PROVE  AuthorityInvariant' /\ Knowingly
<1>1. /\ Becomes(f, opened, intent, pending, admission)
      /\ intent \in {NoIntent} \cup Intents /\ admission \in BOOLEAN
      /\ pending \in {NothingAsked, "LEAVE", "ADMIT"} \cup Acts
  BY DEF Step, AuthorityInvariant, AuthorityTypes
<1> QED
  BY <1>1, BecomesHolds

LEMMA InsideHolds ==
  ASSUME AuthorityInvariant, Write \/ Revert \/ Preview \/ Execute
  PROVE  AuthorityInvariant' /\ Knowingly
<1>1. form \in Forms
  BY DEF AuthorityInvariant, AuthorityTypes
<1>2. CASE Write
  <2> DEFINE work == IF form.work = "NOTHING" /\ form.phase = "EDITING" THEN "TEXT"
                     ELSE IF form.phase = "PREPARED" THEN "IDENTITY" ELSE form.work
             f == [form EXCEPT !.phase = "EDITING", !.work = work]
  <2>1. Step(f) /\ form.phase \in {"EDITING", "PREPARED"}
    BY <1>2 DEF Write
  <2>2. work \in {"TEXT", "IDENTITY"}
    BY <1>1, <2>1 DEF Forms
  <2> HIDE DEF work
  <2>3. f \in Forms /\ f.kind = form.kind /\ f.about = form.about /\ f.facts = form.facts /\ retained(f)
    BY <1>1, <2>2 DEF Forms, retained
  <2> HIDE DEF f
  <2> QED
    BY <2>1, <2>3, StepHolds
<1>3. CASE Revert
  <2> DEFINE f == [form EXCEPT !.work = "NOTHING"]
  <2>1. f \in Forms /\ f.kind = form.kind /\ f.about = form.about /\ f.facts = form.facts /\ Step(f)
    BY <1>1, <1>3 DEF Forms, Revert
  <2> HIDE DEF f
  <2> QED
    BY <1>3, <2>1, StepHolds
<1>4. CASE Preview
  <2> DEFINE f == [form EXCEPT !.phase = "PREVIEWING"]
  <2>1. /\ f \in Forms /\ f.kind = form.kind /\ f.about = form.about /\ f.facts = form.facts
        /\ Step(f) /\ Waiting(f)
    BY <1>1, <1>4 DEF Forms, Preview, Waiting
  <2> HIDE DEF f
  <2> QED
    BY <2>1, StepHolds
<1>5. CASE Execute
  <2> DEFINE f == [form EXCEPT !.phase = "SUBMITTING"]
  <2>1. /\ f \in Forms /\ f.kind = form.kind /\ f.about = form.about /\ f.facts = form.facts
        /\ Step(f) /\ Waiting(f)
    BY <1>1, <1>5 DEF Forms, Execute, Waiting
  <2> HIDE DEF f
  <2> QED
    BY <2>1, StepHolds
<1> QED
  BY <1>2, <1>3, <1>4, <1>5

LEMMA RepliedHolds ==
  ASSUME AuthorityInvariant, Replied
  PROVE  AuthorityInvariant' /\ Knowingly
<1>1. AuthorityTypes /\ form \in Forms
  BY DEF AuthorityInvariant, AuthorityTypes
<1>2. ASSUME NEW masked \in {FALSE, form.masked},
             Step([form EXCEPT !.phase = "PREPARED", !.masked = masked])
      PROVE  AuthorityInvariant' /\ Knowingly
  <2> DEFINE f == [form EXCEPT !.phase = "PREPARED", !.masked = masked]
  <2>1. /\ f \in Forms /\ f.kind = form.kind /\ f.about = form.about /\ f.facts = form.facts
        /\ retained(f)
    BY <1>1 DEF Forms, retained
  <2> HIDE DEF f
  <2>2. Step(f)
    BY <1>2 DEF f
  <2> QED
    BY <2>1, <2>2, StepHolds
<1>3. ASSUME NEW phase \in {"PREPARED", "UNRESOLVED"}, Step([form EXCEPT !.phase = phase])
      PROVE  AuthorityInvariant' /\ Knowingly
  <2> DEFINE f == [form EXCEPT !.phase = phase]
  <2>1. /\ f \in Forms /\ f.kind = form.kind /\ f.about = form.about /\ f.facts = form.facts
        /\ retained(f)
    BY <1>1 DEF Forms, retained
  <2> HIDE DEF f
  <2>2. Step(f)
    BY <1>3 DEF f
  <2> QED
    BY <2>1, <2>2, StepHolds
<1>4. ASSUME Step([form EXCEPT !.phase = "EDITING", !.work = "IDENTITY"])
      PROVE  AuthorityInvariant' /\ Knowingly
  <2> DEFINE f == [form EXCEPT !.phase = "EDITING", !.work = "IDENTITY"]
  <2>1. /\ f \in Forms /\ f.kind = form.kind /\ f.about = form.about /\ f.facts = form.facts
        /\ retained(f)
    BY <1>1 DEF Forms, retained
  <2> HIDE DEF f
  <2>2. Step(f)
    BY <1>4 DEF f
  <2> QED
    BY <2>1, <2>2, StepHolds
<1>5. ASSUME Refuse(disclosure.revision, [form EXCEPT !.phase = "PREPARED"])
      PROVE  AuthorityInvariant' /\ Knowingly
  <2> DEFINE f == [form EXCEPT !.phase = "PREPARED"]
             n == disclosure.revision
  <2>1. /\ f \in Forms /\ f.kind = form.kind /\ f.about = form.about /\ f.facts = form.facts
        /\ retained(f)
    BY <1>1 DEF Forms, retained
  <2> HIDE DEF f, n
  <2>2. Refuse(n, f)
    BY <1>5 DEF f, n
  <2> QED
    BY <2>1, <2>2, RefuseHolds
<1>6. CASE onRecorded
  <2> DEFINE f == [form EXCEPT !.phase = "ACCEPTED", !.masked = FALSE]
  <2>1. /\ f \in Forms /\ f.kind = form.kind /\ f.about = form.about /\ f.facts = form.facts
        /\ f.phase = "ACCEPTED"
    BY <1>1 DEF Forms
  <2>2. disclosure' \in Disclosures
    BY <1>1, <1>6, InvalidatedDisclosure DEF onRecorded
  <2>3. /\ actorId' = Nobody /\ pending' = NothingAsked /\ UNCHANGED <<intent, admission>>
        /\ Forgets /\ Rendered(f, opened)
    BY <1>6 DEF onRecorded
  <2> HIDE DEF f
  <2> QED
    BY <2>1, <2>2, <2>3, ReadHolds DEF Selections
<1>7. \/ \E masked \in {FALSE, form.masked} : Step([form EXCEPT !.phase = "PREPARED", !.masked = masked])
      \/ Refuse(disclosure.revision, [form EXCEPT !.phase = "PREPARED"])
      \/ Step([form EXCEPT !.phase = "PREPARED"]) \/ Step([form EXCEPT !.phase = "UNRESOLVED"])
      \/ Step([form EXCEPT !.phase = "EDITING", !.work = "IDENTITY"]) \/ onRecorded
  BY DEF Replied
<1> QED
  BY <1>2, <1>3, <1>4, <1>5, <1>6, <1>7

LEMMA AuthorityInitHolds == AuthorityInit => AuthorityInvariant
<1> SUFFICES ASSUME AuthorityInit PROVE AuthorityInvariant
  OBVIOUS
<1>1. form \in Forms
  BY FreshType DEF AuthorityInit, Selections
<1>2. disclosure \in Disclosures
  BY DEF AuthorityInit, Disclosures
<1>3. AuthorityTypes
  BY <1>1, <1>2 DEF AuthorityInit, AuthorityTypes, Selections
<1> QED
  BY <1>3 DEF AuthorityInit, AuthorityInvariant, SnapshotIsCurrent

LEMMA AuthorityNextHolds ==
  AuthorityInvariant /\ [AuthorityNext]_authority => AuthorityInvariant' /\ (Knowingly \/ UNCHANGED authority)
<1> SUFFICES ASSUME AuthorityInvariant, [AuthorityNext]_authority
             PROVE  AuthorityInvariant' /\ (Knowingly \/ UNCHANGED authority)
  OBVIOUS
<1>1. CASE Select \/ ViewsChanged \/ refused \/ restored \/ ReloadActors
  BY <1>1, ReadingHolds
<1>2. CASE observe
  BY <1>2, ObserveHolds
<1>3. CASE begin
  BY <1>3, BeginHolds
<1>4. CASE admit
  BY <1>4, AdmitHolds
<1>5. CASE Continue \/ Change \/ closePanel \/ Depart \/ KeepForm \/ discard
  BY <1>5, DialogHolds
<1>6. CASE Write \/ Revert \/ Preview \/ Execute
  BY <1>6, InsideHolds
<1>7. CASE Replied
  BY <1>7, RepliedHolds
<1>8. CASE UNCHANGED authority
  BY <1>8 DEF authority, AuthorityInvariant, AuthorityTypes, SnapshotIsCurrent
<1> QED
  BY <1>1, <1>2, <1>3, <1>4, <1>5, <1>6, <1>7, <1>8 DEF AuthorityNext

(* For any people and number of disclosures: work in the form is replaced only by
   the person's answer to the dialog or once they undid it themselves, and what
   replaces it is taken from a disclosure still in force (useAuthorityTarget.ts). *)
THEOREM ReplacementsAreKnown == AuthoritySpec => DraftsAreReplacedKnowingly
<1>1. AuthorityInvariant /\ [AuthorityNext]_authority => AuthorityInvariant'
  BY AuthorityNextHolds
<1>2. AuthorityInvariant /\ [AuthorityNext]_authority =>
        [/\ retained(form) /\ pending = NothingAsked /\ ~Revert =>
              <<form'.kind, form'.about, form'.facts>> = <<form.kind, form.about, form.facts>>
         /\ form'.facts # form.facts => form'.facts \in {{}, {disclosure'.revision}}]_authority
  BY AuthorityNextHolds DEF Knowingly
<1> QED
  BY <1>1, <1>2, AuthorityInitHolds, PTL DEF AuthoritySpec, DraftsAreReplacedKnowingly

-------------------------------------------------------------------------------
(* Typed dates and amounts.                                                 *)

EntrySpec == EntryInit /\ [][EntryNext]_entering

Dates == [Parts -> PartValues \cup {0}]
DateInput(value, baseline, entry, phase) ==
  [kind |-> "DATE", value |-> value, baseline |-> baseline, entry |-> entry, phase |-> phase]
Field(parts, previous, restoring) ==
  [mounted |-> TRUE, parts |-> parts, previous |-> previous, restoring |-> restoring]

LEMMA DateFacts ==
  /\ NoParts \in Dates /\ ~Complete(NoParts)
  /\ ISO(NoParts) = NoParts /\ captured(NoParts) = NoParts
  /\ \A parts \in Dates :
       /\ Complete(parts) => parts # NoParts
       /\ ISO(parts) \in Dates /\ captured(parts) \in Dates
       /\ ISO(parts) = NoParts \/ captured(parts) = NoParts
       /\ captured(parts) = NoParts => ISO(parts) = parts
       /\ captured(parts) # NoParts => captured(parts) = parts /\ ~Complete(parts)
  BY DEF Dates, Parts, NoParts, Complete, ISO, captured

\* What the operators of the form and of the field make of a date under way.
LEMMA EditedDate ==
  ASSUME NEW value, NEW baseline, NEW entry, NEW new
  PROVE  editInput(DateInput(value, baseline, entry, "EDITING"), new)
           = DateInput(new, baseline, NoParts, "EDITING")
  BY DEF editInput, canEdit, DateInput

LEMMA EnteredDate ==
  ASSUME NEW value, NEW baseline, NEW entry, NEW parts
  PROVE  dateEntry(DateInput(value, baseline, entry, "EDITING"), value, parts)
           = IF parts = NoParts THEN DateInput(value, baseline, NoParts, "EDITING")
             ELSE DateInput(NoParts, baseline, parts, "EDITING")
<1> DEFINE f == DateInput(value, baseline, entry, "EDITING")
           emptied == DateInput(NoParts, baseline, NoParts, "EDITING")
<1>1. dateEntry(f, value, parts) = IF parts = NoParts THEN [f EXCEPT !.entry = NoParts]
                                   ELSE [editInput(f, NoParts) EXCEPT !.entry = parts]
  BY DEF dateEntry, canEdit, DateInput
<1>2. editInput(f, NoParts) = emptied
  BY EditedDate
<1>3. [f EXCEPT !.entry = NoParts] = DateInput(value, baseline, NoParts, "EDITING")
  BY DEF DateInput
<1>4. [emptied EXCEPT !.entry = parts] = DateInput(NoParts, baseline, parts, "EDITING")
  BY DEF DateInput
<1> HIDE DEF f, emptied
<1> QED
  BY <1>1, <1>2, <1>3, <1>4 DEF f

\* Only the segments change.
LEMMA FieldParts ==
  ASSUME NEW parts, NEW previous, NEW restoring, NEW new
  PROVE  [Field(parts, previous, restoring) EXCEPT !.parts = new] = Field(new, previous, restoring)
<1> DEFINE yes == TRUE
<1>1. \A x, y, z : Field(x, y, z) = [mounted |-> yes, parts |-> x, previous |-> y, restoring |-> z]
  BY DEF Field
<1> HIDE DEF yes
<1>2. [[mounted |-> yes, parts |-> parts, previous |-> previous, restoring |-> restoring] EXCEPT !.parts = new]
        = [mounted |-> yes, parts |-> new, previous |-> previous, restoring |-> restoring]
  OBVIOUS
<1> QED
  BY Zenon, <1>1, <1>2

\* The segments the field shows after the value changed.
Followed(parts, previous, value, keeps) ==
  IF previous = value THEN parts ELSE IF value # NoParts THEN value ELSE IF keeps THEN parts ELSE NoParts

LEMMA FollowedDate ==
  ASSUME NEW parts, NEW previous, NEW restoring, NEW keeps,
         NEW value, NEW baseline, NEW entry
  PROVE  Follow(Field(parts, previous, restoring), DateInput(value, baseline, entry, "EDITING"), keeps)
           = Field(Followed(parts, previous, value, keeps), previous, restoring)
<1> DEFINE w == Field(parts, previous, restoring)
           f == DateInput(value, baseline, entry, "EDITING")
           next == IF value # NoParts THEN value ELSE IF keeps THEN parts ELSE NoParts
<1>1. w.previous = previous /\ w.parts = parts
  BY DEF Field
<1>2. f.value = value
  BY DEF DateInput
<1> HIDE DEF f, w
<1>3. Follow(w, f, keeps) = IF previous = value THEN w ELSE [w EXCEPT !.parts = next]
  BY <1>1, <1>2 DEF Follow
<1> HIDE DEF next
<1>4. [w EXCEPT !.parts = next] = Field(next, previous, restoring)
  BY FieldParts DEF w
<1> QED
  BY <1>3, <1>4 DEF w, f, next, Followed

\* The parts a rendering gives back, and the parts it shows then.
Regained(previous, value, restoring, entry) ==
  IF previous = value THEN restoring ELSE IF value = NoParts THEN entry ELSE NoParts
Seen(parts, regained) == IF regained = NoParts THEN parts ELSE regained

LEMMA DraftedDate ==
  ASSUME NEW parts, NEW previous, NEW restoring, NEW value, NEW baseline, NEW entry, NEW date,
         date = Seen(parts, Regained(previous, value, restoring, entry))
  PROVE  DateEntryDraft(Field(parts, previous, restoring), DateInput(value, baseline, entry, "EDITING"))
           = [field |-> Field(date, value, NoParts),
              input |-> IF captured(date) = NoParts THEN DateInput(value, baseline, NoParts, "EDITING")
                        ELSE DateInput(NoParts, baseline, captured(date), "EDITING")]
<1> DEFINE w == Field(parts, previous, restoring)
           f == DateInput(value, baseline, entry, "EDITING")
           regained == Regained(previous, value, restoring, entry)
           seen == IF w.previous = f.value THEN w
                   ELSE [w EXCEPT !.previous = f.value, !.restoring = IF f.value = NoParts THEN f.entry ELSE NoParts]
           showing == IF seen.restoring = NoParts THEN seen
                      ELSE [seen EXCEPT !.parts = seen.restoring, !.restoring = NoParts]
<1>1. DateEntryDraft(w, f) = [field |-> showing, input |-> dateEntry(f, f.value, captured(showing.parts))]
  BY DEF DateEntryDraft, DateInput
<1>2. seen = Field(parts, value, regained)
  BY DEF Field, DateInput, Regained
<1>3. f.value = value
  BY DEF DateInput
<1> HIDE DEF seen, regained, w
<1>4. showing = Field(date, value, NoParts) /\ showing.parts = date
  BY <1>2 DEF Field, Seen, regained
<1> HIDE DEF showing
<1>5. dateEntry(f, value, captured(date))
        = IF captured(date) = NoParts THEN DateInput(value, baseline, NoParts, "EDITING")
          ELSE DateInput(NoParts, baseline, captured(date), "EDITING")
  BY EnteredDate
<1> HIDE DEF f
<1> QED
  BY <1>1, <1>3, <1>4, <1>5 DEF w, f

(* Two renderings settle it: the field shows the parts it was left with, or those
   the form gives back to it, and the form holds their date or the parts.    *)
LEMMA SettledDate ==
  ASSUME NEW parts, NEW previous, NEW restoring, NEW value, NEW baseline, NEW entry,
         NEW keeps, NEW keepsAfter, NEW date \in Dates,
         date = Seen(Followed(parts, previous, value, keeps), Regained(previous, value, restoring, entry)),
         captured(date) = NoParts => value = date,
         Settle(Field(parts, previous, restoring), DateInput(value, baseline, entry, "EDITING"), keeps, keepsAfter)
  PROVE  /\ field' = Field(date, ISO(date), NoParts)
         /\ input' = DateInput(ISO(date), baseline, captured(date), "EDITING")
<1> DEFINE w == Field(parts, previous, restoring)
           f == DateInput(value, baseline, entry, "EDITING")
           followed == Followed(parts, previous, value, keeps)
           value2 == IF captured(date) = NoParts THEN value ELSE NoParts
           entry2 == captured(date)
           f2 == DateInput(value2, baseline, entry2, "EDITING")
           w2 == Field(date, value, NoParts)
           first == DateEntryDraft(Follow(w, f, keeps), f)
           second == DateEntryDraft(Follow(first.field, first.input, keepsAfter), first.input)
           followed2 == Followed(date, value, value2, keepsAfter)
<1>1. value2 = ISO(date)
  BY DateFacts
<1>2. Follow(w, f, keeps) = Field(followed, previous, restoring)
  BY FollowedDate
<1>3. first = [field |-> w2, input |-> f2]
  <2>1. DateEntryDraft(Field(followed, previous, restoring), f)
          = [field |-> w2,
             input |-> IF captured(date) = NoParts THEN DateInput(value, baseline, NoParts, "EDITING")
                       ELSE DateInput(NoParts, baseline, captured(date), "EDITING")]
    <3> HIDE DEF followed
    <3> QED
      BY DraftedDate DEF followed
  <2> QED
    BY <1>2, <2>1
<1>4. first.field = w2 /\ first.input = f2
  BY <1>3
<1>5. Follow(w2, f2, keepsAfter) = Field(followed2, value, NoParts)
  BY FollowedDate
<1>6. DateEntryDraft(Field(followed2, value, NoParts), f2)
        = [field |-> Field(date, value2, NoParts),
           input |-> IF captured(date) = NoParts THEN DateInput(value2, baseline, NoParts, "EDITING")
                     ELSE DateInput(NoParts, baseline, captured(date), "EDITING")]
  <2>1. date = Seen(followed2, Regained(value, value2, NoParts, entry2))
    BY DateFacts DEF Seen, Regained, Followed
  <2> HIDE DEF followed2, value2, entry2
  <2> QED
    BY <2>1, DraftedDate
<1>7. field' = second.field /\ input' = second.input
  BY DEF Settle
<1>8. second = [field |-> Field(date, value2, NoParts), input |-> f2]
  <2> HIDE DEF first, w2, f2
  <2> QED
    BY <1>4, <1>5, <1>6 DEF f2
<1> HIDE DEF second, f2, value2
<1>9. field' = Field(date, value2, NoParts) /\ input' = f2
  BY <1>7, <1>8
<1> QED
  BY <1>1, <1>9 DEF f2

(* The invariant. What was typed determines the value, the date entry and the
   mounted field; a review is about the value as it stands, and nothing but the
   loss of the session, which ends it, covers a field while it is under way.  *)
WholeDates == {date \in Dates : captured(date) = NoParts}
EntryPhases == {"EDITING", "PREVIEWING", "REVIEWING"}
Ready(value) == [ready |-> TRUE, value |-> value]
AmountInput(value, baseline, phase) ==
  [kind |-> "AMOUNT", value |-> value, baseline |-> baseline, entry |-> NoParts, phase |-> phase]
Disclosed == [text |-> Prefill, locale |-> Canonical]
TypedAmounts == {[text |-> text, locale |-> locale] : text \in AmountTexts, locale \in DOMAIN Locales}

Asks(phase, value) ==
  /\ phase = "PREVIEWING" => cover = {}
  /\ phase \in {"PREVIEWING", "REVIEWING"} => prepared = Ready(value)
DateAs(date, baseline, phase) ==
  /\ typed = date
  /\ input = DateInput(ISO(date), baseline, captured(date), phase)
  /\ field = IF cover = {} /\ phase # "REVIEWING" THEN Field(date, ISO(date), NoParts) ELSE Covered
  /\ Asks(phase, ISO(date))
AmountAs(amount, phase) ==
  /\ typed = amount
  /\ input = AmountInput(amount, Disclosed, phase)
  /\ Asks(phase, normalizeAmountValues(amount))
DateEntered == \E date \in Dates, baseline \in WholeDates, phase \in EntryPhases : DateAs(date, baseline, phase)
AmountEntered == \E amount \in TypedAmounts \cup {Disclosed}, phase \in EntryPhases : AmountAs(amount, phase)
EntryInvariant == displayLocale \in DOMAIN Locales /\ (DateEntered \/ AmountEntered)

\* A field mounted over a date gives back all that was typed into it.
LEMMA UncoveredDate ==
  ASSUME NEW date \in Dates, NEW baseline, Uncovered(DateInput(ISO(date), baseline, captured(date), "EDITING"))
  PROVE  /\ field' = Field(date, ISO(date), NoParts)
         /\ input' = DateInput(ISO(date), baseline, captured(date), "EDITING")
<1> DEFINE f == DateInput(ISO(date), baseline, captured(date), "EDITING")
           w == Field(ISO(date), ISO(date), captured(date))
<1>1. f.kind = "DATE" /\ f.value = ISO(date) /\ f.entry = captured(date)
  BY DEF DateInput
<1>2. Mounted(f) = w
  <2> HIDE DEF f
  <2> QED
    BY <1>1 DEF Mounted, Field
<1>3. Settle(w, f, TRUE, TRUE)
  <2> HIDE DEF f, w
  <2> QED
    BY <1>1, <1>2 DEF Uncovered, f
<1>4. date = Seen(Followed(ISO(date), ISO(date), ISO(date), TRUE),
                  Regained(ISO(date), ISO(date), captured(date), captured(date)))
  BY DateFacts DEF Seen, Followed, Regained
<1>5. captured(date) = NoParts => ISO(date) = date
  BY DateFacts
<1> QED
  BY <1>3, <1>4, <1>5, SettledDate

\* A field that stays mounted keeps what was typed into it.
LEMMA KeptDate ==
  ASSUME NEW date \in Dates, NEW baseline,
         Settle(Field(date, ISO(date), NoParts), DateInput(ISO(date), baseline, captured(date), "EDITING"), TRUE, TRUE)
  PROVE  /\ field' = Field(date, ISO(date), NoParts)
         /\ input' = DateInput(ISO(date), baseline, captured(date), "EDITING")
<1> DEFINE value == ISO(date)
           entry == captured(date)
           none == NoParts
           yes == TRUE
<1>1. date = Seen(Followed(date, value, value, yes), Regained(value, value, none, entry))
  BY DateFacts DEF Seen, Followed, Regained
<1>2. captured(date) = NoParts => value = date
  BY DateFacts
<1>3. Settle(Field(date, value, none), DateInput(value, baseline, entry, "EDITING"), yes, yes)
  OBVIOUS
<1> HIDE DEF value, entry, none, yes
<1>4. /\ field' = Field(date, ISO(date), NoParts)
      /\ input' = DateInput(ISO(date), baseline, captured(date), "EDITING")
  BY <1>1, <1>2, <1>3, SettledDate
<1> QED
  BY <1>4

\* A form that starts afresh holds a whole date or none.
LEMMA FreshDate ==
  ASSUME NEW baseline \in WholeDates
  PROVE  /\ baseline \in Dates /\ ISO(baseline) = baseline /\ captured(baseline) = NoParts
         /\ FreshInput("DATE", baseline) = DateInput(ISO(baseline), baseline, captured(baseline), "EDITING")
<1>1. baseline \in Dates /\ ISO(baseline) = baseline /\ captured(baseline) = NoParts
  BY DateFacts DEF WholeDates
<1> QED
  BY <1>1 DEF FreshInput, DateInput

LEMMA EntryInitHolds ==
  ASSUME EntryInit
  PROVE  EntryInvariant
<1>1. CASE input.kind = "DATE"
  <2>1. PICK date \in {NoParts, FullDate} : input = FreshInput("DATE", date)
    BY <1>1 DEF EntryInit, FreshInput
  <2>2. FullDate \in Dates /\ Complete(FullDate)
    BY LocalesAssumption DEF FullDate, Dates, Complete, Parts
  <2>3. date \in WholeDates
    BY <2>2, DateFacts DEF WholeDates, captured
  <2>4. input = DateInput(ISO(date), date, captured(date), "EDITING")
    BY <2>1, <2>3, FreshDate
  <2>5. date \in Dates /\ ISO(date) = date /\ captured(date) = NoParts
    BY <2>3, FreshDate
  <2>6. typed = date /\ field = Mounted(input) /\ cover = {}
    BY <1>1, <2>1 DEF EntryInit, FreshInput
  <2>7. Mounted(input) = Field(date, ISO(date), NoParts)
    BY <2>1, <2>5 DEF Mounted, Field, FreshInput
  <2>8. DateAs(date, date, "EDITING")
    BY <2>4, <2>6, <2>7 DEF DateAs, Asks
  <2> QED
    BY <2>3, <2>5, <2>8 DEF EntryInvariant, DateEntered, EntryPhases, EntryInit
<1>2. CASE input.kind # "DATE"
  <2>1. input = FreshInput("AMOUNT", Disclosed)
    BY <1>2 DEF EntryInit, FreshInput, Disclosed
  <2>2. input = AmountInput(Disclosed, Disclosed, "EDITING") /\ typed = Disclosed
    BY <2>1 DEF EntryInit, FreshInput, AmountInput
  <2>3. AmountAs(Disclosed, "EDITING")
    BY <2>2 DEF AmountAs, Asks
  <2> QED
    BY <2>3 DEF EntryInvariant, AmountEntered, EntryPhases, EntryInit
<1> QED
  BY <1>1, <1>2

LEMMA InputFacts ==
  ASSUME NEW value, NEW baseline, NEW entry, NEW phase
  PROVE  /\ DateInput(value, baseline, entry, phase).kind = "DATE"
         /\ DateInput(value, baseline, entry, phase).value = value
         /\ DateInput(value, baseline, entry, phase).baseline = baseline
         /\ DateInput(value, baseline, entry, phase).entry = entry
         /\ DateInput(value, baseline, entry, phase).phase = phase
         /\ \A other : [DateInput(value, baseline, entry, phase) EXCEPT !.phase = other]
                         = DateInput(value, baseline, entry, other)
         /\ AmountInput(value, baseline, phase).kind = "AMOUNT"
         /\ AmountInput(value, baseline, phase).value = value
         /\ AmountInput(value, baseline, phase).baseline = baseline
         /\ AmountInput(value, baseline, phase).phase = phase
         /\ \A other : [AmountInput(value, baseline, phase) EXCEPT !.phase = other]
                         = AmountInput(value, baseline, other)
<1>1. ASSUME NEW other
      PROVE  [DateInput(value, baseline, entry, phase) EXCEPT !.phase = other]
               = DateInput(value, baseline, entry, other)
  BY DEF DateInput
<1>2. ASSUME NEW other
      PROVE  [AmountInput(value, baseline, phase) EXCEPT !.phase = other] = AmountInput(value, baseline, other)
  BY DEF AmountInput
<1>3. /\ DateInput(value, baseline, entry, phase).kind = "DATE"
      /\ DateInput(value, baseline, entry, phase).value = value
      /\ DateInput(value, baseline, entry, phase).baseline = baseline
      /\ DateInput(value, baseline, entry, phase).entry = entry
      /\ DateInput(value, baseline, entry, phase).phase = phase
  BY DEF DateInput
<1>4. /\ AmountInput(value, baseline, phase).kind = "AMOUNT"
      /\ AmountInput(value, baseline, phase).value = value
      /\ AmountInput(value, baseline, phase).baseline = baseline
      /\ AmountInput(value, baseline, phase).phase = phase
  BY DEF AmountInput
<1> QED
  BY <1>1, <1>2, <1>3, <1>4

\* A date that is being edited, on the page.
LEMMA DateBecomes ==
  ASSUME NEW date \in Dates, NEW baseline \in WholeDates,
         typed' = date, cover' = {},
         field' = Field(date, ISO(date), NoParts),
         input' = DateInput(ISO(date), baseline, captured(date), "EDITING")
  PROVE  DateEntered'
<1>1. DateAs(date, baseline, "EDITING")'
  BY DEF DateAs, Asks
<1> QED
  BY <1>1 DEF DateEntered, EntryPhases

\* What is typed or picked is what the field shows and the form holds.
LEMMA TypeSegmentHolds ==
  ASSUME NEW date \in Dates, NEW baseline \in WholeDates, NEW phase \in EntryPhases,
         DateAs(date, baseline, phase),
         NEW part \in Parts, NEW number \in PartValues \cup {0}, NEW reports, NEW keeps,
         TypeSegment(part, number, reports, keeps)
  PROVE  DateEntered'
<1> DEFINE parts == [field.parts EXCEPT ![part] = number]
           heard == IF Complete(parts) THEN editInput(input, parts)
                    ELSE IF number = 0 /\ reports THEN editInput(input, NoParts) ELSE input
<1>1. /\ cover = {} /\ input.phase = "EDITING"
      /\ Settle([field EXCEPT !.parts = parts], heard, TRUE, keeps)
      /\ typed' = parts /\ cover' = cover
  BY DEF TypeSegment, Editable, Shown
<1>2. phase = "EDITING"
  BY <1>1, InputFacts DEF DateAs
<1>3. field = Field(date, ISO(date), NoParts) /\ input = DateInput(ISO(date), baseline, captured(date), "EDITING")
  BY <1>1, <1>2 DEF DateAs
<1>4. parts = [date EXCEPT ![part] = number]
  BY <1>3 DEF Field
<1>5. parts \in Dates
  BY <1>4 DEF Dates
<1>6. [field EXCEPT !.parts = parts] = Field(parts, ISO(date), NoParts)
  <2> HIDE DEF parts
  <2> QED
    BY <1>3, FieldParts
<1>7. parts = NoParts => ISO(date) = NoParts
  <2>1. \A other \in Parts \ {part} : parts[other] = date[other]
    BY <1>4 DEF Dates
  <2>2. \E other \in Parts \ {part} : TRUE
    BY DEF Parts
  <2> QED
    BY <2>1, <2>2 DEF NoParts, ISO, Complete
<1> HIDE DEF parts
<1>8. \/ Complete(parts) /\ heard = DateInput(parts, baseline, NoParts, "EDITING")
      \/ ~Complete(parts) /\ heard = DateInput(NoParts, baseline, NoParts, "EDITING")
      \/ ~Complete(parts) /\ heard = DateInput(ISO(date), baseline, captured(date), "EDITING")
  BY <1>3, EditedDate
<1> HIDE DEF heard
<1>9. PICK value, entry :
        /\ heard = DateInput(value, baseline, entry, "EDITING")
        /\ \/ Complete(parts) /\ value = parts /\ entry = NoParts
           \/ ~Complete(parts) /\ value = NoParts /\ entry = NoParts
           \/ ~Complete(parts) /\ value = ISO(date)
  BY <1>8
<1>10. Settle(Field(parts, ISO(date), NoParts), DateInput(value, baseline, entry, "EDITING"), TRUE, keeps)
  BY <1>1, <1>6, <1>9
<1>11. parts = Seen(Followed(parts, ISO(date), value, TRUE), Regained(ISO(date), value, NoParts, entry))
  BY <1>5, <1>9, DateFacts DEF Seen, Followed, Regained
<1>12. captured(parts) = NoParts => value = parts
  BY <1>5, <1>7, <1>9, DateFacts DEF captured
<1>13. /\ field' = Field(parts, ISO(parts), NoParts)
       /\ input' = DateInput(ISO(parts), baseline, captured(parts), "EDITING")
  BY <1>5, <1>10, <1>11, <1>12, SettledDate
<1> QED
  BY <1>1, <1>5, <1>13, DateBecomes

LEMMA PickDateHolds ==
  ASSUME NEW date \in Dates, NEW baseline \in WholeDates, NEW phase \in EntryPhases,
         DateAs(date, baseline, phase), NEW picked \in [Parts -> PartValues], PickDate(picked)
  PROVE  DateEntered'
<1>1. /\ cover = {} /\ input.phase = "EDITING"
      /\ Settle(field, editInput(input, picked), TRUE, TRUE)
      /\ typed' = picked /\ cover' = cover
  BY DEF PickDate, Editable, Shown
<1>2. phase = "EDITING"
  BY <1>1, InputFacts DEF DateAs
<1>3. field = Field(date, ISO(date), NoParts) /\ input = DateInput(ISO(date), baseline, captured(date), "EDITING")
  BY <1>1, <1>2 DEF DateAs
<1>4. editInput(input, picked) = DateInput(picked, baseline, NoParts, "EDITING")
  BY <1>3, EditedDate
<1>5. picked \in Dates /\ Complete(picked)
  BY LocalesAssumption DEF Dates, Complete
<1>6. picked = Seen(Followed(date, ISO(date), picked, TRUE), Regained(ISO(date), picked, NoParts, NoParts))
  BY <1>5, DateFacts DEF Seen, Followed, Regained, ISO
<1>7. Settle(Field(date, ISO(date), NoParts), DateInput(picked, baseline, NoParts, "EDITING"), TRUE, TRUE)
  BY <1>1, <1>3, <1>4
<1>8. /\ field' = Field(picked, ISO(picked), NoParts)
      /\ input' = DateInput(ISO(picked), baseline, captured(picked), "EDITING")
  BY <1>5, <1>6, <1>7, SettledDate
<1> QED
  BY <1>1, <1>5, <1>8, DateBecomes

\* Back on the page, the field shows what was typed, and the input is edited again.
LEMMA UncoveredHolds ==
  ASSUME NEW date \in Dates, NEW baseline \in WholeDates,
         Uncovered(DateInput(ISO(date), baseline, captured(date), "EDITING")), typed' = date, cover' = {}
  PROVE  DateEntered'
  BY UncoveredDate, DateBecomes

LEMMA DateCoverHolds ==
  ASSUME NEW date \in Dates, NEW baseline \in WholeDates, NEW phase \in EntryPhases,
         DateAs(date, baseline, phase), NEW by \in {"SETTINGS", "QUESTION", "SESSION"}, Cover(by)
  PROVE  DateEntered'
<1> DEFINE phase2 == IF by = "SESSION" THEN "EDITING" ELSE phase
<1>1. /\ typed' = typed /\ field' = Covered /\ cover' = cover \cup {by}
      /\ by \in {"SETTINGS", "QUESTION"} => input.phase # "PREVIEWING"
      /\ input' = IF by = "SESSION" THEN [input EXCEPT !.phase = "EDITING"] ELSE input
      /\ by # "SESSION" => prepared' = prepared
  BY DEF Cover
<1>2. input = DateInput(ISO(date), baseline, captured(date), phase)
  BY DEF DateAs
<1>3. input.phase = phase /\ [input EXCEPT !.phase = "EDITING"] = DateInput(ISO(date), baseline, captured(date), "EDITING")
  BY <1>2, InputFacts
<1>4. input' = DateInput(ISO(date), baseline, captured(date), phase2)
  BY <1>1, <1>2, <1>3
<1>5. phase2 \in EntryPhases /\ phase2 # "PREVIEWING" /\ cover' # {}
  BY <1>1, <1>3 DEF EntryPhases
<1>6. phase2 = "REVIEWING" => prepared' = Ready(ISO(date))
  BY <1>1 DEF DateAs, Asks
<1>7. DateAs(date, baseline, phase2)'
  BY <1>1, <1>4, <1>5, <1>6 DEF DateAs, Asks
<1> QED
  BY <1>5, <1>7 DEF DateEntered

LEMMA DateUncoverHolds ==
  ASSUME NEW date \in Dates, NEW baseline \in WholeDates, NEW phase \in EntryPhases,
         DateAs(date, baseline, phase), NEW by, Uncover(by)
  PROVE  DateEntered'
<1>1. /\ by \in cover /\ cover' = cover \ {by} /\ prepared' = prepared /\ typed' = typed
      /\ IF cover' # {} \/ input.phase = "REVIEWING" THEN input' = input /\ field' = field ELSE Uncovered(input)
  BY DEF Uncover
<1>2. input = DateInput(ISO(date), baseline, captured(date), phase) /\ input.phase = phase
  BY InputFacts DEF DateAs
<1>3. phase # "PREVIEWING"
  BY <1>1 DEF DateAs, Asks
<1>4. CASE cover' # {} \/ phase = "REVIEWING"
  <2>1. input' = input /\ field' = field
    BY <1>1, <1>2, <1>4
  <2>2. field = Covered
    BY <1>1 DEF DateAs
  <2>3. DateAs(date, baseline, phase)'
    BY <1>1, <1>3, <1>4, <2>1, <2>2 DEF DateAs, Asks
  <2> QED
    BY <2>3 DEF DateEntered
<1>5. CASE cover' = {} /\ phase = "EDITING"
  <2>1. Uncovered(DateInput(ISO(date), baseline, captured(date), "EDITING"))
    BY <1>1, <1>2, <1>5
  <2>2. typed' = date
    BY <1>1 DEF DateAs
  <2> QED
    BY <1>5, <2>1, <2>2, UncoveredHolds
<1> QED
  BY <1>3, <1>4, <1>5 DEF EntryPhases

LEMMA DateDiscardHolds ==
  ASSUME NEW date \in Dates, NEW baseline \in WholeDates, NEW phase \in EntryPhases,
         DateAs(date, baseline, phase), DiscardDraft
  PROVE  DateEntered'
<1> DEFINE f == FreshInput(input.kind, input.baseline)
<1>1. input.kind = "DATE" /\ input.baseline = baseline
  BY InputFacts DEF DateAs
<1>2. /\ baseline \in Dates
      /\ f = DateInput(ISO(baseline), baseline, captured(baseline), "EDITING")
  BY <1>1, FreshDate
<1>3. /\ "QUESTION" \in cover /\ cover' = cover \ {"QUESTION"} /\ typed' = baseline
      /\ IF cover' = {} THEN Uncovered(f) ELSE input' = f /\ field' = field
  BY <1>1 DEF DiscardDraft
<1> HIDE DEF f
<1>4. CASE cover' = {}
  <2>1. Uncovered(DateInput(ISO(baseline), baseline, captured(baseline), "EDITING"))
    BY <1>2, <1>3, <1>4
  <2> QED
    BY <1>2, <1>3, <1>4, <2>1, UncoveredHolds
<1>5. CASE cover' # {}
  <2>1. field' = Covered /\ input' = DateInput(ISO(baseline), baseline, captured(baseline), "EDITING")
    BY <1>2, <1>3, <1>5 DEF DateAs
  <2>2. DateAs(baseline, baseline, "EDITING")'
    BY <1>3, <1>5, <2>1 DEF DateAs, Asks
  <2> QED
    BY <1>2, <2>2 DEF DateEntered, EntryPhases
<1> QED
  BY <1>4, <1>5

LEMMA DateReviewHolds ==
  ASSUME NEW date \in Dates, NEW baseline \in WholeDates, NEW phase \in EntryPhases,
         DateAs(date, baseline, phase), SendForReview \/ Reviewed \/ NotReviewed \/ ReturnToEdit
  PROVE  DateEntered'
<1>1. /\ input = DateInput(ISO(date), baseline, captured(date), phase)
      /\ input.kind = "DATE" /\ input.phase = phase /\ input.value = ISO(date)
      /\ \A other : [input EXCEPT !.phase = other] = DateInput(ISO(date), baseline, captured(date), other)
  BY InputFacts DEF DateAs
<1>2. CASE SendForReview
  <2>1. /\ cover = {} /\ phase = "EDITING" /\ cover' = cover /\ typed' = typed /\ field' = field
        /\ input' = [input EXCEPT !.phase = "PREVIEWING"]
        /\ prepared' = Ready(ISO(date))
    BY <1>1, <1>2 DEF SendForReview, Editable, Shown, Ready
  <2>2. DateAs(date, baseline, "PREVIEWING")'
    BY <1>1, <2>1 DEF DateAs, Asks
  <2> QED
    BY <2>2 DEF DateEntered, EntryPhases
<1>3. CASE Reviewed
  <2>1. /\ phase = "PREVIEWING" /\ cover' = cover /\ typed' = typed /\ prepared' = prepared
        /\ field' = Covered /\ input' = [input EXCEPT !.phase = "REVIEWING"]
    BY <1>1, <1>3 DEF Reviewed
  <2>2. prepared = Ready(ISO(date)) /\ typed = date
    BY <2>1 DEF DateAs, Asks
  <2>3. DateAs(date, baseline, "REVIEWING")'
    BY <1>1, <2>1, <2>2 DEF DateAs, Asks
  <2> QED
    BY <2>3 DEF DateEntered, EntryPhases
<1>4. CASE NotReviewed
  <2> DEFINE f == [input EXCEPT !.phase = "EDITING"]
  <2>1. /\ phase = "PREVIEWING" /\ cover' = cover /\ typed' = typed /\ Settle(field, f, TRUE, TRUE)
    BY <1>1, <1>4 DEF NotReviewed
  <2>2. f = DateInput(ISO(date), baseline, captured(date), "EDITING")
    BY <1>1
  <2> HIDE DEF f
  <2>3. cover = {} /\ field = Field(date, ISO(date), NoParts) /\ typed = date
    BY <2>1 DEF DateAs, Asks
  <2>4. Settle(Field(date, ISO(date), NoParts), DateInput(ISO(date), baseline, captured(date), "EDITING"), TRUE, TRUE)
    BY <2>1, <2>2, <2>3
  <2>5. /\ field' = Field(date, ISO(date), NoParts)
        /\ input' = DateInput(ISO(date), baseline, captured(date), "EDITING")
    BY <2>4, KeptDate
  <2> QED
    BY <2>1, <2>3, <2>5, DateBecomes
<1>5. CASE ReturnToEdit
  <2>1. cover = {} /\ cover' = cover /\ typed' = typed /\ Uncovered([input EXCEPT !.phase = "EDITING"])
    BY <1>5 DEF ReturnToEdit
  <2>2. Uncovered(DateInput(ISO(date), baseline, captured(date), "EDITING"))
    BY <1>1, <2>1
  <2>3. typed = date
    BY DEF DateAs
  <2> QED
    BY <2>1, <2>2, <2>3, UncoveredHolds
<1> QED
  BY <1>2, <1>3, <1>4, <1>5

LEMMA DateNextHolds ==
  ASSUME DateEntered, EntryNext
  PROVE  DateEntered'
<1>1. PICK date \in Dates, baseline \in WholeDates, phase \in EntryPhases : DateAs(date, baseline, phase)
  BY DEF DateEntered
<1>2. input.kind = "DATE"
  BY <1>1, InputFacts DEF DateAs
<1>3. CASE \E part \in Parts, number \in PartValues \cup {0}, reports, keeps \in BOOLEAN :
             TypeSegment(part, number, reports, keeps)
  BY <1>1, <1>3, TypeSegmentHolds
<1>4. CASE \E picked \in [Parts -> PartValues] : PickDate(picked)
  BY <1>1, <1>4, PickDateHolds
<1>5. CASE \E text \in AmountTexts : TypeAmount(text)
  BY <1>2, <1>5 DEF TypeAmount
<1>6. CASE \E by \in {"SETTINGS", "QUESTION", "SESSION"} : Cover(by) \/ Uncover(by)
  BY <1>1, <1>6, DateCoverHolds, DateUncoverHolds
<1>7. CASE \E locale \in DOMAIN Locales : ChangeDisplayLocale(locale)
  <2>1. cover' = cover /\ input' = input /\ field' = field /\ prepared' = prepared /\ typed' = typed
    BY <1>7 DEF ChangeDisplayLocale
  <2>2. DateAs(date, baseline, phase)'
    BY <1>1, <2>1 DEF DateAs, Asks
  <2> QED
    BY <2>2 DEF DateEntered
<1>8. CASE DiscardDraft
  BY <1>1, <1>8, DateDiscardHolds
<1>9. CASE SendForReview \/ Reviewed \/ NotReviewed \/ ReturnToEdit
  BY <1>1, <1>9, DateReviewHolds
<1> QED
  BY <1>3, <1>4, <1>5, <1>6, <1>7, <1>8, <1>9 DEF EntryNext

\* An amount is what it was typed as; the display locale of a later moment does not touch it.
LEMMA AmountNextHolds ==
  ASSUME AmountEntered, displayLocale \in DOMAIN Locales, EntryNext
  PROVE  AmountEntered'
<1>1. PICK amount \in TypedAmounts \cup {Disclosed}, phase \in EntryPhases : AmountAs(amount, phase)
  BY DEF AmountEntered
<1> DEFINE f == AmountInput(amount, Disclosed, "EDITING")
<1>2. /\ input = AmountInput(amount, Disclosed, phase) /\ typed = amount
      /\ input.kind = "AMOUNT" /\ input.phase = phase /\ input.value = amount /\ input.baseline = Disclosed
      /\ \A other : [input EXCEPT !.phase = other] = AmountInput(amount, Disclosed, other)
  BY <1>1, InputFacts DEF AmountAs
<1>3. ASSUME cover' = {} \/ phase # "PREVIEWING", prepared' = prepared, typed' = typed, input' = input
      PROVE  AmountEntered'
  <2>1. AmountAs(amount, phase)'
    BY <1>1, <1>3 DEF AmountAs, Asks, normalizeAmountValues
  <2> QED
    BY <2>1 DEF AmountEntered
<1>4. ASSUME typed' = typed, input' = f
      PROVE  AmountEntered'
  <2>1. AmountAs(amount, "EDITING")'
    BY <1>2, <1>4 DEF AmountAs, Asks
  <2> QED
    BY <2>1 DEF AmountEntered, EntryPhases
<1>5. CASE (\E part \in Parts, number \in PartValues \cup {0}, reports, keeps \in BOOLEAN :
              TypeSegment(part, number, reports, keeps))
           \/ \E date \in [Parts -> PartValues] : PickDate(date)
  BY <1>2, <1>5 DEF TypeSegment, PickDate
<1>6. ASSUME NEW text \in AmountTexts, TypeAmount(text)
      PROVE  AmountEntered'
  <2> DEFINE new == [text |-> text, locale |-> displayLocale]
  <2>1. /\ phase = "EDITING" /\ typed' = new /\ cover' = cover
        /\ input' = editInput(AmountInput(amount, Disclosed, "EDITING"), new)
    BY <1>2, <1>6 DEF TypeAmount, Editable, Shown, captureAmountEntry
  <2>2. new \in TypedAmounts
    BY <1>6 DEF TypedAmounts
  <2> HIDE DEF new
  <2>3. PICK added \in TypedAmounts : added = new
    BY <2>2
  <2>4. editInput(AmountInput(amount, Disclosed, "EDITING"), added) = AmountInput(added, Disclosed, "EDITING")
    BY DEF editInput, canEdit, AmountInput
  <2>5. AmountAs(added, "EDITING")'
    BY <2>1, <2>3, <2>4 DEF AmountAs, Asks
  <2> QED
    BY <2>5 DEF AmountEntered, EntryPhases
<1>7. ASSUME NEW by \in {"SETTINGS", "QUESTION", "SESSION"}, Cover(by)
      PROVE  AmountEntered'
  <2>1. typed' = typed
    BY <1>7 DEF Cover
  <2>2. CASE by = "SESSION"
    BY <1>2, <1>4, <1>7, <2>1, <2>2 DEF Cover
  <2>3. CASE by # "SESSION"
    <3>1. phase # "PREVIEWING" /\ prepared' = prepared /\ input' = input
      BY <1>2, <1>7, <2>3 DEF Cover
    <3> QED
      BY <1>3, <2>1, <3>1
  <2> QED
    BY <2>2, <2>3
<1>8. ASSUME NEW by, Uncover(by)
      PROVE  AmountEntered'
  <2>1. phase # "PREVIEWING"
    BY <1>1, <1>8 DEF Uncover, AmountAs, Asks
  <2>2. prepared' = prepared /\ typed' = typed /\ input' = input
    BY <1>2, <1>8 DEF Uncover, Uncovered
  <2> QED
    BY <1>3, <2>1, <2>2
<1>9. ASSUME NEW locale, ChangeDisplayLocale(locale)
      PROVE  AmountEntered'
  <2>1. cover # {} /\ prepared' = prepared /\ typed' = typed /\ input' = input
    BY <1>9 DEF ChangeDisplayLocale
  <2>2. phase # "PREVIEWING"
    BY <1>1, <2>1 DEF AmountAs, Asks
  <2> QED
    BY <1>3, <2>1, <2>2
<1>10. CASE DiscardDraft
  <2>1. FreshInput("AMOUNT", Disclosed) = AmountInput(Disclosed, Disclosed, "EDITING")
    BY DEF FreshInput, AmountInput
  <2>2. FreshInput("AMOUNT", Disclosed).kind = "AMOUNT"
    BY DEF FreshInput
  <2>3. input' = FreshInput("AMOUNT", Disclosed) /\ typed' = Disclosed
    BY <1>2, <1>10, <2>2 DEF DiscardDraft, Uncovered
  <2>4. AmountAs(Disclosed, "EDITING")'
    BY <2>1, <2>3 DEF AmountAs, Asks
  <2> QED
    BY <2>4 DEF AmountEntered, EntryPhases
<1>11. CASE SendForReview
  <2>1. /\ cover = {} /\ cover' = cover /\ typed' = typed
        /\ input' = AmountInput(amount, Disclosed, "PREVIEWING")
        /\ prepared' = Ready(normalizeAmountValues(amount))
    BY <1>2, <1>11 DEF SendForReview, Editable, Shown, Ready
  <2>2. AmountAs(amount, "PREVIEWING")'
    BY <1>2, <2>1 DEF AmountAs, Asks, normalizeAmountValues
  <2> QED
    BY <2>2 DEF AmountEntered, EntryPhases
<1>12. CASE Reviewed
  <2>1. /\ phase = "PREVIEWING" /\ prepared' = prepared /\ typed' = typed
        /\ input' = AmountInput(amount, Disclosed, "REVIEWING")
    BY <1>2, <1>12 DEF Reviewed
  <2>2. prepared = Ready(normalizeAmountValues(amount))
    BY <1>1, <2>1 DEF AmountAs, Asks
  <2>3. AmountAs(amount, "REVIEWING")'
    BY <1>2, <2>1, <2>2 DEF AmountAs, Asks, normalizeAmountValues
  <2> QED
    BY <2>3 DEF AmountEntered, EntryPhases
<1>13. CASE NotReviewed
  BY <1>2, <1>4, <1>13 DEF NotReviewed
<1>14. CASE ReturnToEdit
  <2>1. Uncovered(f) /\ typed' = typed
    BY <1>2, <1>14 DEF ReturnToEdit
  <2>2. f.kind = "AMOUNT"
    BY DEF AmountInput
  <2> QED
    BY <1>4, <2>1, <2>2 DEF Uncovered
<1> QED
  BY <1>5, <1>6, <1>7, <1>8, <1>9, <1>10, <1>11, <1>12, <1>13, <1>14 DEF EntryNext

\* What the invariant says of a value is what a person would say of it.
LEMMA EntriesAreKept ==
  ASSUME AmountsReadOnce, EntryInvariant
  PROVE  TypedEntriesAreKept
<1>1. CASE DateEntered
  <2>1. PICK date \in Dates, baseline \in WholeDates, phase \in EntryPhases : DateAs(date, baseline, phase)
    BY <1>1 DEF DateEntered
  <2>2. /\ typed = date /\ input.kind = "DATE" /\ input.value = ISO(date) /\ input.entry = captured(date)
        /\ input.baseline = baseline /\ input.phase = phase
    BY <2>1, InputFacts DEF DateAs
  <2>3. field.mounted => field.parts = date
    BY <2>1 DEF DateAs, Field, Covered
  <2>4. date # baseline => dirty
    BY <2>2, DateFacts DEF dirty
  <2>5. phase \in {"PREVIEWING", "REVIEWING"} => prepared.ready /\ prepared.value = ISO(date)
    BY <2>1 DEF DateAs, Asks, Ready
  <2> QED
    BY <2>2, <2>3, <2>4, <2>5 DEF TypedEntriesAreKept
<1>2. CASE AmountEntered
  <2>1. PICK amount \in TypedAmounts \cup {Disclosed}, phase \in EntryPhases : AmountAs(amount, phase)
    BY <1>2 DEF AmountEntered
  <2>2. /\ typed = amount /\ input.kind = "AMOUNT" /\ input.value = amount
        /\ input.baseline = Disclosed /\ input.phase = phase
    BY <2>1 DEF AmountAs, AmountInput
  <2>3. {normalizeAmountValues(amount)} = Meant(amount)
    <3>1. CASE amount.locale = Canonical
      BY <3>1 DEF normalizeAmountValues, Meant
    <3>2. CASE amount.locale # Canonical
      <4>1. amount # Disclosed
        BY <3>2 DEF Disclosed
      <4>2. PICK text \in AmountTexts, locale \in DOMAIN Locales : amount = [text |-> text, locale |-> locale]
        BY <4>1 DEF TypedAmounts
      <4>3. normalizeAmountValues(amount) = normalizeAmountEntry(text, locale)
        BY <3>2, <4>2 DEF normalizeAmountValues
      <4> QED
        BY <4>2, <4>3 DEF AmountsReadOnce
    <3> QED
      BY <3>1, <3>2
  <2>4. phase \in {"PREVIEWING", "REVIEWING"} => prepared.ready /\ prepared.value = normalizeAmountValues(amount)
    BY <2>1 DEF AmountAs, Asks, Ready
  <2>5. typed # input.baseline => dirty
    BY <2>2 DEF dirty
  <2> QED
    BY <2>2, <2>3, <2>4, <2>5 DEF TypedEntriesAreKept
<1> QED
  BY <1>1, <1>2 DEF EntryInvariant

(* What a person typed into a date or an amount stays what they typed, through
   settings, reviews, refusals, questions and the loss of the session, and a
   request carries it: for whatever can be typed into a segment, and for all
   amounts that a locale reads as one number or as none
   (operationState.ts, DateEntryDraft.tsx, amountEntry.ts).                  *)
THEOREM TypedEntriesHold ==
  ASSUME AmountsReadOnce
  PROVE  EntrySpec => []TypedEntriesAreKept
<1>1. EntryInit => EntryInvariant
  BY EntryInitHolds
<1>2. EntryInvariant /\ [EntryNext]_entering => EntryInvariant'
  <2>1. ASSUME EntryInvariant, EntryNext
        PROVE  EntryInvariant'
    <3>1. displayLocale' \in DOMAIN Locales
      BY <2>1 DEF EntryInvariant, EntryNext, TypeSegment, PickDate, TypeAmount, Cover, Uncover,
                  ChangeDisplayLocale, DiscardDraft, SendForReview, Reviewed, NotReviewed, ReturnToEdit
    <3> QED
      BY <2>1, <3>1, DateNextHolds, AmountNextHolds DEF EntryInvariant
  <2>2. ASSUME EntryInvariant, UNCHANGED entering
        PROVE  EntryInvariant'
    BY <2>2 DEF EntryInvariant, DateEntered, AmountEntered, DateAs, AmountAs, Asks, entering,
                normalizeAmountValues
  <2> QED
    BY <2>1, <2>2
<1>3. EntryInvariant => TypedEntriesAreKept
  BY EntriesAreKept
<1> QED
  BY <1>1, <1>2, <1>3, PTL DEF EntrySpec

-------------------------------------------------------------------------------
(* The reply a page takes for the answer to its request (ReplyCorrelation): two
   words are compared by what they name, and a receipt or a review is a record of
   the change that was asked for, so each comparison comes down to one of names,
   revisions, acts and effects, kind by kind.                                  *)

\* Two identities are the same when they name the same thing, whatever their case.
LEMMA SameName ==
  ASSUME NEW v, NEW w, IsIdentity(v), IsIdentity(w)
  PROVE  sameIdentity(v, w) <=> v.of = w.of
<1>1. v.as = "ID" /\ w.as = "ID"
  BY DEF IsIdentity, Word
<1> QED
  BY <1>1 DEF sameIdentity, identity, letters, Nothing, Word

\* What the register stores are identities, and nothing is none.
LEMMA StoredNames ==
  /\ \A name : IsIdentity(Stored(name)) /\ Stored(name).of = name
  /\ \A v : ~ sameIdentity(Nothing, v)
  /\ \A v : ~ sameIdentity(v, Nothing)
<1>1. \A name : Stored(name) = [of |-> name, as |-> "ID", spelling |-> "LOWER"]
  BY DEF Stored, Word
<1> QED
  BY <1>1 DEF IsIdentity, Word, sameIdentity

\* A request for a case takes what carries the name it selected.
LEMMA TargetNames ==
  ASSUME NEW r, CaseSelector(r.target), NEW subject, NEW id, NEW name,
         subject.caseId = Stored(id), subject.caseReference = StoredReference(name),
         r.target.by = "ID" => id = name
  PROVE  caseTargetMatches(r, subject) <=> r.target.value.of = name
<1>1. CASE r.target.by = "REFERENCE"
  <2>1. r.target.value.as = "REFERENCE"
    BY <1>1 DEF CaseSelector, IsReference, Word
  <2>2. StoredReference(name).as = "REFERENCE" /\ StoredReference(name).of = name
    BY DEF StoredReference, Word
  <2> QED
    BY <1>1, <2>1, <2>2 DEF caseTargetMatches, reference, letters, Nothing, Word
<1>2. CASE r.target.by = "ID"
  <2>1. IsIdentity(r.target.value) /\ r.target.by # "REFERENCE"
    BY <1>2 DEF CaseSelector
  <2>2. sameIdentity(r.target.value, Stored(id)) <=> r.target.value.of = id
    BY <2>1, SameName, StoredNames
  <2> QED
    BY <1>2, <2>1, <2>2 DEF caseTargetMatches
<1> QED
  BY <1>1, <1>2 DEF CaseSelector

LEMMA CaseReview ==
  ASSUME NEW r, NEW q, CaseInput(r), CaseInput(q), IsIdentity(r.operationId),
         r.operationId.of = q.operationId.of
  PROVE  previewCaseMatches(r, ReviewSubject(q)) <=> SameBasis(r, q) /\ SameEffect(r, q)
<1> DEFINE name == q.target.value.of
           at(n) == [caseId |-> CaseOf(q), caseReference |-> StoredReference(name), revision |-> n]
<1>1. /\ ReviewSubject(q).before = IF q.act.kind = "OPEN" THEN NoCase ELSE at(q.expectedRevision)
      /\ ReviewSubject(q).after = at(q.expectedRevision + 1)
  <2>1. ReviewSubject(q) =
          [kind |-> "CASE", before |-> IF q.act.kind = "OPEN" THEN NoCase ELSE at(q.expectedRevision),
           after |-> at(q.expectedRevision + 1)]
    BY DEF ReviewSubject, CaseInput
  <2> HIDE DEF at, name
  <2> QED
    BY <2>1
<1>2. /\ r.expectedRevision \in Nat /\ q.expectedRevision \in Nat
      /\ CaseSelector(r.target)
      /\ r.act.kind = "OPEN" => r.target.by = "REFERENCE" /\ r.expectedRevision = 0
      /\ q.act.kind = "OPEN" => q.expectedRevision = 0
  BY DEF CaseInput
<1>3. Created(r) <=> r.act.kind = "OPEN"
  BY DEF Created, Registering, CaseInput, CaseActs
<1>4. Created(q) <=> q.act.kind = "OPEN"
  BY DEF Created, Registering, CaseInput, CaseActs
<1>5. SameEffect(r, q) <=> (r.act.kind = "OPEN" <=> q.act.kind = "OPEN")
  BY <1>3, <1>4 DEF SameEffect, CaseInput
<1>6. SameBasis(r, q) <=> r.target.value.of = name /\ r.expectedRevision = q.expectedRevision
  BY DEF SameBasis, CaseInput
<1>7. nextRevision(r.expectedRevision, q.expectedRevision + 1) <=> r.expectedRevision = q.expectedRevision
  BY <1>2 DEF nextRevision, positiveRevision
<1>8. CASE r.act.kind = "OPEN"
  <2>1. caseTargetMatches(r, at(q.expectedRevision + 1)) <=> r.target.value.of = name
    <3>1. /\ at(q.expectedRevision + 1).caseId = CaseOf(q)
          /\ at(q.expectedRevision + 1).caseReference = StoredReference(name)
      OBVIOUS
    <3>2. \E id : CaseOf(q) = Stored(id)
      BY DEF CaseOf
    <3>3. r.target.by = "REFERENCE" /\ r.target.by # "ID"
      BY <1>2, <1>8
    <3> HIDE DEF at, name
    <3> QED
      BY <1>2, <3>1, <3>2, <3>3, TargetNames
  <2>2. at(q.expectedRevision) # NoCase
    BY DEF NoCase, Nothing, Word, StoredReference
  <2>3. q.act.kind = "OPEN" => sameIdentity(r.operationId, at(q.expectedRevision + 1).caseId)
    BY SameName, StoredNames DEF CaseOf
  <2> QED
    BY <1>1, <1>2, <1>5, <1>6, <1>7, <1>8, <2>1, <2>2, <2>3 DEF previewCaseMatches
<1>9. CASE r.act.kind # "OPEN" /\ q.act.kind = "OPEN"
  <2>1. ~ caseTargetMatches(r, NoCase)
    BY StoredNames DEF caseTargetMatches, NoCase
  <2> QED
    BY <1>1, <1>5, <1>9, <2>1 DEF previewCaseMatches
<1>10. CASE r.act.kind # "OPEN" /\ q.act.kind # "OPEN"
  <2>1. CaseOf(q) = Stored(name)
    BY <1>10 DEF CaseOf
  <2>2. ASSUME NEW n PROVE caseTargetMatches(r, at(n)) <=> r.target.value.of = name
    <3>1. at(n).caseId = Stored(name) /\ at(n).caseReference = StoredReference(name)
      BY <2>1
    <3> HIDE DEF at, name
    <3> QED
      BY <1>2, <3>1, TargetNames
  <2>3. sameIdentity(Stored(name), Stored(name))
    BY SameName, StoredNames
  <2> QED
    BY <1>1, <1>2, <1>5, <1>6, <1>7, <1>10, <2>1, <2>2, <2>3 DEF previewCaseMatches
<1> QED
  BY <1>8, <1>9, <1>10

LEMMA WorkReview ==
  ASSUME NEW r, NEW q, WorkInput(r), WorkInput(q)
  PROVE  previewWorkMatches(r, ReviewSubject(q)) <=> SameBasis(r, q) /\ SameEffect(r, q)
<1> DEFINE name == q.target.value.of
           parent == [caseId |-> Stored(name), caseReference |-> StoredReference(name)]
           at(n) == [caseId |-> Stored(name), caseReference |-> StoredReference(name), revision |-> n]
<1>1. CaseOf(q) = Stored(name)
  BY DEF CaseOf, WorkInput
<1>2. ReviewSubject(q) =
        [kind |-> "WORK", caseReference |-> StoredReference(name), parent |-> parent,
         before |-> at(q.expectedRevision), proposed |-> at(q.expectedRevision + 1)]
  BY <1>1 DEF ReviewSubject, WorkInput
<1>3. r.expectedRevision \in Nat /\ q.expectedRevision \in Nat /\ CaseSelector(r.target)
  BY DEF WorkInput
<1>4. SameBasis(r, q) <=> r.target.value.of = name /\ r.expectedRevision = q.expectedRevision
  BY DEF SameBasis, WorkInput
<1>5. SameEffect(r, q)
  BY DEF SameEffect, WorkInput, Created, Registering
<1>6. nextRevision(q.expectedRevision, q.expectedRevision + 1)
  BY <1>3 DEF nextRevision, positiveRevision
<1>7. sameIdentity(Stored(name), Stored(name))
  BY SameName, StoredNames
<1>8. caseTargetMatches(r, parent) <=> r.target.value.of = name
  <2>1. parent.caseId = Stored(name) /\ parent.caseReference = StoredReference(name)
    OBVIOUS
  <2> HIDE DEF parent, name
  <2> QED
    BY <1>3, <2>1, TargetNames
<1> QED
  BY <1>2, <1>4, <1>5, <1>6, <1>7, <1>8 DEF previewWorkMatches, previewParentMatches

\* The reminder an act creates, and the one it leaves behind.
LEMMA ReminderMoves ==
  ASSUME NEW q, ReminderInput(q)
  PROVE  /\ CaseOf(q) = Stored(q.target.value.of)
         /\ NewReminder(q) = [reminderId |-> Stored(q.operationId.of), caseId |-> Stored(q.target.value.of),
                              revision |-> 1, state |-> "PENDING"]
         /\ q.act.kind # "CREATE" =>
              /\ ReminderBefore(q) =
                   [reminderId |-> Stored(q.act.reminderId.of), caseId |-> Stored(q.target.value.of),
                    revision |-> q.act.expectedRevision, state |-> NoState]
              /\ ReminderAfter(q) =
                   [reminderId |-> Stored(q.act.reminderId.of), caseId |-> Stored(q.target.value.of),
                    revision |-> q.act.expectedRevision + 1, state |-> reminderStateAfter(q.act.kind)]
         /\ q.act.kind = "CREATE" => ReminderAfter(q) = NewReminder(q)
<1> DEFINE name == q.target.value.of
           op == q.operationId.of
           fresh == q.act.kind = "CREATE"
<1>1. CaseOf(q) = Stored(name)
  BY DEF CaseOf, ReminderInput, ReminderActs
<1>8. NewReminder(q) = [reminderId |-> Stored(op), caseId |-> Stored(name), revision |-> 1, state |-> "PENDING"]
  BY <1>1 DEF NewReminder
<1>9. ~fresh => ReminderBefore(q) = [reminderId |-> Stored(q.act.reminderId.of), caseId |-> Stored(name),
                                     revision |-> q.act.expectedRevision, state |-> NoState]
  BY <1>1 DEF ReminderBefore
<1>10. ReminderAfter(q) =
         IF fresh THEN NewReminder(q)
         ELSE [reminderId |-> Stored(q.act.reminderId.of), caseId |-> Stored(name),
               revision |-> q.act.expectedRevision + 1, state |-> reminderStateAfter(q.act.kind)]
  <2>1. CASE fresh
    BY <2>1 DEF ReminderAfter
  <2>2. CASE ~fresh
    <3> DEFINE id == Stored(q.act.reminderId.of)
               parentId == Stored(name)
               revised == q.act.expectedRevision + 1
               settled == reminderStateAfter(q.act.kind)
               was == q.act.expectedRevision
               old == [reminderId |-> id, caseId |-> parentId, revision |-> was, state |-> NoState]
               half == [reminderId |-> id, caseId |-> parentId, revision |-> revised, state |-> NoState]
    <3>1. ReminderAfter(q) = [[old EXCEPT !.revision = revised] EXCEPT !.state = settled]
      <4>1. ReminderBefore(q) = old
        BY <1>9, <2>2, Zenon
      <4>2. old.revision + 1 = revised
        OBVIOUS
      <4>3. ReminderAfter(q) = [[ReminderBefore(q) EXCEPT !.revision = ReminderBefore(q).revision + 1] EXCEPT !.state = settled]
        BY <2>2, Zenon DEF ReminderAfter
      <4> HIDE DEF old, revised, settled
      <4> QED
        BY <4>1, <4>2, <4>3, Zenon
    <3>2. [old EXCEPT !.revision = revised] = half
      <4> HIDE DEF id, parentId, revised, was
      <4> QED
        OBVIOUS
    <3>3. [half EXCEPT !.state = settled] = [reminderId |-> id, caseId |-> parentId, revision |-> revised, state |-> settled]
      <4> HIDE DEF id, parentId, revised, settled
      <4> QED
        OBVIOUS
    <3>4. ReminderAfter(q) = [reminderId |-> id, caseId |-> parentId, revision |-> revised, state |-> settled]
      BY <3>1, <3>2, <3>3, Zenon
    <3> QED
      BY <2>2, <3>4
  <2> QED
    BY <2>1, <2>2
<1> QED
  BY <1>1, <1>8, <1>9, <1>10

LEMMA ReminderReview ==
  ASSUME NEW r, NEW q, ReminderInput(r), ReminderInput(q),
         IsIdentity(r.operationId), IsIdentity(q.operationId), r.operationId.of = q.operationId.of
  PROVE  previewReminderMatches(r, ReviewSubject(q)) <=> SameBasis(r, q) /\ SameEffect(r, q)
<1> DEFINE name == q.target.value.of
           op == q.operationId.of
           parent == [caseId |-> Stored(name), caseReference |-> StoredReference(name)]
           fresh == q.act.kind = "CREATE"
           planned == q.act.kind = "COMPLETE_AND_PLAN_NEXT"
           before == IF fresh THEN NoReminder ELSE ReminderBefore(q)
           effects == [kind |-> IF fresh THEN "CREATED"
                                ELSE IF planned THEN "COMPLETED_AND_PLANNED" ELSE "CHANGED",
                       changed |-> ReminderAfter(q), next |-> NewReminder(q)]
<1>1. CaseOf(q) = Stored(name)
  BY ReminderMoves
<1>2. ReviewSubject(q) =
        [kind |-> "REMINDER", caseId |-> Stored(name), caseReference |-> StoredReference(name),
         parent |-> parent, before |-> before, effects |-> effects]
  BY <1>1 DEF ReviewSubject, ReminderInput, Planned
<1>3. /\ CaseSelector(r.target)
      /\ r.act.kind \in ReminderActs /\ q.act.kind \in ReminderActs
      /\ r.kind = "REMINDER" /\ q.kind = "REMINDER"
      /\ r.act.kind # "CREATE" =>
           IsIdentity(r.act.reminderId) /\ r.act.expectedRevision \in Nat
      /\ ~fresh =>
           /\ IsIdentity(q.act.reminderId) /\ q.act.expectedRevision \in Nat
           /\ q.act.reminderId.of # op
  BY DEF ReminderInput
<1>4. sameIdentity(Stored(name), Stored(name))
  BY SameName, StoredNames
<1>5. caseTargetMatches(r, parent) <=> r.target.value.of = name
  <2>1. parent.caseId = Stored(name) /\ parent.caseReference = StoredReference(name)
    OBVIOUS
  <2> HIDE DEF parent, name
  <2> QED
    BY <1>3, <2>1, TargetNames
<1>6. caseTargetMatches(r, ReviewSubject(q)) <=> r.target.value.of = name
  <2>1. ReviewSubject(q).caseId = Stored(name) /\ ReviewSubject(q).caseReference = StoredReference(name)
    BY <1>2
  <2> HIDE DEF name
  <2> QED
    BY <1>3, <2>1, TargetNames
<1>7. previewParentMatches(r, ReviewSubject(q), ReviewSubject(q).caseId) <=> r.target.value.of = name
  BY <1>2, <1>4, <1>5 DEF previewParentMatches
<1>8. NewReminder(q) = [reminderId |-> Stored(op), caseId |-> Stored(name), revision |-> 1, state |-> "PENDING"]
  BY ReminderMoves
<1>9. ~fresh => ReminderBefore(q) = [reminderId |-> Stored(q.act.reminderId.of), caseId |-> Stored(name),
                                     revision |-> q.act.expectedRevision, state |-> NoState]
  BY ReminderMoves
<1>10. ReminderAfter(q) =
         IF fresh THEN NewReminder(q)
         ELSE [reminderId |-> Stored(q.act.reminderId.of), caseId |-> Stored(name),
               revision |-> q.act.expectedRevision + 1, state |-> reminderStateAfter(q.act.kind)]
  BY ReminderMoves
<1>11. SameBasis(r, q) <=>
         /\ r.target.value.of = name
         /\ r.act.kind # "CREATE" => /\ r.act.reminderId.of = q.act.reminderId.of
                                     /\ r.act.expectedRevision = q.act.expectedRevision
  BY <1>3 DEF SameBasis
<1>12. SameEffect(r, q) <=>
         /\ r.act.kind = "CREATE" <=> fresh
         /\ r.act.kind = "COMPLETE_AND_PLAN_NEXT" <=> planned
         /\ reminderStateAfter(r.act.kind) = reminderStateAfter(q.act.kind)
  BY <1>3 DEF SameEffect, Created, Registering, Planned, ReminderActs
<1>13. sameIdentity(Stored(op), r.operationId)
  BY SameName, StoredNames
<1> DEFINE subject == ReviewSubject(q)
           after == ReminderAfter(q)
<1>14. /\ subject.before = before /\ subject.effects = effects /\ subject.caseId = Stored(name)
       /\ subject.effects.changed = after /\ effects.next = NewReminder(q)
  BY <1>2
<1>15. CASE r.act.kind = "CREATE"
  <2>1. effects.kind = "CREATED" <=> fresh
    OBVIOUS
  <2>2. fresh => createdReminderMatches(r, subject, effects, after)
    BY <1>4, <1>8, <1>10, <1>13, <1>14, <2>1 DEF createdReminderMatches
  <2>3. createdReminderMatches(r, subject, effects, after) => fresh
    BY <2>1 DEF createdReminderMatches
  <2>4. previewReminderMatches(r, subject) <=>
          r.target.value.of = name /\ createdReminderMatches(r, subject, effects, after)
    BY <1>6, <1>7, <1>14, <1>15 DEF previewReminderMatches
  <2>5. fresh => ~planned /\ r.act.kind = q.act.kind
    BY <1>15
  <2> QED
    BY <1>11, <1>12, <1>15, <2>2, <2>3, <2>4, <2>5
<1>16. CASE r.act.kind # "CREATE" /\ fresh
  <2>1. ~ changedReminderMatches(r.act, subject, subject.before, after)
    BY <1>14, <1>16, StoredNames DEF changedReminderMatches, NoReminder
  <2> QED
    BY <1>12, <1>14, <1>16, <2>1 DEF previewReminderMatches
<1>17. CASE r.act.kind # "CREATE" /\ ~fresh
  <2>1. sameIdentity(Stored(q.act.reminderId.of), r.act.reminderId) <=> r.act.reminderId.of = q.act.reminderId.of
    BY <1>3, <1>17, SameName, StoredNames
  <2>2. nextRevision(q.act.expectedRevision, q.act.expectedRevision + 1)
    BY <1>3, <1>17 DEF nextRevision, positiveRevision
  <2>3. /\ after.reminderId = Stored(q.act.reminderId.of) /\ after.caseId = Stored(name)
        /\ after.revision = q.act.expectedRevision + 1 /\ after.state = reminderStateAfter(q.act.kind)
    BY <1>10, <1>17
  <2>4. /\ subject.before.reminderId = Stored(q.act.reminderId.of)
        /\ subject.before.revision = q.act.expectedRevision
    BY <1>9, <1>14, <1>17
  <2>5. changedReminderMatches(r.act, subject, subject.before, after) <=>
          /\ r.act.reminderId.of = q.act.reminderId.of
          /\ r.act.expectedRevision = q.act.expectedRevision
          /\ reminderStateAfter(r.act.kind) = reminderStateAfter(q.act.kind)
    BY <1>4, <1>14, <2>1, <2>2, <2>3, <2>4 DEF changedReminderMatches
  <2>6. effects.kind = IF planned THEN "COMPLETED_AND_PLANNED" ELSE "CHANGED"
    BY <1>17
  <2>7. previewCompoundMatches(r, subject, effects, after) <=> planned
    <3>1. ~ sameIdentity(Stored(op), Stored(q.act.reminderId.of))
      BY <1>3, <1>17, SameName, StoredNames
    <3> QED
      BY <1>4, <1>8, <1>13, <1>14, <2>3, <2>6, <3>1 DEF previewCompoundMatches
  <2>8. previewReminderMatches(r, subject) <=>
          /\ r.target.value.of = name
          /\ changedReminderMatches(r.act, subject, subject.before, after)
          /\ IF r.act.kind = "COMPLETE_AND_PLAN_NEXT"
             THEN previewCompoundMatches(r, subject, effects, after) ELSE effects.kind = "CHANGED"
    BY <1>6, <1>7, <1>14, <1>17 DEF previewReminderMatches
  <2> HIDE DEF after, effects, name
  <2> QED
    BY <1>11, <1>12, <1>17, <2>5, <2>6, <2>7, <2>8
<1> QED
  BY <1>15, <1>16, <1>17

\* The effects of an authority act: how many, and which is the first.
LEMMA EffectKinds ==
  ASSUME NEW act, act.kind \in AuthorityActs, act.kind = "ADMIT" => act.grants \in Nat \ {0}
  PROVE  /\ authorityEffectKinds(act) \in Seq(AuthorityActs)
         /\ Len(authorityEffectKinds(act)) =
              IF act.kind = "REGISTER" THEN 2 ELSE IF act.kind = "ADMIT" THEN 2 + act.grants ELSE 1
         /\ authorityEffectKinds(act)[1] = IF act.kind = "ADMIT" THEN "REGISTER" ELSE act.kind
<1> DEFINE first == <<"REGISTER", "SET_PROFILE">>
<1>0. first \in Seq(AuthorityActs) /\ Len(first) = 2 /\ first[1] = "REGISTER"
  <2>1. "REGISTER" \in AuthorityActs /\ "SET_PROFILE" \in AuthorityActs
    BY DEF AuthorityActs
  <2> QED
    BY <2>1
<1>1. CASE act.kind = "REGISTER"
  <2>1. authorityEffectKinds(act) = first
    BY <1>1 DEF authorityEffectKinds
  <2> HIDE DEF first
  <2> QED
    BY <1>0, <1>1, <2>1
<1>2. CASE act.kind = "ADMIT"
  <2> DEFINE grants == act.grants
             rest == [i \in 1..grants |-> "GRANT"]
  <2>2. grants \in Nat /\ grants > 0
    BY <1>2
  <2>3. rest \in Seq(AuthorityActs) /\ Len(rest) = grants
    <3>1. "GRANT" \in AuthorityActs
      BY DEF AuthorityActs
    <3> HIDE DEF grants
    <3> QED
      BY <2>2, <3>1
  <2>4. authorityEffectKinds(act) = first \o rest
    BY <1>2 DEF authorityEffectKinds
  <2> HIDE DEF first, rest, grants
  <2>5. /\ first \o rest \in Seq(AuthorityActs) /\ Len(first \o rest) = 2 + grants
        /\ (first \o rest)[1] = first[1]
    <3>1. /\ first \o rest \in Seq(AuthorityActs) /\ Len(first \o rest) = Len(first) + Len(rest)
          /\ \A i \in 1 .. Len(first) + Len(rest) :
               (first \o rest)[i] = IF i <= Len(first) THEN first[i] ELSE rest[i - Len(first)]
      BY <1>0, <2>3, ConcatProperties
    <3>2. 1 \in 1 .. Len(first) + Len(rest)
      BY <1>0, <2>2, <2>3
    <3>3. (first \o rest)[1] = first[1]
      BY <1>0, <3>1, <3>2
    <3> QED
      BY <1>0, <2>3, <3>1, <3>3
  <2> QED
    BY <1>0, <1>2, <2>4, <2>5 DEF grants
<1>3. CASE act.kind # "REGISTER" /\ act.kind # "ADMIT"
  <2>1. authorityEffectKinds(act) = <<act.kind>>
    BY <1>3 DEF authorityEffectKinds
  <2> QED
    BY <1>3, <2>1
<1> QED
  BY <1>1, <1>2, <1>3

LEMMA AuthorityReview ==
  ASSUME NEW r, NEW q, AuthorityInput(r), AuthorityInput(q)
  PROVE  previewAuthorityMatches(r, ReviewSubject(q)) <=> SameBasis(r, q) /\ SameEffect(r, q)
<1> DEFINE sought == authorityEffectKinds(r.act)
           made == authorityEffectKinds(q.act)
           effects == [i \in DOMAIN made |-> [kind |-> made[i], principal |-> q.principal]]
<1>1. /\ r.kind = "AUTHORITY" /\ q.kind = "AUTHORITY"
      /\ r.act.kind \in AuthorityActs /\ q.act.kind \in AuthorityActs
      /\ r.principal # NoPrincipal /\ q.principal # NoPrincipal
      /\ r.act.kind = "ADMIT" => r.act.grants \in Nat \ {0}
      /\ q.act.kind = "ADMIT" => q.act.grants \in Nat \ {0}
  BY DEF AuthorityInput
<1>2. ReviewSubject(q) =
        [kind |-> "AUTHORITY",
         target |-> IF q.act.kind \in Registering THEN NoPrincipal ELSE q.principal,
         effects |-> effects]
  BY <1>1 DEF ReviewSubject
<1>3. /\ ReviewSubject(q).effects = effects
      /\ ReviewSubject(q).target = IF q.act.kind \in Registering THEN NoPrincipal ELSE q.principal
  <2> HIDE DEF effects
  <2> QED
    BY <1>2
<1>4. /\ sought \in Seq(AuthorityActs) /\ made \in Seq(AuthorityActs)
      /\ Len(sought) = IF r.act.kind = "REGISTER" THEN 2 ELSE IF r.act.kind = "ADMIT" THEN 2 + r.act.grants ELSE 1
      /\ sought[1] = IF r.act.kind = "ADMIT" THEN "REGISTER" ELSE r.act.kind
      /\ Len(made) = IF q.act.kind = "REGISTER" THEN 2 ELSE IF q.act.kind = "ADMIT" THEN 2 + q.act.grants ELSE 1
      /\ made[1] = IF q.act.kind = "ADMIT" THEN "REGISTER" ELSE q.act.kind
  BY <1>1, EffectKinds
<1>5. [i \in DOMAIN effects |-> effects[i].kind] = made
  <2>1. DOMAIN effects = DOMAIN made
    OBVIOUS
  <2>2. \A i \in DOMAIN effects : effects[i].kind = made[i]
    OBVIOUS
  <2>3. made = [i \in DOMAIN made |-> made[i]]
    <3> HIDE DEF made
    <3> QED
      BY <1>4
  <2> HIDE DEF effects, made
  <2> QED
    BY <2>1, <2>2, <2>3
<1>6. made = sought <=> r.act.kind = q.act.kind /\ (r.act.kind = "ADMIT" => r.act.grants = q.act.grants)
  <2>1. ASSUME made = sought PROVE r.act.kind = q.act.kind /\ (r.act.kind = "ADMIT" => r.act.grants = q.act.grants)
    <3>1. Len(made) = Len(sought) /\ made[1] = sought[1]
      BY <2>1
    <3> DEFINE m == Len(made)
               n == Len(sought)
               f == made[1]
               g == sought[1]
    <3>2. m = n /\ f = g
      BY <3>1
    <3>3. /\ n = IF r.act.kind = "REGISTER" THEN 2 ELSE IF r.act.kind = "ADMIT" THEN 2 + r.act.grants ELSE 1
          /\ g = IF r.act.kind = "ADMIT" THEN "REGISTER" ELSE r.act.kind
          /\ m = IF q.act.kind = "REGISTER" THEN 2 ELSE IF q.act.kind = "ADMIT" THEN 2 + q.act.grants ELSE 1
          /\ f = IF q.act.kind = "ADMIT" THEN "REGISTER" ELSE q.act.kind
      BY <1>4
    <3> HIDE DEF m, n, f, g
    <3>4. CASE r.act.kind = "ADMIT"
      <4>1. r.act.grants \in Nat \ {0}
        BY <1>1, <3>4
      <4>2. n = 2 + r.act.grants
        BY <3>3, <3>4
      <4>3. q.act.kind = "ADMIT"
        BY <3>2, <3>3, <4>1, <4>2
      <4>4. q.act.grants \in Nat
        BY <1>1, <4>3
      <4> QED
        BY <3>2, <3>3, <3>4, <4>1, <4>2, <4>3, <4>4
    <3>5. CASE r.act.kind # "ADMIT"
      <4>1. n \in {1, 2} /\ g = r.act.kind /\ (r.act.kind = "REGISTER" <=> n = 2)
        BY <3>3, <3>5
      <4>2. ASSUME q.act.kind = "ADMIT" PROVE FALSE
        <5>1. q.act.grants \in Nat \ {0}
          BY <1>1, <4>2
        <5>2. m = 2 + q.act.grants
          BY <3>3, <4>2
        <5> QED
          BY <3>2, <4>1, <5>1, <5>2
      <4> QED
        BY <3>2, <3>3, <3>5, <4>1, <4>2
    <3> QED
      BY <3>4, <3>5
  <2>2. ASSUME r.act.kind = q.act.kind, r.act.kind = "ADMIT" => r.act.grants = q.act.grants
        PROVE  made = sought
    BY <2>2 DEF authorityEffectKinds
  <2> QED
    BY <2>1, <2>2
<1>7. q.act.kind \in Registering <=> q.act.kind \in {"REGISTER", "ADMIT"}
  BY <1>1 DEF Registering, AuthorityActs
<1>8. effects[1].principal = q.principal
  <2>1. 1 \in DOMAIN made
    <3>1. Len(made) \in Nat /\ Len(made) > 0
      BY <1>1, <1>4
    <3>2. DOMAIN made = 1..Len(made)
      BY <1>4
    <3> QED
      BY <3>1, <3>2
  <2> HIDE DEF made
  <2> QED
    BY <2>1
<1>9. previewAuthorityMatches(r, ReviewSubject(q)) <=>
        /\ made = sought
        /\ IF r.act.kind \in {"REGISTER", "ADMIT"}
           THEN ReviewSubject(q).target = NoPrincipal /\ r.principal = effects[1].principal
           ELSE r.principal = ReviewSubject(q).target
  <2> HIDE DEF effects
  <2> QED
    BY <1>3, <1>5 DEF previewAuthorityMatches, samePrincipal
<1>10. SameBasis(r, q)
  BY <1>1 DEF SameBasis
<1>11. SameEffect(r, q) <=>
         /\ r.act.kind = q.act.kind /\ r.principal = q.principal
         /\ r.act.kind = "ADMIT" => r.act.grants = q.act.grants
  BY <1>1 DEF SameEffect, Created
<1> HIDE DEF made, sought, effects
<1> QED
  BY <1>1, <1>3, <1>6, <1>7, <1>8, <1>9, <1>10, <1>11


Written(q, disclosed) ==
  [operationId |-> Stored(q.operationId.of), subject |-> ReceiptSubject(q, disclosed)]

\* Every receipt the register writes is coherent in itself.
LEMMA ReceiptsAreCoherent ==
  ASSUME NEW q, OperationInput(q), NEW disclosed \in BOOLEAN
  PROVE  coherentReceipt(Written(q, disclosed))
<1> DEFINE receipt == Written(q, disclosed)
           subject == ReceiptSubject(q, disclosed)
           op == Stored(q.operationId.of)
<1>1. receipt.subject = subject /\ receipt.operationId = op
  BY DEF Written
<1>2. sameIdentity(op, op)
  BY SameName, StoredNames
<1>3. CASE CaseInput(q)
  <2>1. /\ subject.kind = "CASE" /\ subject.act = q.act.kind
        /\ q.act.kind = "OPEN" => subject.caseId = op
    BY <1>3 DEF ReceiptSubject, Named, CaseOf, CaseInput
  <2> HIDE DEF subject, op
  <2> QED
    BY <1>1, <1>2, <2>1 DEF coherentReceipt, creationReceiptMatches
<1>4. CASE WorkInput(q)
  <2> DEFINE view == [caseId |-> CaseOf(q), revision |-> q.expectedRevision + 1]
  <2>1. subject = [kind |-> "WORK", act |-> q.act.kind, caseId |-> CaseOf(q),
                   caseReference |-> StoredReference(q.target.value.of), revision |-> q.expectedRevision + 1,
                   snapshot |-> Snapshot(disclosed, view)]
    BY <1>4 DEF ReceiptSubject, WorkInput
  <2>2. q.expectedRevision \in Nat /\ CaseOf(q) = Stored(q.target.value.of)
    BY <1>4 DEF WorkInput, CaseOf
  <2>3. sameIdentity(CaseOf(q), CaseOf(q))
    BY <2>2, SameName, StoredNames
  <2>4. coherentWorkReceipt(subject)
    BY <2>1, <2>2, <2>3 DEF coherentWorkReceipt, positiveRevision, Snapshot, Undisclosed
  <2>5. subject.kind = "WORK"
    BY <2>1
  <2> HIDE DEF subject, op
  <2> QED
    BY <1>1, <2>4, <2>5 DEF coherentReceipt, creationReceiptMatches
<1>5. CASE AuthorityInput(q)
  <2>1. /\ subject.kind = "AUTHORITY" /\ subject.act = q.act.kind
        /\ subject.targetActor.kind \in {"DISCLOSED", "WITHHELD"}
        /\ q.act.kind \in Registering => subject.targetActor.actorId = op
    BY <1>5 DEF ReceiptSubject, AuthorityInput, Created
  <2> HIDE DEF subject, op
  <2> QED
    BY <1>1, <1>2, <2>1 DEF coherentReceipt, creationReceiptMatches
<1>6. CASE ReminderInput(q)
  <2> DEFINE changed == Version(disclosed, ReminderAfter(q))
             next == Version(disclosed, NewReminder(q))
             effects == [kind |-> IF Planned(q) THEN "COMPLETED_AND_PLANNED" ELSE "SINGLE",
                         changed |-> changed, next |-> next]
             parent == Stored(q.target.value.of)
  <2>1. subject = [kind |-> "REMINDER", act |-> q.act.kind, caseId |-> parent,
                   caseReference |-> StoredReference(q.target.value.of), effects |-> effects]
    BY <1>6, ReminderMoves DEF ReceiptSubject, ReminderInput
  <2>2. /\ subject.kind = "REMINDER" /\ subject.act = q.act.kind /\ subject.caseId = parent
        /\ subject.effects = effects /\ effects.changed = changed /\ effects.next = next
        /\ effects.kind = IF Planned(q) THEN "COMPLETED_AND_PLANNED" ELSE "SINGLE"
    BY <2>1
  <2>3. ASSUME NEW id, NEW n, NEW settled, NEW wanted \in {NoState, settled}
        PROVE  snapshotMatches(Version(disclosed, [reminderId |-> Stored(id), caseId |-> parent,
                                                   revision |-> n, state |-> settled]), parent, wanted)
    <3>1. sameIdentity(Stored(id), Stored(id)) /\ sameIdentity(parent, parent)
      BY SameName, StoredNames
    <3> DEFINE reminder == [reminderId |-> Stored(id), caseId |-> parent, revision |-> n, state |-> settled]
    <3>2. /\ reminder.reminderId = Stored(id) /\ reminder.caseId = parent
          /\ reminder.revision = n /\ reminder.state = settled
      OBVIOUS
    <3> HIDE DEF reminder
    <3>3. Version(disclosed, reminder) =
            [reminderId |-> reminder.reminderId, revision |-> reminder.revision,
             snapshot |-> [kind |-> IF disclosed THEN "DISCLOSED" ELSE "WITHHELD", view |-> reminder]]
      BY DEF Version, Snapshot
    <3> QED
      BY <2>3, <3>1, <3>2, <3>3 DEF snapshotMatches, Undisclosed, reminder
  <2>4. /\ changed.reminderId = ReminderAfter(q).reminderId /\ changed.revision = ReminderAfter(q).revision
        /\ next.reminderId = NewReminder(q).reminderId /\ next.revision = NewReminder(q).revision
    BY DEF Version
  <2>5. next.reminderId = op /\ next.revision = 1
    BY <1>6, <2>4, ReminderMoves
  <2>6. snapshotMatches(next, parent, "PENDING")
    BY <1>6, <2>3, ReminderMoves
  <2>7. CASE q.act.kind = "CREATE"
    <3>1. changed = next /\ ~Planned(q)
      BY <1>6, <2>7, ReminderMoves DEF Planned
    <3>2. reminderStateAfter("CREATE") = "PENDING"
      BY DEF reminderStateAfter
    <3> HIDE DEF subject, op, changed, next, effects, parent
    <3>3. coherentSingle(receipt, subject, effects)
      BY <1>1, <1>2, <2>2, <2>5, <2>6, <2>7, <3>1, <3>2 DEF coherentSingle, positiveRevision
    <3> QED
      BY <1>1, <2>2, <3>1, <3>3 DEF coherentReceipt, creationReceiptMatches
  <2>8. CASE q.act.kind # "CREATE"
    <3> DEFINE n == q.act.expectedRevision + 1
               settled == reminderStateAfter(q.act.kind)
    <3>1. /\ changed.reminderId = Stored(q.act.reminderId.of) /\ changed.revision = n
          /\ n > 0
      <4>1. q.act.expectedRevision \in Nat
        BY <1>6, <2>8 DEF ReminderInput
      <4> QED
        BY <1>6, <2>4, <2>8, <4>1, ReminderMoves
    <3>2. snapshotMatches(changed, parent, settled)
      BY <1>6, <2>3, <2>8, ReminderMoves
    <3>3. ~ sameIdentity(changed.reminderId, next.reminderId)
      <4>1. q.act.reminderId.of # q.operationId.of
        BY <1>6, <2>8 DEF ReminderInput
      <4>2. ~ sameIdentity(Stored(q.act.reminderId.of), op)
        BY <4>1, SameName, StoredNames
      <4> HIDE DEF op, changed, next
      <4> QED
        BY <2>5, <3>1, <4>2
    <3>4. Planned(q) <=> q.act.kind = "COMPLETE_AND_PLAN_NEXT"
      BY DEF Planned
    <3>5. q.act.kind = "COMPLETE_AND_PLAN_NEXT" => settled = "COMPLETED"
      BY DEF reminderStateAfter
    <3> HIDE DEF subject, op, changed, next, effects, parent, n
    <3>6. Planned(q) => coherentCompound(receipt, subject, effects)
      BY <1>1, <1>2, <2>2, <2>5, <2>6, <3>1, <3>2, <3>3, <3>4, <3>5 DEF coherentCompound, positiveRevision
    <3>7. ~Planned(q) => coherentSingle(receipt, subject, effects)
      BY <1>1, <2>2, <2>8, <3>1, <3>2, <3>4 DEF coherentSingle, positiveRevision
    <3> QED
      BY <1>1, <2>2, <3>6, <3>7 DEF coherentReceipt, creationReceiptMatches
  <2> QED
    BY <2>7, <2>8
<1> QED
  BY <1>3, <1>4, <1>5, <1>6 DEF OperationInput

\* A review is taken by what asked for the same change of the same thing.
LEMMA ReviewsBind ==
  ASSUME NEW r, NEW q, OperationInput(r), OperationInput(q)
  PROVE  replyCorrelates("operation.preview", r, Review(q)) <=>
           SameOperation(r, q) /\ SameBasis(r, q) /\ SameEffect(r, q)
<1> DEFINE op == Stored(q.operationId.of)
           subject == ReviewSubject(q)
           kinds == {"AUTHORITY", "CASE", "WORK", "REMINDER"}
<1>1. Review(q) = [operationId |-> op, outcome |-> [kind |-> "REVIEWED", data |-> subject]]
  BY DEF Review, Envelope
<1>2. r.kind \in kinds /\ q.kind \in kinds
  BY DEF OperationInput, CaseInput, WorkInput, ReminderInput, AuthorityInput
<1>3. IsIdentity(r.operationId) /\ IsIdentity(q.operationId)
  BY DEF OperationInput
<1>4. sameIdentity(r.operationId, op) <=> r.operationId.of = q.operationId.of
  BY <1>3, SameName, StoredNames
<1>5. subject.kind = q.kind
  <2>1. CASE q.kind = "CASE"
    BY <2>1 DEF ReviewSubject
  <2>2. CASE q.kind = "WORK"
    BY <2>2 DEF ReviewSubject
  <2>3. CASE q.kind = "REMINDER"
    BY <2>3 DEF ReviewSubject
  <2>4. CASE q.kind = "AUTHORITY"
    BY <2>4 DEF ReviewSubject
  <2> QED
    BY <1>2, <2>1, <2>2, <2>3, <2>4
<1>6. replyCorrelates("operation.preview", r, Review(q)) <=>
        /\ r.operationId.of = q.operationId.of
        /\ previewTargetMatches("operation.preview", r, [kind |-> "REVIEWED", data |-> subject])
  <2> DEFINE outcome == [kind |-> "REVIEWED", data |-> subject]
  <2>1. Review(q).operationId = op /\ Review(q).outcome = outcome
    BY <1>1
  <2>2. receiptMatches("operation.preview", r, outcome) /\ readTargetMatches("operation.preview", r, outcome)
    BY DEF receiptMatches, readTargetMatches
  <2> HIDE DEF outcome
  <2>3. replyCorrelates("operation.preview", r, Review(q)) <=>
          sameIdentity(r.operationId, op) /\ previewTargetMatches("operation.preview", r, outcome)
    BY <2>1, <2>2 DEF replyCorrelates, OperationEndpoints
  <2> QED
    BY <1>4, <2>3 DEF outcome
<1>7. previewTargetMatches("operation.preview", r, [kind |-> "REVIEWED", data |-> subject]) <=>
        /\ q.kind = r.kind
        /\ r.kind = "AUTHORITY" => previewAuthorityMatches(r, subject)
        /\ r.kind = "CASE"      => previewCaseMatches(r, subject)
        /\ r.kind = "WORK"      => previewWorkMatches(r, subject)
        /\ r.kind = "REMINDER"  => previewReminderMatches(r, subject)
  <2> HIDE DEF subject
  <2> QED
    BY <1>5 DEF previewTargetMatches
<1>8. SUFFICES ASSUME r.kind = q.kind, r.operationId.of = q.operationId.of
               PROVE  previewTargetMatches("operation.preview", r, [kind |-> "REVIEWED", data |-> subject]) <=>
                        SameBasis(r, q) /\ SameEffect(r, q)
  BY <1>6, <1>7 DEF SameOperation
<1>9. CASE r.kind = "AUTHORITY"
  <2>1. AuthorityInput(r) /\ AuthorityInput(q)
    BY <1>8, <1>9 DEF OperationInput, CaseInput, WorkInput, ReminderInput
  <2> QED
    BY <1>7, <1>8, <1>9, <2>1, AuthorityReview
<1>10. CASE r.kind = "CASE"
  <2>1. CaseInput(r) /\ CaseInput(q)
    BY <1>8, <1>10 DEF OperationInput, AuthorityInput, WorkInput, ReminderInput
  <2> QED
    BY <1>3, <1>7, <1>8, <1>10, <2>1, CaseReview
<1>11. CASE r.kind = "WORK"
  <2>1. WorkInput(r) /\ WorkInput(q)
    BY <1>8, <1>11 DEF OperationInput, AuthorityInput, CaseInput, ReminderInput
  <2> QED
    BY <1>7, <1>8, <1>11, <2>1, WorkReview
<1>12. CASE r.kind = "REMINDER"
  <2>1. ReminderInput(r) /\ ReminderInput(q)
    BY <1>8, <1>12 DEF OperationInput, AuthorityInput, CaseInput, WorkInput
  <2> QED
    BY <1>3, <1>7, <1>8, <1>12, <2>1, ReminderReview
<1> QED
  BY <1>2, <1>9, <1>10, <1>11, <1>12

\* What a receipt says of the case or reminder it is about fits requests for that change only.
LEMMA EffectsBind ==
  ASSUME NEW r, NEW q, OperationInput(r), OperationInput(q), NEW disclosed \in BOOLEAN,
         r.kind = q.kind, r.act.kind = q.act.kind
  PROVE  receiptEffectMatches(r, ReceiptSubject(q, disclosed)) <=> SameBasis(r, q)
<1> DEFINE subject == ReceiptSubject(q, disclosed)
           name == q.target.value.of
<1>1. CASE r.kind = "AUTHORITY"
  BY <1>1 DEF receiptEffectMatches, SameBasis
<1>2. CASE r.kind = "CASE"
  <2>1. CaseInput(r) /\ CaseInput(q)
    BY <1>2 DEF OperationInput, AuthorityInput, WorkInput, ReminderInput
  <2>2. /\ subject.caseId = CaseOf(q) /\ subject.caseReference = StoredReference(name)
        /\ subject.revision = q.expectedRevision + 1
    BY <2>1 DEF ReceiptSubject, Named, CaseInput
  <2>3. /\ CaseSelector(r.target) /\ r.expectedRevision \in Nat /\ q.expectedRevision \in Nat
        /\ r.act.kind = "OPEN" => r.target.by # "ID"
    BY <2>1 DEF CaseInput
  <2>4. \E id : CaseOf(q) = Stored(id) /\ (r.target.by = "ID" => id = name)
    BY <2>3 DEF CaseOf
  <2> HIDE DEF subject, name
  <2>5. caseTargetMatches(r, subject) <=> r.target.value.of = name
    BY <2>2, <2>3, <2>4, TargetNames
  <2>6. nextRevision(r.expectedRevision, subject.revision) <=> r.expectedRevision = q.expectedRevision
    BY <2>2, <2>3 DEF nextRevision, positiveRevision
  <2> QED
    BY <1>2, <2>5, <2>6 DEF receiptEffectMatches, SameBasis, subject, name
<1>3. CASE r.kind = "WORK"
  <2>1. WorkInput(r) /\ WorkInput(q)
    BY <1>3 DEF OperationInput, AuthorityInput, CaseInput, ReminderInput
  <2>2. /\ subject.caseId = Stored(name) /\ subject.caseReference = StoredReference(name)
        /\ subject.revision = q.expectedRevision + 1
    BY <2>1 DEF ReceiptSubject, WorkInput, CaseOf
  <2>3. CaseSelector(r.target) /\ r.expectedRevision \in Nat /\ q.expectedRevision \in Nat
    BY <2>1 DEF WorkInput
  <2> HIDE DEF subject, name
  <2>4. caseTargetMatches(r, subject) <=> r.target.value.of = name
    BY <2>2, <2>3, TargetNames
  <2>5. nextRevision(r.expectedRevision, subject.revision) <=> r.expectedRevision = q.expectedRevision
    BY <2>2, <2>3 DEF nextRevision, positiveRevision
  <2> QED
    BY <1>3, <2>4, <2>5 DEF receiptEffectMatches, SameBasis, subject, name
<1>4. CASE r.kind = "REMINDER"
  <2>1. ReminderInput(r) /\ ReminderInput(q)
    BY <1>4 DEF OperationInput, AuthorityInput, CaseInput, WorkInput
  <2> DEFINE changed == Version(disclosed, ReminderAfter(q))
  <2>2. /\ subject.caseId = Stored(name) /\ subject.caseReference = StoredReference(name)
        /\ subject.effects.changed = changed
    <3> HIDE DEF changed
    <3>1. ReceiptSubject(q, disclosed) =
            [kind |-> "REMINDER", act |-> q.act.kind, caseId |-> Stored(name),
             caseReference |-> StoredReference(name),
             effects |-> [kind |-> IF Planned(q) THEN "COMPLETED_AND_PLANNED" ELSE "SINGLE",
                          changed |-> changed, next |-> Version(disclosed, NewReminder(q))]]
      BY <2>1, ReminderMoves DEF ReceiptSubject, ReminderInput, changed
    <3> QED
      BY <3>1
  <2>3. /\ CaseSelector(r.target)
        /\ r.act.kind # "CREATE" =>
             /\ IsIdentity(r.act.reminderId) /\ r.act.expectedRevision \in Nat
             /\ q.act.expectedRevision \in Nat
    BY <2>1 DEF ReminderInput
  <2>4. changed.reminderId = ReminderAfter(q).reminderId /\ changed.revision = ReminderAfter(q).revision
    BY DEF Version
  <2> HIDE DEF subject, name, changed
  <2>5. caseTargetMatches(r, subject) <=> r.target.value.of = name
    BY <2>2, <2>3, TargetNames
  <2>6. r.act.kind # "CREATE" =>
          /\ sameIdentity(r.act.reminderId, changed.reminderId) <=> r.act.reminderId.of = q.act.reminderId.of
          /\ nextRevision(r.act.expectedRevision, changed.revision) <=>
               r.act.expectedRevision = q.act.expectedRevision
    <3> SUFFICES ASSUME r.act.kind # "CREATE"
                 PROVE  /\ sameIdentity(r.act.reminderId, changed.reminderId) <=>
                              r.act.reminderId.of = q.act.reminderId.of
                        /\ nextRevision(r.act.expectedRevision, changed.revision) <=>
                              r.act.expectedRevision = q.act.expectedRevision
      OBVIOUS
    <3>1. changed.reminderId = Stored(q.act.reminderId.of) /\ changed.revision = q.act.expectedRevision + 1
      BY <2>1, <2>4, ReminderMoves
    <3>2. sameIdentity(r.act.reminderId, changed.reminderId) <=> r.act.reminderId.of = q.act.reminderId.of
      BY <2>3, <3>1, SameName, StoredNames
    <3> QED
      BY <2>3, <3>1, <3>2 DEF nextRevision, positiveRevision
  <2> QED
    BY <1>4, <2>2, <2>5, <2>6 DEF receiptEffectMatches, SameBasis, subject, name
<1> QED
  BY <1>1, <1>2, <1>3, <1>4 DEF OperationInput, CaseInput, WorkInput, ReminderInput, AuthorityInput

\* A receipt is taken by what asked for the act it records on the same thing.
LEMMA ReceiptsBind ==
  ASSUME NEW r, NEW q, OperationInput(r), OperationInput(q), NEW disclosed \in BOOLEAN
  PROVE  /\ replyCorrelates("operation.execute", r, Receipt(q, disclosed)) <=>
              SameOperation(r, q) /\ r.act.kind = q.act.kind /\ SameBasis(r, q)
         /\ replyCorrelates("operation.status", [kind |-> "NONE", operationId |-> r.operationId],
                            Receipt(q, disclosed)) <=> r.operationId.of = q.operationId.of
<1> DEFINE op == Stored(q.operationId.of)
           subject == ReceiptSubject(q, disclosed)
           receipt == Written(q, disclosed)
           outcome == [kind |-> "ACCEPTED", data |-> receipt]
           asking == [kind |-> "NONE", operationId |-> r.operationId]
<1>1. Receipt(q, disclosed).operationId = op /\ Receipt(q, disclosed).outcome = outcome
  <2>1. Receipt(q, disclosed) = [operationId |-> op, outcome |-> outcome]
    BY DEF Receipt, Envelope, Written
  <2> HIDE DEF outcome
  <2> QED
    BY <2>1
<1>2. /\ receipt.operationId = op /\ receipt.subject = subject
  BY DEF Written
<1>3. sameIdentity(r.operationId, op) <=> r.operationId.of = q.operationId.of
  BY SameName, StoredNames DEF OperationInput
<1>4. coherentReceipt(receipt)
  BY ReceiptsAreCoherent
<1>5. subject.kind = q.kind /\ subject.act = q.act.kind
  <2>1. CASE q.kind = "CASE"
    BY <2>1 DEF ReceiptSubject, Named
  <2>2. CASE q.kind = "WORK"
    BY <2>2 DEF ReceiptSubject
  <2>3. CASE q.kind = "REMINDER"
    BY <2>3 DEF ReceiptSubject
  <2>4. CASE q.kind = "AUTHORITY"
    BY <2>4 DEF ReceiptSubject
  <2> QED
    BY <2>1, <2>2, <2>3, <2>4 DEF OperationInput, CaseInput, WorkInput, ReminderInput, AuthorityInput
<1>6. r.kind # "NONE"
  BY DEF OperationInput, CaseInput, WorkInput, ReminderInput, AuthorityInput
<1>7. ASSUME NEW request, NEW endpoint \in {"operation.execute", "operation.status"}
      PROVE  replyCorrelates(endpoint, request, Receipt(q, disclosed)) <=>
               sameIdentity(request.operationId, op) /\ receiptCorrelates(request, receipt)
  <2>1. /\ receiptMatches(endpoint, request, outcome) <=> receiptCorrelates(request, receipt)
        /\ readTargetMatches(endpoint, request, outcome)
        /\ previewTargetMatches(endpoint, request, outcome)
    <3>1. outcome.kind = "ACCEPTED" /\ outcome.data = receipt
      OBVIOUS
    <3> HIDE DEF outcome
    <3> QED
      BY <3>1 DEF receiptMatches, readTargetMatches, previewTargetMatches
  <2>2. endpoint \in OperationEndpoints
    BY <1>7 DEF OperationEndpoints
  <2> HIDE DEF outcome
  <2> QED
    BY <1>1, <2>1, <2>2 DEF replyCorrelates
<1>8. receiptCorrelates(r, receipt) <=>
        /\ r.operationId.of = q.operationId.of
        /\ r.kind = q.kind /\ r.act.kind = q.act.kind /\ SameBasis(r, q)
  <2>1. receiptCorrelates(r, receipt) <=>
          /\ r.operationId.of = q.operationId.of
          /\ r.kind = q.kind /\ r.act.kind = q.act.kind /\ receiptEffectMatches(r, subject)
    <3> HIDE DEF subject
    <3> QED
      BY <1>2, <1>3, <1>4, <1>5, <1>6 DEF receiptCorrelates
  <2> QED
    BY <2>1, EffectsBind
<1>9. receiptCorrelates(asking, receipt) <=> r.operationId.of = q.operationId.of
  <2>1. asking.kind = "NONE" /\ asking.operationId = r.operationId
    OBVIOUS
  <2> HIDE DEF asking
  <2> QED
    BY <1>2, <1>3, <1>4, <2>1 DEF receiptCorrelates
<1>10. replyCorrelates("operation.execute", r, Receipt(q, disclosed)) <=>
         SameOperation(r, q) /\ r.act.kind = q.act.kind /\ SameBasis(r, q)
  BY <1>3, <1>7, <1>8 DEF SameOperation
<1>11. replyCorrelates("operation.status", asking, Receipt(q, disclosed)) <=> r.operationId.of = q.operationId.of
  <2>1. asking.operationId = r.operationId
    OBVIOUS
  <2> HIDE DEF asking
  <2> QED
    BY <1>3, <1>7, <1>9, <2>1
<1> QED
  BY <1>10, <1>11

(***************************************************************************)
(* A page that sends and awaits requests, and nothing else.                  *)
(***************************************************************************)
CorrelationSpec == awaited = None /\ [][Send \/ Take]_awaited

AwaitsSent == awaited \in Sent \cup {None}

(* Whatever the pages of a browser send, a page takes for the answer to its
   request exactly the receipts and reviews of that change, and a status by the
   identity alone (replyCorrelation.ts, replyCorrelates).                    *)
THEOREM RepliesBind == CorrelationSpec => []RepliesBindTheirRequest
<1>1. awaited = None => AwaitsSent
  BY DEF AwaitsSent
<1>2. AwaitsSent /\ [Send \/ Take]_awaited => AwaitsSent'
  BY DEF AwaitsSent, Send, Take
<1>3. AwaitsSent => RepliesBindTheirRequest
  <2> SUFFICES ASSUME AwaitsSent, awaited # None, NEW q \in Sent
               PROVE  LET r == awaited
                      IN  /\ replyCorrelates("operation.preview", r, Review(q)) <=>
                               SameOperation(r, q) /\ SameBasis(r, q) /\ SameEffect(r, q)
                          /\ \A disclosed \in BOOLEAN :
                               /\ replyCorrelates("operation.execute", r, Receipt(q, disclosed)) <=>
                                    SameOperation(r, q) /\ r.act.kind = q.act.kind /\ SameBasis(r, q)
                               /\ replyCorrelates("operation.status",
                                                  [kind |-> "NONE", operationId |-> r.operationId],
                                                  Receipt(q, disclosed)) <=> r.operationId.of = q.operationId.of
    BY Zenon DEF RepliesBindTheirRequest
  <2>1. PICK r \in Sent : r = awaited
    BY DEF AwaitsSent
  <2>2. OperationInput(r) /\ OperationInput(q)
    BY <2>1, SentAssumption
  <2>3. replyCorrelates("operation.preview", r, Review(q)) <=>
          SameOperation(r, q) /\ SameBasis(r, q) /\ SameEffect(r, q)
    BY <2>2, ReviewsBind
  <2>4. \A disclosed \in BOOLEAN :
          /\ replyCorrelates("operation.execute", r, Receipt(q, disclosed)) <=>
               SameOperation(r, q) /\ r.act.kind = q.act.kind /\ SameBasis(r, q)
          /\ replyCorrelates("operation.status", [kind |-> "NONE", operationId |-> r.operationId],
                             Receipt(q, disclosed)) <=> r.operationId.of = q.operationId.of
    BY <2>2, ReceiptsBind
  <2> QED
    BY <2>1, <2>3, <2>4
<1> QED
  BY <1>1, <1>2, <1>3, PTL DEF CorrelationSpec
=============================================================================
