------------------------------ MODULE Presentation ------------------------------
(***************************************************************************)
(* The language and the display preferences of the browser: what is kept in  *)
(* the page, what is stored for the next visit, and the catalogs of texts     *)
(* that are loaded when they are first needed (PresentationProvider.tsx,      *)
(* preferences.ts, languageCatalog.ts, SettingsPanel.tsx). Loads end in any   *)
(* order, and may fail; only the one begun last may change the page. A        *)
(* language or locale is its tag, a sequence of subtags.                      *)
(***************************************************************************)
EXTENDS Naturals, Sequences, FiniteSets

CONSTANTS
  Languages,        \* the languages of the page
  Aliases,          \* further tags of them, a function to languages
  DisplayOptions,   \* the display locales, in order: [value, language]
  DefaultLanguage, DefaultLocale,
  Pseudolanguage,   \* for testing texts; it borrows the catalog of the default
  BrowserTags,      \* what a browser may list as its languages
  MaxRequests       \* loads or choices of a language since the page was loaded

NoTag == <<>>
ASSUME LanguagesAssumption ==
  /\ {DefaultLanguage, Pseudolanguage} \subseteq Languages /\ NoTag \notin Languages
  /\ \A tag \in DOMAIN Aliases : Aliases[tag] \in Languages
  /\ \E i \in DOMAIN DisplayOptions : DisplayOptions[i].value = DefaultLocale
ASSUME TagsAssumption ==
  /\ Languages \subseteq Seq(STRING)
  /\ DisplayOptions \in Seq([value : Seq(STRING), language : Seq(STRING)])
  /\ BrowserTags \subseteq Seq(Seq(STRING))

VARIABLES
  state,        \* what the provider shows and awaits
  generation,   \* the identity of the last request for a language
  loads,        \* the loads under way
  installed,    \* the languages whose catalogs are complete
  stored,       \* the preferences in the browser's storage
  asked         \* ghost: the language the person asked for last, or found

presentation == <<state, generation, loads, installed, stored, asked>>

(* Preferences. The display locale stands for the mode and the accent too,
   which are changed and stored in the same way.                            *)

displayLocales == {DisplayOptions[i].value : i \in DOMAIN DisplayOptions}

matchingLanguage(tag) ==
  LET known == {n \in 1..Len(tag) : SubSeq(tag, 1, n) \in Languages \cup DOMAIN Aliases}
      range == SubSeq(tag, 1, CHOOSE n \in known : \A m \in known : m <= n)
  IN  IF known = {} THEN NoTag ELSE IF range \in Languages THEN range ELSE Aliases[range]

Least(indices) == CHOOSE n \in indices : \A m \in indices : n <= m

matchingLocale(tag) ==
  LET speaking == {n \in DOMAIN DisplayOptions : DisplayOptions[n].language = matchingLanguage(tag)}
      sharing == {n \in DOMAIN DisplayOptions : DisplayOptions[n].value[1] = tag[1]}
      fitting == IF speaking # {} THEN speaking ELSE sharing
  IN  IF tag \in displayLocales THEN tag ELSE IF fitting = {} THEN NoTag ELSE DisplayOptions[Least(fitting)].value

Otherwise(tag, default) == IF tag = NoTag THEN default ELSE tag
resolveLanguage(tag) == Otherwise(matchingLanguage(tag), DefaultLanguage)
resolveDisplayLocale(tag) == IF tag \in displayLocales THEN tag ELSE DefaultLocale

negotiatePreferences(requested) ==
  LET speakable == {n \in DOMAIN requested : matchingLanguage(requested[n]) \notin {NoTag, Pseudolanguage}}
      displayable == {n \in DOMAIN requested : matchingLocale(requested[n]) # NoTag}
  IN  [language |-> IF speakable = {} THEN DefaultLanguage ELSE matchingLanguage(requested[Least(speakable)]),
       displayLocale |-> IF displayable = {} THEN DefaultLocale ELSE matchingLocale(requested[Least(displayable)])]

NoPreferences == [language |-> NoTag, displayLocale |-> NoTag]
parsePreferences(text, fallback) ==
  IF text = NoPreferences THEN fallback
  ELSE [language |-> resolveLanguage(text.language), displayLocale |-> resolveDisplayLocale(text.displayLocale)]

preferences(s) == [language |-> s.language, displayLocale |-> s.displayLocale]
savePreferences(value, saved) == stored' = IF saved THEN value ELSE stored

(* Catalogs.                                                               *)

catalogLanguage(language) == IF language = Pseudolanguage THEN DefaultLanguage ELSE language
languageLoaded(language) == catalogLanguage(language) \in installed
Load(language, identity, initiated) ==
  [language |-> language, identity |-> identity, initiated |-> initiated]

(* The page is loaded: nothing is installed yet, the language of the stored
   preferences, or else of the browser, is on its way. Storage that cannot
   be read is like storage without preferences.                             *)
Loaded(text, requested) ==
  LET found == parsePreferences(text, negotiatePreferences(requested))
  IN  [language |-> found.language, displayLocale |-> found.displayLocale,
       ready |-> FALSE, pending |-> found.language, failed |-> NoTag,
       persistenceFailed |-> FALSE, changed |-> FALSE, detected |-> text = NoPreferences]

PresentationInit ==
  /\ stored \in {NoPreferences} \cup [language : Languages, displayLocale : displayLocales]
  /\ \E requested \in BrowserTags, readable \in BOOLEAN :
       state = Loaded(IF readable THEN stored ELSE NoPreferences, requested)
  /\ generation = 1
  /\ loads = {Load(state.language, 1, FALSE)}
  /\ installed = {}
  /\ asked = state.language

activate(language, initiated, saved) ==
  LET next == [language |-> language, displayLocale |-> state.displayLocale]
  IN  /\ state' = [state EXCEPT
           !.language = language, !.ready = TRUE, !.pending = NoTag, !.failed = NoTag,
           !.persistenceFailed = IF initiated THEN ~saved ELSE @,
           !.changed = @ \/ initiated, !.detected = @ /\ ~initiated]
      /\ IF initiated THEN savePreferences(next, saved) ELSE UNCHANGED stored

\* A bug: a load that ends shows its language whatever was asked for since.
LoadEnds_Whenever(l, saved) ==
  /\ loads' = loads \ {l}
  /\ installed' = installed \cup {catalogLanguage(l.language)}
  /\ activate(l.language, l.initiated, saved)
  /\ UNCHANGED <<generation, asked>>

LoadEnds(l, saved) ==
  /\ loads' = loads \ {l}
  /\ installed' = installed \cup {catalogLanguage(l.language)}
  /\ IF l.identity = generation THEN activate(l.language, l.initiated, saved) ELSE UNCHANGED <<state, stored>>
  /\ UNCHANGED <<generation, asked>>

\* The catalogs cannot be fetched, or are not complete.
LoadFails(l) ==
  /\ loads' = loads \ {l}
  /\ state' = IF l.identity = generation THEN [state EXCEPT !.pending = NoTag, !.failed = l.language] ELSE state
  /\ UNCHANGED <<generation, installed, stored, asked>>

requestLanguage(language, saved) ==
  /\ generation < MaxRequests
  /\ generation' = generation + 1
  /\ asked' = language
  /\ IF languageLoaded(language)
     THEN activate(language, TRUE, saved) /\ UNCHANGED loads
     ELSE /\ state' = [state EXCEPT !.pending = language, !.failed = NoTag]
          /\ loads' = loads \cup {Load(language, generation + 1, TRUE)}
          /\ UNCHANGED stored
  /\ UNCHANGED installed

\* A radio button that is not checked: the pseudolanguage has one only while it is shown.
ChooseLanguage(language, saved) ==
  /\ state.ready
  /\ language = Pseudolanguage => state.language = Pseudolanguage
  /\ language # Otherwise(state.pending, state.language)
  /\ requestLanguage(language, saved)

retryLanguage(saved) == state.failed # NoTag /\ requestLanguage(state.failed, saved)

ChooseDisplayLocale(locale, saved) ==
  /\ state.ready
  /\ state' = [state EXCEPT !.displayLocale = locale, !.persistenceFailed = ~saved, !.changed = TRUE, !.detected = FALSE]
  /\ savePreferences(preferences(state'), saved)
  /\ UNCHANGED <<generation, loads, installed, asked>>

\* The page is loaded again; what it had under way is gone.
Reload(requested) ==
  /\ state' = Loaded(stored, requested)
  /\ generation' = 1
  /\ loads' = {Load(state'.language, 1, FALSE)}
  /\ installed' = {}
  /\ asked' = state'.language
  /\ UNCHANGED stored

PresentationNext ==
  \/ \E l \in loads, saved \in BOOLEAN : LoadEnds(l, saved)
  \/ \E l \in loads : LoadFails(l)
  \/ \E language \in Languages, saved \in BOOLEAN : ChooseLanguage(language, saved)
  \/ \E saved \in BOOLEAN : retryLanguage(saved)
  \/ \E locale \in displayLocales, saved \in BOOLEAN : ChooseDisplayLocale(locale, saved)
  \/ \E requested \in BrowserTags : Reload(requested)

(* However loads overlap, fail and end: the page never shows a language
   without its catalog (catalogFor throws then); the language shown, awaited
   or reported as failed is the one the person asked for last, an awaited one
   is really being loaded by the request that may still show it; and once the
   person changed something and was not told otherwise, what a next visit will
   find is what this page shows.                                            *)
LatestChoiceRules ==
  /\ state.ready => languageLoaded(state.language)
  /\ asked = Otherwise(state.pending, Otherwise(state.failed, state.language))
  /\ state.pending # NoTag => \E l \in loads : l.identity = generation /\ l.language = state.pending
  /\ state.changed /\ ~state.persistenceFailed => stored = preferences(state)
=============================================================================
