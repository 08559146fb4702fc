SPECIFICATION PageSpec
CONSTANTS
  Entries <- MCEntries
  Roles <- MCRoles
  Cases <- MCCases
  Texts = {"", "a"}
  Sent <- MCSent
  People = {"ana", "bob"}
  Routes = {"home", "cases", "case", "caseAct", "reminders", "people", "settings"}
  MaxEpochs = 3
  Actors = {ann, ben}
  ann = ann
  ben = ben
  MaxRevision = 2
  Languages <- MCLanguages
  Aliases <- MCAliases
  DisplayOptions <- MCDisplayOptions
  DefaultLanguage <- MCDefaultLanguage
  DefaultLocale <- MCDefaultLocale
  Pseudolanguage <- MCPseudolanguage
  BrowserTags <- MCBrowserTags
  MaxRequests = 4
  Locales <- MCLocales
  AmountTexts <- MCAmountTexts
  Prefill <- MCPrefill
  PartValues = {1, 2}
SYMMETRY Directory
CHECK_DEADLOCK FALSE
INVARIANTS
  RequestSaysWhatIsShown
  GrantsAreAdmissible
  RepliesBindTheirRequest
  DraftsEndByConsent
  DepartureIsAsked
  LatestChoiceRules
  TypedEntriesAreKept
PROPERTIES
  DraftsAreReplacedKnowingly
