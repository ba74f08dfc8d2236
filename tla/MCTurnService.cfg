\* Two deployments that use models, one without knowledge, one with a fixed message.
CONSTANTS
  Texts <- MCTexts
  Words <- MCWords
  Sensitive <- MCSensitive
  Phrases <- MCPhrases
  Rewrites <- MCRewrites
  Size <- MCSize
  Beginning <- MCBeginning
  MaxLength <- MCMaxLength
  Window = 1
  NoId = NoId
  RouterIntents <- MCRouterIntents
  Ids <- MCIds
  AllowedIntents <- MCAllowedIntents
  Lexical <- MCLexical
  Exact = 88
  Contained = 60
  Semantic <- MCSemantic
  RuledOut <- MCRuledOut
  Sounds <- MCSounds
  Facts <- MCFacts
  Recognised <- MCRecognised
  Approved <- MCApproved
  TopicsAsked <- MCTopicsAsked
  ChannelsAsked <- MCChannelsAsked
  Utterances <- MCUtterances
  Configs <- MCConfigs
  Endpoints <- MCEndpoints
  MaxTurns = 1
  Changing = {"k1"}
  Questions <- MCQuestions
  Edited <- MCEdited
SPECIFICATION Spec
INVARIANTS TypeOK NothingSensitiveLeaves HardRulesWin AnswersWerePublished TornReadNeedsEdit JudgedOnWhatWasAsked AcknowledgementFits ShadowModesOnlyObserve
