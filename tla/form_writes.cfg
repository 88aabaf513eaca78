\* The user need do nothing: a behaviour may end anywhere, so deadlock is not
\* checked.
SPECIFICATION BothSpec
CONSTANTS
  General <- MCGeneral
  CardTypes <- MCCardTypes
  FieldsOf <- MCFieldsOf
  Contexts <- MCContexts
  Texts = {"a", "b"}
  Malformed = {"b"}
  Lists <- MCLists
  MaxWrites = 4
  MaxFans = 2
  MaxCards = 3
  Libraries <- MCLibraries
  QuestionWords = {"q"}
  RequestWords = {"r"}
  TopKs <- MCTopKs
  TypeChoices = {{}, {"similar_report"}}
  DefaultTopK = 3
  ReviewTopK = 2
  RowLimit = 1
  Window = 2
  EvidenceLimit = 3
  RankingLimit = 3
VIEW WithoutWrote
CONSTRAINT OneSection
INVARIANTS
  FormAndSearchTypeOK
  SaveTakesNothingAway
  
PROPERTIES
  
  FilledCardsStay
CHECK_DEADLOCK FALSE
