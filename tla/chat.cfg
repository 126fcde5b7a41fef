SPECIFICATION Spec
CONSTANTS
  Tools = {t1, t2}
  MaxChats = 2
  MaxRounds = 2
  MaxCalls = 2
  MaxTokens = 1
  Window = 2
INVARIANTS TypeOK StreamsAreStoppable AnswersAreTheirOwn NoErrorMeansWhole ToolsShownAsTheyEnded
PROPERTIES StreamingEnds
CHECK_DEADLOCK FALSE
