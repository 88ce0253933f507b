CONSTANTS
  Questions <- OneQuestion
  AuthPromptLimit = 2
  KeyboardPromptLimit = 2
  MaxWaiting = 1
SPECIFICATION Spec
INVARIANTS
  NeverStranded
  PromptsBounded
  UsedAnswersForgotten
  TellsTheTruth
