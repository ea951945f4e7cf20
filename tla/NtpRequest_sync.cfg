SPECIFICATION FairSpec
CONSTANTS
  GiveUp = 1
  Interval = 3
  Horizon = 5
  MaxAnswers = 4
INVARIANTS
  TypeOK
  NoMoreThanGivenUp
PROPERTIES
  OwnAnswerIsUsed
  Synchronises
