SPECIFICATION Spec
CONSTANTS
  GiveUp = 1
  Interval = 3
  Horizon = 5
  MaxAnswers = 2
PROPERTIES
  GivenUpIsNotUsed
