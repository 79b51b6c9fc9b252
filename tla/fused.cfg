SPECIFICATION FairSpec
CONSTANTS
  Specialists <- MCSpecialists
  Critical = {"ZeroDay"}
  Workers = {w1, w2}
  Answers <- MCAnswers
  MaxEvents = 2
  MaxHangs = 2
INVARIANTS VerdictIsBest
PROPERTIES CallReturns PoolServes
CHECK_DEADLOCK FALSE
