SPECIFICATION Spec
CONSTANTS
  None = None
  visit = visit
  spam = spam
  Events = {a}
  Rules = {visit, spam}
  Points <- RulePoints
  MaxScore <- RuleMaxScore
  DecayDays <- RuleDecayDays
  Adjustments <- CategoryAdjustments
  GradeFrom = 1
  MaxDay = 2
  Procs = {p1}
  Order <- FourProjections
  MaxAttempts = 2
  Together <- OnlyAdjusted
INVARIANTS ScoreIsLogged
CHECK_DEADLOCK FALSE
