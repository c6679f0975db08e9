SPECIFICATION AllSpec
CONSTANTS
  None = None
  visit = visit
  spam = spam
  Events = {a, b}
  Rules = {visit, spam}
  Points <- RulePoints
  MaxScore <- RuleMaxScore
  DecayDays <- RuleDecayDays
  Adjustments <- TotalAdjustments
  GradeFrom = 1
  MaxDay = 2
  Procs = {p1, p2}
  Order <- FourProjections
  MaxAttempts = 2
  Together <- Combinations
  Leases = {a, b}
  One = {p3}
  e1 = e1
  e2 = e2
  n0 = n0
  n1 = n1
  n2 = n2
  n3 = n3
  m0 = m0
SYMMETRY Symmetry
INVARIANTS EngineTypeOK OneLiveJob EffectOnce EventWakesDecision
  AwaitedChildCompleted ParkedParentRecoverable NoOrphanChild
  TypeOK ProjectedInOrder ProcessedTookEffect
  HistoryIsRestored GradeFollowsScore ScoreIsBacked ContributionsKept
PROPERTIES LeaseFencing CapturedBranchTaken EffectWhileActive ImplementsLifecycle
  ArchivedLeftAlone
CHECK_DEADLOCK FALSE
