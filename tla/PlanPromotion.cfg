SPECIFICATION PlanSpec
CONSTANTS
  reviewer = reviewer
  bare = bare
  Callers = {reviewer, bare}
  Slices = {1, 2}
  Deps <- TheDeps
  Orders <- TheOrders
  Drafts <- TheDrafts
  MaxFeatures = 3
  MaxCalls = 4
  MaxFailures = 1
  None = None
INVARIANT PlanSound
PROPERTIES VerdictStands DependenciesWired
CHECK_DEADLOCK FALSE
