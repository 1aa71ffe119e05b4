CONSTANTS
  search = search
  Request <- MCRequest
  Registry = {search}
  Tools = {search}
  NoTool = NoTool
  MaxSteps = 3
  Nothing = Nothing
SPECIFICATION Spec
PROPERTY FailedStepFailsPlan
CHECK_DEADLOCK FALSE
