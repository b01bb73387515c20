CONSTANTS
  Values = {low, medium, high}
  Stored = {high}
  Default = medium
  Apps = {code}
  Overrides = {zoom}
  NoRule = NoRule
  Null = Null
  Global = Global
  Pending = Pending
  Failed = Failed
  MaxEdits = 2
  MaxFaults = 1
SPECIFICATION Spec
PROPERTIES QueueIsApplied
CHECK_DEADLOCK FALSE
