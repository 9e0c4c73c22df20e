SPECIFICATION Spec
CONSTANTS
  Scripts <- MCScripts
  Estimates <- MCEstimates
  Padding = 1
  Silence = 1
  Faults = {"speech", "probe", "silence", "join"}
INVARIANTS CaptionsInOrder CaptionLag
CHECK_DEADLOCK FALSE
