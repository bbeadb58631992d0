\* Whether the stored trace of a lap begins and ends on the line.
SPECIFICATION Spec
CONSTANTS
  None = None
  MAX_FIX_GAP = 6
  Fix <- MCFix
  Hop = {2, 4}
  SfGate <- MCGate
  MIN_LAP = 4
  MaxSamples = 6
INVARIANTS TraceOpensOnLine
CHECK_DEADLOCK FALSE
