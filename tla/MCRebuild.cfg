SPECIFICATION MCSpec
CONSTANTS
  Panes = {p1, p2}
  MaxCode = 2
  MaxGen = 3
  Agents = {a, b}
  None = None
  Addrs = {h1, h2}
  CREATE_ATTEMPT_CAP = 2
  MaxFrames = 1
  MaxRebuildSteps = 7
  MaxProbeSteps = 7
CHECK_DEADLOCK FALSE
INVARIANTS OneOperationAtATime PanesSound NoTriggerLost
PROPERTIES UserChoiceKept RefusedSessionStaysDetached
