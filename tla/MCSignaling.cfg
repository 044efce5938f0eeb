SPECIFICATION SignalingFairSpec
CONSTANTS
  Bits = 2
  FramesPerBit = 2
  CountMod = 12
  InitialValue <- MCInitialValue
  MaxEvents = 2
  HalfWindow = 3
  Rows = {1, 2}
  Columns = {1, 2}
INVARIANTS
  NeverAsserts
  ReportedWasKeyed
  PressReportedOnce
PROPERTIES
  AcceptedIsSent
  ChangesHeardTwice
  MonitorSettles
