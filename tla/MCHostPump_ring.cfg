SPECIFICATION PumpSpec
CONSTANTS
  Packets = 1
  Transfers = 4
  Ring = 3
  DrawDown = 1
  RxFrames = 1
  TxFrames = 2
  Slips = FALSE
  MaxDisturbances = 7
INVARIANTS
  NeverPanics
