SPECIFICATION PumpFairSpec
CONSTANTS
  Packets = 4
  Transfers = 3
  Ring = 20
  DrawDown = 6
  RxFrames = 3
  TxFrames = 15
  Slips = TRUE
  MaxDisturbances = 2
INVARIANTS
  PanicsOnlyWhenDry
PROPERTIES
  DrawsDown
  KeepsPace
