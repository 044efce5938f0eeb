SPECIFICATION FairSpec
CONSTANTS
  Capacity = 4
  RecordSize = 3
  ReportSize = 2
  FrameMod = 5
  Report = Report
  Pad = Pad
  MissedPolls = TRUE
INVARIANTS
  NoUnderflow
  ReadsOwnPage
  ResyncsAfterOnePacket
PROPERTIES
  BytesInOrder
  Drains
