SPECIFICATION Spec
CONSTANTS
  Capacity = 2
  RecordSize = 2
  ReportSize = 2
  MaxFrames = 2
  FrameMod = 2
  CountMod = 2
  Report = Report
  Blank = Blank
  LostSOFs = TRUE
PROPERTIES
  SyncedCommitsWhole
  WholeRecordsAccounted
