SPECIFICATION FramersSpec
CONSTANTS
  timeslots_per_frame = 3
  MinClocks = 5
  Channels = 3
  report_length = 35
  FrameMod = 3
  Torn = Torn
  tx_report_length = 3
  RecordMod = 3
  NoByte = NoByte
INVARIANTS
  RecordAligned
  LineFrameIsRecord
  NoStrobeMissedByEither
