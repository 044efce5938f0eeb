SPECIFICATION Spec
CONSTANTS
  Channels = 1
  Controllers = 2
  Timeslots = 0
  MaxMessage = 1
  Blocks = {"HDLC"}
  Addresses = {}
  Values = {0}
  Malformed = {}
  OutBytes = 8
INVARIANTS
  TestToolDecodes
