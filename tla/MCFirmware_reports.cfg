SPECIFICATION ReportSpec
CONSTANTS
  Channels = 2
  Controllers = 1
  Timeslots = 0
  MaxMessage = 2
  Blocks = {"SLIP", "HDLC"}
  Addresses = {}
  Values = {0}
  Malformed = {}
  OutBytes = 8
INVARIANTS
  NoneLost
  PacketDecodes
PROPERTIES
  EveryChannelServed
