SPECIFICATION CommandSpec
CONSTANTS
  Channels = 1
  Controllers = 0
  Timeslots = 2
  MaxMessage = 1
  Blocks = {"T1FRAME"}
  Addresses = {1, 258}
  Values = {0, 1}
  Malformed <- MCMalformed
  OutBytes = 8
INVARIANTS
  ReadsOwnWrites
  ViewCatchesUp
PROPERTIES
  CommandAnswered
  CommandsAccepted
