SPECIFICATION BusSpec
CONSTANTS
  ChannelsCount = 2
  TimeslotsCount = 1
  DumpReads = 2
  BufferReads = 1
  Program <- SetupProgram
  ResetAt <- SetupReset
  Addresses <- SetupRegisters
  StatusAddresses <- SetupStatusRegisters
  Defaults <- SetupDefaults
  HostBytes <- SetupHostBytes
  MaxHostWrites = 1
  WaitCycles = 1
INVARIANTS
  EveryStartIsAlike
  FieldsStickOnBus
  OutputsOnlyIntoInputs
  EnabledIsServed
  StartsQuiet
PROPERTIES
  ImplementsProgram
  ReachesLoop
