SPECIFICATION FairSpec
CONSTANTS
  system = system
  io = io
  cpu = cpu
  memory = memory
  disk = disk
  network = network
  Writers = {system, io}
  Main = Main
  FieldsOf <- MCFieldsOf
  UpdatedAt = UpdatedAt
  MaxAccesses = 4
INVARIANTS
  LockHasOneHolder
  DumpIsWhole
PROPERTIES
  DumpReturns
CHECK_DEADLOCK FALSE
