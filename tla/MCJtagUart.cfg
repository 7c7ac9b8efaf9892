SPECIFICATION FairSpec
CONSTANTS
  BufLen = 3
  WriteDepth = 1
  ReadDepth = 2
  DefaultTimeout = 2
  IntMax = 4
  TickRates = {0, 1}
  Counts = {1, 3}
  Timeouts = {1}
  Loads <- MCLoads
  MaxPlugs = 1
INVARIANTS JtagUartTypeOK NothingLostOrReordered TransmitNeverStalls ReceiveNeverStalls
PROPERTIES ConsoleIsAStream CallsReturn
CHECK_DEADLOCK FALSE
