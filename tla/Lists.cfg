SPECIFICATION OrderSpec
CONSTANTS
  i1 = i1
  i2 = i2
  t1 = t1
  t2 = t2
  b1 = b1
  m1 = m1
  m2 = m2
  f1 = f1
  f2 = f2
  Regs <- MCRegs
  R0 = "R0"
  R31 = "R31"
  NoReg = "NONE"
  ByteMod = 4
  RawDecode <- MCRawDecode
  Alu <- MCAlu
  RequestedSize = 32
  Images <- MCImages
  Stations <- MCStations
  NoStation = NoStation
  unitOf <- MCunitOf
  allStations <- MCallStations
  UnitOrders <- MCUnitOrders
  executeCycles <- MCexecuteCycles
  numExecuteUnits <- MClistUnits
  CycleMod = 8
  MaxClock = 40
INVARIANT OrderUnobservable
INVARIANT EveryStationKept
INVARIANT SortedByIssue
PROPERTY ProcessorSpec
