SPECIFICATION TestSpec
CONSTANTS
  NoStation = NoStation
  Stations <- MCStations
  MaxClock = 1000
  UnitOrders <- MCUnitOrders
  Tests = {"brUnit6", "brUnit1", "fpUnit6", "intUnit8"}
INVARIANT PrintsExpected
