CONSTANTS
  Addresses = {0, 1, 2, 3}
  Names = {}
  Blank = Blank
  Models = {}
  MaxClaims = 1
  MaxDevices = 0
  Unheard <- Unknown
  Lines <- SpeedAndWind
  Values = {Zero, v1}
  Zero = Zero
  Null = Null
  Absent = Absent
  MaxSources = 2
  MaxMessages = 4
  MaxPending = 2
SPECIFICATION ViewSpec
INVARIANTS
  ViewTypeOK
  CloudKnowsSlots
  CloudKnowsTrueWind
