CONSTANTS
  Addresses = {1, 2}
  Names = {compass, gps}
  Blank = Blank
  Models = {Blank, m1}
  MaxClaims = 2
  MaxDevices = 1
  Unheard <- Unknown
  Lines <- NoLines
  Values = {Zero}
  Zero = Zero
  Null = Null
  Absent = Absent
  MaxSources = 1
  MaxMessages = 4
  MaxPending = 2
SPECIFICATION ViewSpec
SYMMETRY Symmetry
INVARIANTS
  CloudKnowsBus
