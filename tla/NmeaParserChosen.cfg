CONSTANTS
  Addresses = {0, 1, 2}
  Names = {compass, gps}
  Blank = Blank
  Models = {}
  MaxClaims = 2
  MaxDevices = 0
  Unheard <- Unknown
  Lines <- Headings
  Values = {Zero}
  Zero = Zero
  Null = Null
  Absent = Absent
  MaxSources = 2
SPECIFICATION Spec
SYMMETRY Symmetry
PROPERTY OnlyChosenDevice
