CONSTANTS
  Addresses = {0, 1, 2}
  Names = {compass, gps}
  Blank = Blank
  Models = {Blank, m1}
  MaxClaims = 3
  MaxDevices = 2
  Unheard <- Unknown
SYMMETRY Symmetry
SPECIFICATION ClaimsSpec
INVARIANTS
  ClaimsTypeOK
  OneAddressPerName
  HeardIsListed
  NeverFoundElsewhere
  DevicesDistinct
  SavedIsCurrent
