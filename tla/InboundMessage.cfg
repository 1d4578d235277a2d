CONSTANTS
  Keys = {sail, crew}
  Values = {Blank, v1}
  Blank = Blank
  Null = Null
  Absent = Absent
  MaxItems = 2
  CalibKeys = {speed, awa}
  Members = {fixed}
  Numbers = {Zero}
  Zero = Zero
  Nulled = Nulled
  MaxCalibItems = 2
  Devices = {gps}
  Anyone = Anyone
  MaxParts = 2
SPECIFICATION Spec
SYMMETRY Symmetry
INVARIANTS
  MessageTypeOK
  UniqueKeys
  CalibrationsAnnounced
PROPERTY MapSpec
