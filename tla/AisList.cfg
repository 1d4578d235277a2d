CONSTANTS
  Vessels = {m1, m2}
  Values = {Zero, v1}
  Zero = Zero
  Null = Null
  Absent = Absent
SPECIFICATION Spec
INVARIANTS
  ListTypeOK
  LateDisplayAgrees
