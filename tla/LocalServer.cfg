CONSTANTS
  Clients = {c1, c2}
  Quantities = {"awa"}
  Values = {v1, v2}
  Configs = {k1}
  Unknown = Unknown
  RingDepth = 3
  MaxSources = 1
SPECIFICATION Spec
SYMMETRY Symmetry
INVARIANTS
  TypeOK
  ListIsLive
  WokenIffQueued
  Converges
