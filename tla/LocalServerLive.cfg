CONSTANTS
  Clients = {c1}
  Quantities = {"awa"}
  Values = {v1, v2}
  Configs = {k1, k2}
  Unknown = Unknown
  RingDepth = 3
  MaxSources = 2
SPECIFICATION FairSpec
INVARIANT Converges
PROPERTY CatchesUp
