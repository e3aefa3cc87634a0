SPECIFICATION JsonSpec
CONSTANTS
  k1 = k1
  k2 = k2
  k3 = k3
  Keys = {k1, k2, k3}
  Hash <- SomeHash
  Strings = {s1, s2, s3, s4}
  Values = {v1, v2, v3, v4}
  InitialBuckets = 3
  None = None
  Null = Null
  Nodes = {n1, n2, n3, n4, n5}
  ParsedStrings = {t1, t2, t3, t4}
  ParsedKeys = {l1, l2}
  Depth = 3
SYMMETRY Symmetry
INVARIANTS PartsAgree OneOwner
PROPERTIES OrderIsKept
