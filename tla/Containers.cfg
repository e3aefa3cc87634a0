SPECIFICATION ContainersSpec
CONSTANTS
  k1 = k1
  k2 = k2
  k3 = k3
  k4 = k4
  Keys = {k1, k2, k3, k4}
  Values = {v1, v2}
  Hash <- SomeHash
  Nodes = {n1, n2, n3, n4}
  InitialBuckets = 2
  None = None
  Elements = {a, b}
  Junk = Junk
  ElementSize = 2
  Width = 32
  MaxBlock = 15
  InitialCapacity = 2
  Reservations = {0, 3, 6, 15, 16, 17}
SYMMETRY Symmetry
INVARIANTS CountAndLoad NoLeak CapacityIsReal NoJunk
PROPERTIES PointersStay ImplementsDictionary ImplementsListSpec
