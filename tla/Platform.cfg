SPECIFICATION PlatformSpec
CONSTANTS
  Users = {u1, u2}
  Openers = {u1}
  Copiers = {u2}
  Paths = {p1, p2}
  Files = {f1, f2}
  Fds = {3, 4, 5}
  Data = {New}
  OpenModes = {"r+", "a"}
  Old = Old
  Hole = Hole
  BufferSize = 2
  MaxLength = 2
  None = None
  Threads = {a, b}
  Nothing = Nothing
  Blocks = {1, 2}
  Numbers = {1, 2}
  MaxAddresses = 2
SYMMETRY Symmetry
INVARIANTS NoDescriptorLeak AppendsSurvive EachHasOneOwner RunningIsHeld StartedFirst ErrorIsOfTheCall
PROPERTIES CopyIsFaithful
