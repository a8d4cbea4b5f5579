\* Two lists and the one Sort makes, six nodes in all.
CONSTANTS
  Lists = {a, b}
  Temp = Temp
  Items = {1, 2}
  Addrs = {1, 2, 3, 4, 5, 6}
  MaxNodes = 4
  Null = Null
  Fresh <- MCFresh
SPECIFICATION FairSpec
INVARIANTS RingsAreWhole NodesAreOwned
PROPERTIES ImplementsCursorList CallsReturn
