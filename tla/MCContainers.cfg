CONSTANTS
  Nodes = {1, 2, 3, 4, 5, 6, 7, 8}
  Keys = {1, 2, 3, 4, 5, 6, 7, 8}
  End = end
  Null = null
  Programs <- TreePrograms
  MaxLost = 1
  HashNodes = {h1, h2, h3, h4}
  Containers = {c1, c2}
  c1 = c1
  c2 = c2
  HashKeys = {1, 2, 3}
  HashTags = {1, 2, 3, 4}
  MaxDropped = 1
SPECIFICATION ContainersSpec
INVARIANTS
  LinksExact
  RedBlack
  SearchExact
  NodesAccounted
  BucketsExact
PROPERTIES
  ImplementsSortedSequence
  InsertedWhereAsked
  ImplementsEqualGroups
SYMMETRY AnyNames
