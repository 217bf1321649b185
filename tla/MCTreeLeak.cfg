\* An assignment from a list that has a key twice, to a set or map.
CONSTANTS
  Nodes = {1, 2, 3}
  Keys = {1, 2}
  End = end
  Null = null
  Programs <- SmallMap
  MaxLost = 1
  HashNodes = {h1, h2, h3, h4}
  Containers = {c1, c2}
  c1 = c1
  c2 = c2
  HashKeys = {1, 2, 3}
  HashTags = {1, 2, 3, 4}
  MaxDropped = 1
SPECIFICATION ContainersSpec
INVARIANTS
  NothingLost
