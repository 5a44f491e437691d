SPECIFICATION MCSpec
CONSTANTS
  Parts = {"index", "lists", "ranges", "context", "graph", "base", "inputs", "chain"}
  Keys = {1, 2, 3, 4}
  Values = {a, b}
  None = None
  VersionLimit = 4
  MINIMUM_PREFETCH_LENGTH = 2
  MAXIMUM_PREFETCH_LENGTH = 3
  Nodes = {n1, n2, n3, n4}
  Lists = {"dead", "alive"}
  NoNode = NoNode
  MaxLine = 2
  MaxSubsort = 1
  Ids = {1, 2, 3}
  Spaces = 2
  Size = 2
  Variables = {x, y}
  Settings = {0, 1}
  MaxEdits = 2
  GraphOps = {g1, g2}
  GraphOp = g
  Vns = {1, 2, 3}
  Op1 = c1
  Op2 = c2
  Op3 = c3
SYMMETRY Symmetry
INVARIANTS RegionsAreExact RestoredIsTheSame WindowIsTransparent SearchesAreExact GraphAgrees InputsDisjoint ChainDestroyed
PROPERTIES RefinesOrderedMap RefinesNodeLists
