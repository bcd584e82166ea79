CONSTANTS
  word = word  node = node  next = next  link = link  decl = decl
  alias = alias  cell = cell  bare = bare  hbox = hbox  vec = vec
  tree = tree  map = map  shape = shape  either = either  text = text  orphan = orphan
  broken = broken  outer = outer
  NoDie = NoDie
  NoSize = NoSize
  Dies = {word, node, next, link, decl, alias, cell, bare, hbox, vec, tree, map, shape, either, text, orphan, broken, outer}
  UnitOf <- MCUnitOf
  OffsetOf <- MCOffsetOf
  Shape <- MCShape
  Target <- MCTarget
  Parts <- MCParts
  Empty <- MCEmpty
  Size <- MCSize
  Stubs = {decl, orphan}
  Definition <- MCDefinition
  Unreadable = {broken}
  MaxRoots = 1
SPECIFICATION Spec
INVARIANTS AbsentKeyMeansNone
