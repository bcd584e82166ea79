CONSTANTS
  sub = sub  near = near  far = far  q = q  x = x  u = u  block = block  y = y  deep = deep  z = z
  inlined = inlined  v = v  w = w  label = label
  tX = tX  tX2 = tX2  tY = tY  tU = tU
  NoDie = NoDie
  NoType = NoType
  Dies <- MCDies
  Subprogram = sub
  Subprograms <- MCSubprograms
  Code <- MCCode
  Kids <- MCKids
  Tag <- MCTag
  TypeOf <- MCTypeOf
  NameOf <- MCNameOf
  MaybeUninits <- MCMaybeUninits
  Live <- MCLive
  Pcs = {1, 2, 3}
  Locations <- MCLocations
  FrameBases <- MCFrameBases
  Fp = 6
  Sp = 5
  WordBits = 3
  GroupBits = 2
  MaxDepth = 1
SPECIFICATION FairSpec
INVARIANTS TypeOK FindsWanted RightType
PROPERTIES HuntEnds
