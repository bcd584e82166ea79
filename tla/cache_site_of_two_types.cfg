CONSTANTS
  t1 = t1  t2 = t2
  s1 = s1  s2 = s2  s3 = s3
  p1 = p1  p2 = p2
  k1 = k1  k2 = k2  k3 = k3
  NoThread = NoThread
  NoKey = NoKey
  Threads = {t1, t2}
  Sites = {s1, s2}
  Slots = {p1, p2}
  Keys = {k1, k2, k3}
  Alias <- TwoTypesAtSite
  Unclassifiable = {}
  Uncompilable = {}
  MaxCalls = 2
SPECIFICATION Spec
INVARIANTS ResultIsAliased
