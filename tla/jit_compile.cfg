CONSTANTS
  t1 = t1  t2 = t2
  flat = flat  tree = tree  knot = knot  odd = odd
  a = a  b = b  n = n  x = x  c = c
  NoThread = NoThread
  Threads = {t1, t2}
  Keys = {flat, tree, knot, odd}
  Cells = {a, b, n, x, c}
  Mentions <- MCMentions
  Unknown = {knot, x, odd}
  MaxCalls = 3
  MaxClock = 1
  MaxFaults = 1
SPECIFICATION FairSpec
INVARIANTS TypeOK ParsersLinked FailuresPaid NamedBeforeRun RecordsOrdered
PROPERTIES CallsEnd ImplementsParserCache
