CONSTANTS
  Strings <- MCStrings
  Ints <- MCInts
  Members <- MCMembers
  IntBits = 8
  SwitchMin = 4
SPECIFICATION FairSpec
INVARIANTS TypeOK StringsExact IntegersExact MembersFound
PROPERTIES ScanEnds
