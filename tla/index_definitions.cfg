CONSTANTS
  Units = 2
  Entries <- MCEntries
  NoName = NoName
  MaxEntries = 6
SPECIFICATION Spec
INVARIANTS TypeOK IndexIsComplete OneRedirect FirstWins
