CONSTANTS
  Docs <- MCDocs
  Phrases <- MCPhrases
  Types <- MCTypes
  Cells <- MCCells
  Bodies <- MCCells
  Texts <- SomeTexts
  Chars = {"a"}
  Depth = 2
SPECIFICATION FairSpec
INVARIANTS TypeOK InBounds OneOwner NothingLeaks BuildsWanted
PROPERTIES ParseEnds
