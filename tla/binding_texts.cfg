CONSTANTS
  Docs <- TextDocs
  Phrases <- TextPhrases
  Types <- TextTypes
  Cells <- MCCells
  Bodies <- MCCells
  Texts <- EscapedTexts
  Chars = {"e'"}
  Depth = 1
SPECIFICATION Spec
INVARIANTS BuildsTexts
