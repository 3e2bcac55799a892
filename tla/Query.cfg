\* Every kind of GET against both engines, with four writes by others, page after page.
SPECIFICATION Spec
CONSTANTS
  Asks <- MCAsks
  Shapes <- MCShapes
  Number <- MCNumber
  Place <- MCPlace
  MaxDocs = 3
  MaxWrites = 4
INVARIANTS EngineFindsNoMore PagesMissNothing ManyAreBracketed
CHECK_DEADLOCK FALSE
