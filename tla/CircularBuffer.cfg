SPECIFICATION BothForms
CONSTANTS
  Size = 4
  Entry <- MCEntry
  Blank <- MCBlank
  SameKey <- MCSameKey
  MovesWhole <- MCMovesWhole
  Spoilt <- MCSpoilt
  Value = {1, 2}
  Newline = 3
  Bulk <- MCBulk
INVARIANTS
  TypeOK
  CounterAgrees
  StoredIsWritten
  ApartOnceStrayed
PROPERTIES
  DequeKept
  RemovesItsOwn
  KeepsValues
