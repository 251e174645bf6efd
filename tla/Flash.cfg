SPECIFICATION Spec
CONSTANTS
  SlotCount = 2
  HistoMax = 4
  MaxWh = 2
  MaxDay = 5
  MaxCrash = 1
INVARIANT TypeOK
INVARIANT RestartReadsSaved
INVARIANT HistoryKept
PROPERTY NoHalfRecord
