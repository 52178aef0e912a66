SPECIFICATION Spec
CONSTANTS
  Entries <- MCEntries
  Kinds <- OneKind
  Sizes <- MCSizes
  Parents <- OneParents
  Places <- NamedPlaces
  Window = 1
  MaxFaults = 0
  MaxEdits = 0
INVARIANTS ExtractedOnReceipt
