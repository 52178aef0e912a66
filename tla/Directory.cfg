SPECIFICATION FairSpec
CONSTANTS
  Entries <- MCEntries
  Kinds <- MCKinds
  Sizes <- MCSizes
  Parents <- MCParents
  Places <- MCPlaces
  Window = 1
  MaxFaults = 1
  MaxEdits = 1
INVARIANTS TypeOK AnnouncedIsWhole FailsForAReason DeliveredIsArchive
PROPERTIES NothingPartial SessionEnds
