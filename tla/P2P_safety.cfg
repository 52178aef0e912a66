SPECIFICATION Spec
CONSTANTS
  Byte <- MCByte
  Zero = 0
  FileChunkSize = 2
  Contents <- Edited
  Archives <- OneArchive
  ArchiveNames = {TRUE, FALSE}
  Temps = {t1, t2, t3}
  NoTemp = NoTemp
  RandomID = RandomID
  NoFile = NoFile
  Window = 2
  MaxFaults = 2
  MaxEdits = 1
SYMMETRY TempSymmetry
INVARIANTS TypeOK HashTracksTemp StateNeverAhead NoProtocolError SenderOkImpliesVerified
  CleanUnlessPadded ReceiverOkIsComplete AckedIsStored
PROPERTIES SavedIsVerified ImplementsVerifiedTransfer
