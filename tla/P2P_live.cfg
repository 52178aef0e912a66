SPECIFICATION FairSpec
CONSTANTS
  Byte <- MCByte
  Zero = 0
  FileChunkSize = 2
  Contents <- Live
  Archives <- Live
  ArchiveNames = {TRUE, FALSE}
  Temps = {t1, t2}
  NoTemp = NoTemp
  RandomID = RandomID
  NoFile = NoFile
  Window = 1
  MaxFaults = 1
  MaxEdits = 1
PROPERTIES SessionEnds RetriesConverge
