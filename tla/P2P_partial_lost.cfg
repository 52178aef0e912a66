SPECIFICATION Spec
CONSTANTS
  Byte <- MCByte
  Zero = 0
  FileChunkSize = 2
  Contents <- ShortTail
  Archives <- NoArchives
  ArchiveNames = {FALSE}
  Temps = {t1, t2}
  NoTemp = NoTemp
  RandomID = RandomID
  NoFile = NoFile
  Window = 2
  MaxFaults = 1
  MaxEdits = 0
SYMMETRY TempSymmetry
PROPERTIES PartialSurvivesFailure
