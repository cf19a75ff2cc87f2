SPECIFICATION Spec
CONSTANTS
  Files <- MCFiles
  DRIVE = "drive"
  FileOf <- MCFileOf
  CurrentOf <- MCCurrentOf
  INIT_CLUSTERS = 2
  INIT_SIZE = 1
  Data <- MCData
  FILLS = {2}
  BYTE = 3
  Volumes = {"a", "drive"}
  RowCounts = {2, 3, 4}
  Sizes = {1, 2}
  Indexes <- MCIndexes
  Commands = {"mkdisk", "write", "delete", "list"}
  LINE_CELLS = 4
  OpenFails = FALSE
INVARIANTS WroteMeansWritten GeometryIsOfTheDisk FormatChains
PROPERTIES ImplementsBlockStore
