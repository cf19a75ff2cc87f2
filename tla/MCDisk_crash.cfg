SPECIFICATION Spec
CONSTANTS
  Files <- MCFiles
  DRIVE = "drive"
  FileOf <- MCFileOf
  CurrentOf <- MCCurrentOf
  INIT_CLUSTERS = 2
  INIT_SIZE = 1
  Data <- MCOneDatum
  FILLS = {2}
  BYTE = 3
  Volumes = {"drive"}
  RowCounts = {1, 3}
  Sizes = {1, 2}
  Indexes <- MCIndexes
  Commands = {"mkdisk", "init", "write", "delete", "list", "crash"}
  LINE_CELLS = 4
  OpenFails = TRUE
INVARIANTS RowsLabelledInOrder
