SPECIFICATION Spec
CONSTANTS
  p1 = p1
  p2 = p2
  f1 = f1
  f2 = f2
  NoFile = NoFile
  Procs <- MCProcs
  Files <- MCFiles
  UserNames = {"ann"}
  Passwords = {"letmeinroot", "pw"}
  hardcoded_root = "letmeinroot"
  FileNames = {"users.db", "x"}
  MaxDepth = 2
  MaxEntries = 2
SYMMETRY MCSymmetry
INVARIANTS
  SessionIsAnAccount
PROPERTIES
  CreatedKeepsPassword
  OnlyAdminsRemove
