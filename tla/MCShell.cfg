SPECIFICATION Spec
CONSTANTS
  UserNames = {"root", "guest", "ann", "ann long", "ann longer"}
  Secrets = {"root", "pw", "pw long", ""}
  StoredName <- MCStoredName
  StoredSecret <- MCStoredSecret
  MAX_PROFILES = 4
  DirNames = {"a"}
  DirPaths <- MCPaths
  MaxSiblings = 1
  MaxDirs = 2
  HostFiles = {"drive", "v"}
  Terminal = "terminal"
  Volumes = {"v"}
  Lines <- MCLines
  INIT_FILE = "drive"
  INIT_CLUSTERS = 2
  INIT_SIZE = 1
  MaxSubmitted = 1
CHECK_DEADLOCK FALSE
PROPERTIES
  UnprivilegedChangesNothing
  FailureChangesNothing
  PrivilegeHasAPassword
