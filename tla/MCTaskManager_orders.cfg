SPECIFICATION Spec
CONSTANTS
  main = main
  worker = worker
  h1 = h1
  h2 = h2
  None = None
  Shells <- MCOneShell
  MaxTasks = 3
  MaxCommands = 4
  Handles <- MCTwoHandles
  ShellCommands = {"submit", "kill", "wait", "list", "plain"}
  TaskCommands = {"plain", "submit"}
SYMMETRY MCHandleSymmetry
INVARIANTS
  FreedTaskIsUnused
PROPERTIES
  VerdictIsFinal
  WaitMeansOver
  CrashTakesKillOrWait
CHECK_DEADLOCK FALSE
