SPECIFICATION FairSpec
CONSTANTS
  main = main
  worker = worker
  h1 = h1
  h2 = h2
  None = None
  Shells <- MCTwoShells
  MaxTasks = 2
  MaxCommands = 2
  Handles <- MCTwoHandles
  ShellCommands = {"submit", "plain"}
  TaskCommands = {"plain"}
INVARIANTS
  TypeOK
  LiveTaskListed
PROPERTIES
  CommandsReturn
  TasksFinish
CHECK_DEADLOCK FALSE
