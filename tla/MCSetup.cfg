SPECIFICATION Spec
CONSTANTS
  Builtin <- MCBuiltin
  Remote <- MCRemote
  Alias <- MCAlias
  Procs = {p1, p2}
  Jobs <- MCJobs
  Measured = {80, 120}
  AtFirst <- MCAtFirst
  Env <- PortalEnv
  Blocks = 2
  MaxCommands = 2
  MaxFaults = 1
SYMMETRY Symmetry
INVARIANTS TypeOK SettingsKept FilesWhole TunedWell
CHECK_DEADLOCK FALSE
