SPECIFICATION Spec
CONSTANTS
  Words <- MCWords
  XArg <- MCXArg
  CmdLines <- MCCmdLines
  Files <- MCFiles
INVARIANTS
  TypeOK
  OptionsNeedX
  RunsConfigured
  ExitCodeMeans
\* main ends, in an exit or in a running mode
CHECK_DEADLOCK FALSE
