SPECIFICATION Spec
CONSTANTS
  Words <- MCWords
  XArg <- MCXArg
  CmdLines <- ReadmeCmdLines
  Files <- NoFile
INVARIANT DocumentedUsageRuns
CHECK_DEADLOCK FALSE
