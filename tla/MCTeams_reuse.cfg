SPECIFICATION Spec
CONSTANTS
  N = 3
  ACLSHMEM_MAX_TEAMS = 3
  Programs <- MCAll
  MaxTeams = 4
  MaxFailures = 0
CHECK_DEADLOCK FALSE
INVARIANT NobodyPassesEarly
