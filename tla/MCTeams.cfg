SPECIFICATION FairSpec
CONSTANTS
  N = 3
  ACLSHMEM_MAX_TEAMS = 3
  Programs <- MCAll
  MaxTeams = 4
  MaxFailures = 1
CHECK_DEADLOCK FALSE
INVARIANTS IndicesAreTheTeams TeamIsTheSubset GridIsAGrid AlikeNobodyPassesEarly
PROPERTY AlikeEveryoneEnds
