SPECIFICATION Spec
CONSTANTS
  Disk0 <- MCDisk0
  MaxIdParts = 3
  Files <- MCFiles
  Texts <- MCTexts
  Rosters <- MCRosters
  Roles <- MCRoles
  Protocols <- MCProtocols
  Dockerfiles <- MCDockerfiles
  Commits <- MCCommits
  HostPath <- MCHostPath
  HostLines <- MCHostLines
  Catalogues <- MCCatalogues
  FixedRoots <- MCFixedRoots
  Moves <- MCMoves
  MaxInputs = 4
  MaxEdits = 2
INVARIANTS
  CommittedIsCoherent
  
  SystemIsWired
  RefreshReadsOneDirectory
  RefreshFindsItsTeam
CHECK_DEADLOCK FALSE
