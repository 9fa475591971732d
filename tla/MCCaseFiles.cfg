SPECIFICATION MCSpec
CONSTANTS
  Procs = {p1, p2}
  Objs = {o1, o2}
  Ids = {v1, v2}
  MaxSets = 3
  MaxWrites = 4
  Layouts <- MCLayouts
  Entries <- MCEntries
  PesFiles <- MCPesFiles
  Compsets <- MCCompsets
  Jobs <- MCJobs
  Variables <- MCVariables
  ValueSettings <- MCValueSettings
  FullNames <- MCFullNames
  Suites <- MCSuites
  Arguments <- MCArguments
  CommandLines <- MCCommandLines
  BaselineDirs <- MCBaselineDirs
  StatusFiles <- MCStatuses
  Merges <- MCMerges
  Comparisons <- MCComparisons
  UserFiles <- MCUserFiles
  GridFiles <- MCGridFiles
  Environments <- MCEnvironments
  MpirunNodes <- MCMpirunNodes
  Parameters <- MCParameters
  PesAsked <- MCPesAsked
  TestRuns <- MCTestRuns
  UserMods <- MCUserMods
  Clones <- MCClones
  Ensembles <- MCEnsembles
  FileNames <- MCFileNames
SYMMETRY Symmetry
CHECK_DEADLOCK FALSE
INVARIANTS
  FilesInv JobHolds ConfigurationHolds SelectionHolds BaselinesHold NamelistsHold
PROPERTIES NothingDropped
