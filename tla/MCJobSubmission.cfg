SPECIFICATION Spec
CONSTANTS
  None = None
  Files <- MCFiles
  Edits <- MCEdits
  Selectors <- MCSelectors
  Commands <- MCCommands
  ClusterDefaults <- MCClusterDefaults
  Aliases <- MCAliases
  Analytics <- MCAnalytics
  SchemaDefaults <- MCSchemaDefaults
  KnownKeys <- MCKnownKeys
  Remote <- MCRemote
  Existing <- MCExisting
  Prints <- MCPrints
  MaxEdits = 1
INVARIANTS
  ExpandedExactly
  JobsSound
  LockReproduces
CHECK_DEADLOCK FALSE
