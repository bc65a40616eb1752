SPECIFICATION ScenarioSpec
CONSTANTS
  Exit = Exit
  Hash <- DagHash
  Task <- DagTask
  HashOf <- DagHashOf
  DirectParents <- DagParents
  HeaderOnlyTask <- DagHeaderOnly
  TrustedTask <- DagTrusted
  HeaderFault <- DagHeaders
  BodyFault <- DagBodies
  UtxoInvalid <- DagInvalid
  Work <- DagWork
  FinalityPoint <- Genesis
  KnownStatus <- OnlyGenesis
  Scenarios <- DagScenarios
INVARIANTS
  VerdictsStayTrue
  NoSpuriousMissingParents
  VirtualIsBest
PROPERTY
  StagesRefine
CHECK_DEADLOCK FALSE
