SPECIFICATION FairScenarioSpec
CONSTANTS
  Exit = Exit
  Hash <- ChainHash
  Task <- ChainTask
  HashOf <- ChainHashOf
  DirectParents <- ChainParents
  HeaderOnlyTask <- Nothing
  TrustedTask <- Nothing
  HeaderFault <- SoundHeaders
  BodyFault <- ChainBodies
  UtxoInvalid <- Nothing
  Work <- ChainWork
  FinalityPoint <- Genesis
  KnownStatus <- OnlyGenesis
  Scenarios <- ChainScenarios
PROPERTIES
  EveryBlockAnswered
  ShutdownCompletes
CHECK_DEADLOCK FALSE
