SPECIFICATION NetworkSpec
CONSTANTS
  Timeout = 4
  MaxDrops = 2
  InitTimeout = 2
  Publications = 3
  MaxCuts = 2
INVARIANTS
  TypeOK
  TrueMeansTime
  BitsExclude
  ReportedBeforeDeleted
  AwsTypeOK
  NoGaps
  PublishesOnItsSession
PROPERTIES
  BootEnds
CHECK_DEADLOCK FALSE
