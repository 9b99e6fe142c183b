CONSTANT
    Files <- MCFiles
    U32Max = 4
SPECIFICATION Spec
INVARIANTS TypeOK SecondPassFits RecordsReadBack BytesAccounted DecodersAgree RunningFollowsChannel SemanticRecordsMatch
PROPERTY EveryStepReads
CHECK_DEADLOCK FALSE
