SPECIFICATION Spec
CONSTANT Configs <- MCConfigs
INVARIANTS RetirementsAreExact FilesAreOwned PartitionIsExact
CHECK_DEADLOCK FALSE
