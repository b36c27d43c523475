SPECIFICATION ProcessFairSpec
CONSTANTS
  g1 = g1
  g2 = g2
  ours = ours
  AwsGroups = {g1, g2}
  Page <- TwoPages
  LastPage = 2
  Keys = {"k8s.io/cluster-autoscaler/ours", "enabled", "team"}
  Values = {"owned", "true", "a", "a=b"}
  Missing = Missing
  FirstPart <- SplitOnce
  OwnedKey <- OurKey
  EnabledKey = "enabled"
  Environments <- SomeEnvironments
  TagSets <- SomeTagSets
  Unset = Unset
  MaxRecords = 1
  MaxRetags = 1
  MaximumFailedExecutionBeforePanic = 1
  Turns = 3
INVARIANTS ProcessTypeOK PanicsAfterFailuresInARow
PROPERTIES StartsWithEnabledGroups TurnsEnd GoroutinesEnd
CHECK_DEADLOCK FALSE
