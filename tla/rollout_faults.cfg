SPECIFICATION Spec
CONSTANTS
  o1 = o1
  o2 = o2
  n1 = n1
  n2 = n2
  old = old
  new = new
  g1 = g1
  g2 = g2
  p1 = p1
  p2 = p2
  Groups <- OneGroup
  Instances = {o1, n1, n2}
  GroupOf <- InGroup1
  MinSize <- Min1
  MaxSize <- Max4
  Versions = {old, new}
  FirstTarget = new
  InitialVersion <- HalfDone
  Pods = {p1, p2}
  Capacity = 1
  Fallible = {"Drain", "Terminate", "DescribeTemplate", "DescribeGroup", "SetDesired", "Answers"}
  NoNode = NoNode
  NoCache = NoCache
  Unplaced = Unplaced
  Execs = {e1}
  NoExec = NoExec
  NoGroup = NoGroup
  NoInstance = NoInstance
  EagerCordoning = FALSE
  SlowMode = FALSE
  ExcludeFromExternalLoadBalancers = FALSE
  MayTimeOut = FALSE
  MayCrash = TRUE
  Interventions = {"retarget"}
  MaxInterventions = 2
SYMMETRY PodSymmetry
INVARIANTS TypeOK GracefulTermination DrainedMarkTruthful TerminatedMarkTruthful NoRunawayGrowth
PROPERTIES CordonKept LifecycleKept OneScalingPerGroup IncrementsByOne
