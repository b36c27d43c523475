SPECIFICATION Spec
CONSTANTS
  o1 = o1
  o2 = o2
  n1 = n1
  n2 = n2
  old = old
  new = new
  g1 = g1
  g2 = g2
  p1 = p1
  p2 = p2
  Groups <- TwoGroups
  Instances = {o1, o2, n1}
  GroupOf <- InTwoGroups
  MinSize <- Min1
  MaxSize <- Max3
  Versions = {old, new}
  FirstTarget = new
  InitialVersion <- AllThree
  Pods = {p1}
  Capacity = 2
  Fallible = {"Cordon", "ListPods", "PodLag", "Answers"}
  NoNode = NoNode
  NoCache = NoCache
  Unplaced = Unplaced
  Execs = {e1}
  NoExec = NoExec
  NoGroup = NoGroup
  NoInstance = NoInstance
  EagerCordoning = TRUE
  SlowMode = TRUE
  ExcludeFromExternalLoadBalancers = TRUE
  MayTimeOut = FALSE
  MayCrash = FALSE
  Interventions = {}
  MaxInterventions = 1
SYMMETRY PodSymmetry
INVARIANT GracefulTermination
PROPERTY SlowModeStops
