SPECIFICATION Spec
CONSTANTS
  t1 = t1
  t2 = t2
  c1 = c1
  A = A
  B = B
  C = C
  Templates = {t1, t2}
  Numbers = {"1", "2"}
  DefaultVersion <- First
  LatestVersion <- Second
  Configurations = {c1}
  Nothing = Nothing
  Types = {A, B, C}
  Policies <- AllPolicies
  Size = 2
  DescribeFails = TRUE
INVARIANTS TypeOK MisjudgesOnlyHeirs UniformPoliciesAreSafe
CHECK_DEADLOCK FALSE
