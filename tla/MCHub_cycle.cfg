\* A cycle bounded by nothing but the merge gate.
SPECIFICATION MCSpec
CONSTANTS
  None = None
  f1 = f1
  f2 = f2
  s_go = s_go
  s_code = s_code
  s_fix = s_fix
  s_review = s_review
  s_pr = s_pr
  s_merge = s_merge
  t_code = t_code
  Steps <- CycleSteps
  Flow <- CycleFlow
  Tags = {t_code}
  Families = {f1}
  TransientRetries = 1
  Start = s_pr
  AdapterKinds = {"transient"}
  WorkerKinds = {"test_defect"}
  MaxOwner = 1
PROPERTIES
  MergeGateDecides
CHECK_DEADLOCK FALSE
