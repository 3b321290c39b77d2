\* An owner gate and a step that may ask, or be sent back to the gate.
SPECIFICATION MCSpec
CONSTANTS
  None = None
  f1 = f1
  f2 = f2
  s_go = s_go
  s_code = s_code
  s_fix = s_fix
  s_review = s_review
  s_pr = s_pr
  s_merge = s_merge
  t_code = t_code
  Steps <- GateSteps
  Flow <- GateFlow
  Tags = {t_code}
  Families = {f1}
  TransientRetries = 1
  Start = s_go
  AdapterKinds = {"transient", "capability"}
  WorkerKinds = {"owner_question", "scope_change"}
  MaxOwner = 4
INVARIANTS
  SoleWorker
  RunConsistent
  RerunsBounded
PROPERTIES
  NoTaintedAcceptance
  FreshConsent
  CancelIsTerminal
  FreshAttemptNumbers
  AnswerKept
CHECK_DEADLOCK FALSE
