\* One call whose own re-fetch finds breaking drift.
SPECIFICATION Spec
CONSTANTS
  Sessions = {s1}
  Args = {x}
  ApprovalIds = {}
  ChallengeIds = {}
  Codes = {}
  Nonces = {}
  Policies = {p1, p2}
  Granting = {p1}
  Signed = FALSE
  HasFactor = FALSE
  Admin = Admin
  None = None
  MaxCalls = 1
  MaxChanges = 1
INVARIANTS
  OwnDriftBlocks
\* The bound on calls stops the system.
CHECK_DEADLOCK FALSE
