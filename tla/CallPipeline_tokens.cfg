\* Nonces, challenges and TOTP codes used by two concurrent calls, while the
\* policy is swapped, the tool drifts or the gateway restarts.
SPECIFICATION Spec
CONSTANTS
  Sessions = {s1, s2}
  Args = {x}
  ApprovalIds = {}
  ChallengeIds = {c1, c2}
  Codes = {k1}
  Nonces = {n1}
  Policies = {p1, p2}
  Granting = {p1}
  Signed = FALSE
  HasFactor = TRUE
  Admin = Admin
  None = None
  MaxCalls = 2
  MaxChanges = 1
INVARIANTS
  BandsRespected
  TokensAnswerOnce
  PermittedWhileRunning
\* The bound on calls stops the system.
CHECK_DEADLOCK FALSE
