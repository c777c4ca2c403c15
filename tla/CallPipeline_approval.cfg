\* Approvals: two concurrent calls that hold, redeem the same approval or
\* race its grant, its expiry and a cancellation.
SPECIFICATION FairSpec
CONSTANTS
  Sessions = {s1, s2}
  Args = {x, y}
  ApprovalIds = {i1}
  ChallengeIds = {}
  Codes = {}
  Nonces = {}
  Policies = {p1}
  Granting = {p1}
  Signed = FALSE
  HasFactor = FALSE
  Admin = Admin
  None = None
  MaxCalls = 2
  MaxChanges = 0
INVARIANTS
  RecordedBeforeForwarded
  ReviewedAsHeld
PROPERTIES
  GrantSpec
  NoCallHangs
\* The bound on calls stops the system.
CHECK_DEADLOCK FALSE
