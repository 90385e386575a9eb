SPECIFICATION Spec
CONSTANTS
  Req = {r1, r2}
  Name = {n1, n2}
  Email = {e1, e2}
  None = none
  FreedName = freed_name
  FreedEmail = freed_email
  MaxId = 2
  MaxCeremony = 2
  MaxSession = 2
  MaxCount = 1
  Expiring = {}
  Ops = {"signup_start", "signup_finish", "signin_start", "signin_finish", "update", "delete"}
SYMMETRY Symmetry
INVARIANTS
  Inductive
  OneAccountPerCeremony
  CredentialIffActive
  OneLoginPerAssertion
PROPERTIES
  Atomic
CHECK_DEADLOCK FALSE
