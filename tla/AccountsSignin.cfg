SPECIFICATION Spec
CONSTANTS
  Req = {r1, r2}
  Name = {n1}
  Email = {e1}
  None = none
  FreedName = freed_name
  FreedEmail = freed_email
  MaxId = 1
  MaxCeremony = 2
  MaxSession = 2
  MaxCount = 1
  Expiring = {}
  Ops = {"signup_start", "signup_finish", "signin_start", "signin_finish", "update", "delete"}
INVARIANTS SigninChecksCount
CHECK_DEADLOCK FALSE
