SPECIFICATION FairFromTwoAccounts
CONSTANTS
  Req = {r1, r2}
  Name = {n1, n2}
  Email = {e1, e2}
  None = none
  FreedName = freed_name
  FreedEmail = freed_email
  MaxId = 2
  MaxCeremony = 3
  MaxSession = 3
  MaxCount = 0
  Expiring = {"access", "refresh"}
  Ops = {"signin_finish", "renew", "rename", "delete"}
PROPERTIES EveryRequestReturns AccessEnds
CHECK_DEADLOCK FALSE
