SPECIFICATION SessionsSpec
CONSTANTS
  Emails = {e1}
  SignupKinds = {"buyer", "ops"}
  HttpCalls = {c1, c2}
  Limit <- MCLimit
  Window <- MCWindow
  SessionTTL = 1
  MaxUsers = 2
  MaxSessions = 1
INVARIANTS
  OneAccountPerEmail
  OnlySignedInAct
  
PROPERTIES
  LimitLifts
