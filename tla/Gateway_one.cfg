\* One server; any statement may fail but the one after a write.
SPECIFICATION Spec
CONSTANTS
  Instances = {1}
  Tokens <- TokenNames
  Holder <- Held
  TokenScopes <- Scopes
  TokenTeams <- TeamClaims
  Teams = {"alpha", "beta"}
  NoTeam = none
  none = none
  Requests <- AllCalls
  Seeded <- OneBetaTicket
  Capacity = 1
  AuditLimit = 2
  Faulty = {"arrive", "tag", "dispatch", "update", "tail", "append", "reply"}
  MaxCalls = 2
  MaxCrashes = 1
CHECK_DEADLOCK FALSE
INVARIANTS
  TypeOK
  RowScoped
  DeniedLeavesNoTrace
  AuditReadScoped
