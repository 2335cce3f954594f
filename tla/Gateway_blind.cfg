\* Two servers: a ticket is created between the tag and the dispatch.
SPECIFICATION Spec
CONSTANTS
  Instances = {s1, s2}
  s1 = s1
  s2 = s2
  Tokens <- TokenNames
  Holder <- Held
  TokenScopes <- Scopes
  TokenTeams <- TeamClaims
  Teams = {"alpha", "beta"}
  NoTeam = none
  none = none
  Requests <- BlindSpotCalls
  Seeded <- OneBetaTicket
  Capacity = 1
  AuditLimit = 2
  Faulty = {}
  MaxCalls = 3
  MaxCrashes = 0
SYMMETRY Symmetry
CHECK_DEADLOCK FALSE
INVARIANTS
  AuditReadScoped
