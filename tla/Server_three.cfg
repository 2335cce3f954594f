\* Two servers on one database and one over stdio; statements fail, a process dies.
SPECIFICATION ServerSpec
CONSTANTS
  Instances = {s1, s2, c1}
  s1 = s1
  s2 = s2
  c1 = c1
  Stdio = {c1}
  Accepted <- RacingCalls
  Tokens <- TokenNames
  Holder <- Held
  TokenScopes <- Scopes
  TokenTeams <- TeamClaims
  Teams = {"alpha", "beta"}
  NoTeam = none
  none = none
  Requests <- AllCalls
  Seeded <- OneBetaTicket
  Capacity = 1
  AuditLimit = 2
  Faulty = {"arrive", "tag", "readback", "append", "wrap"}
  MaxCalls = 2
  MaxCrashes = 1
SYMMETRY Symmetry
CHECK_DEADLOCK FALSE
INVARIANTS
  RowScoped
  EvidenceOnce
  RevocationCutsOff
  ServerTypeOK
  EveryCallOnRecord
  ChangesTraced
PROPERTIES
  KeepsContract
