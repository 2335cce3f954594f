\* Two servers are presented the same codes and refresh tokens.
SPECIFICATION Spec
CONSTANTS
  Instances = {s1, s2}
  s1 = s1
  s2 = s2
  Clients = {c1}
  c1 = c1
  Scopes = {"read", "write"}
  Asked <- ReadOrAll
  Policies <- OnePolicy
  CodeTTL = 1
  AccessTTL = 2
  RefreshTTL = 3
  RequestTicks = 1
  MaxTime = 1
  MaxArtifacts = 3
CHECK_DEADLOCK FALSE
SYMMETRY Symmetry
INVARIANTS
  TypeOK
  SingleUse
  NoEscalation
PROPERTIES
  KeepsPromise
