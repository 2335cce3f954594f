\* One server; policy.yaml is edited and the server restarted.
SPECIFICATION Spec
CONSTANTS
  Instances = {s1}
  s1 = s1
  Clients = {c1}
  c1 = c1
  Scopes = {"read", "write"}
  Asked <- WriteOnly
  Policies <- TwoPolicies
  CodeTTL = 2
  AccessTTL = 1
  RefreshTTL = 4
  RequestTicks = 1
  MaxTime = 5
  MaxArtifacts = 4
CHECK_DEADLOCK FALSE
INVARIANTS
  EditedPolicyHolds
PROPERTIES
  RevokedNotRedeemed
  NoRevival
