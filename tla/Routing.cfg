SPECIFICATION Spec
CONSTANTS
  Urls = {u1, u2}
  Schemes = {"bearer_token", "ssh_password"}
  SshSchemes = {"ssh_password"}
  Requests = {x1, x2}
  None = None
CHECK_DEADLOCK FALSE
INVARIANT RoutesConsistent
INVARIANT AddressInSync
