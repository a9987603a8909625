SPECIFICATION EmailSpec
CONSTANTS
  Services = {s1, s2}
  Schemes = {"email_oauth2", "email_password"}
  Providers = {"gmail", "outlook"}
  EnvProviders = {"gmail"}
  States = {f1, f2}
  Agents = {a1}
  GrantIds = {g1, g2}
  Requests = {r1, r2}
  MaxGen = 2
  MaxConsents = 2
  None = None
  Mixes = {{"create", "authorize", "callback", "again", "abort"}, {"create", "authorize", "callback", "expire"}, {"create", "authorize", "callback", "set", "unset", "delete"}, {"create", "set", "patch", "delete"}, {"create", "authorize", "callback", "refresh"}, {"create", "authorize", "configure", "deconfigure", "abort"}, {"create", "delete", "grant", "revoke", "tool", "abort"}}
INVARIANT CredentialsConsistent
INVARIANT FlowExact
INVARIANT TokenJustified
CHECK_DEADLOCK FALSE
SYMMETRY Symmetry
