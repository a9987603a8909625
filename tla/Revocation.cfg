SPECIFICATION FairSpec
CONSTANTS
  Agents = {a1}
  Proxies = {p1}
  Requests = {r1}
  Calls = {c1}
  Jtis = {j1, j2}
  Forms = {"uuid", "wire"}
  TTLs = {1}
  MaxTTL = 2
  Skew = 1
  PerSecond = 2
  Capacity = 1
  MaxKeys = 2
  MaxInbox = 1
  Faults = {"drop","ping","restart"}
INVARIANT TypeOK
INVARIANT RevokedRefused
INVARIANT OnlyInFlightOutlives
PROPERTY RevokedLockedOut
