SPECIFICATION Spec
CONSTANTS
  w1 = w1
  w2 = w2
  v1 = v1
  v2 = v2
  e1 = e1
  e2 = e2
  f1 = f1
  f2 = f2
  Calls = {c1, c2, c3}
  Workspaces = {w1, w2}
  Caller <- OneCaller
  VaultIds = {v1, v2}
  VaultOwner <- VaultOwners
  MetaKeys = {k1, k2}
  MaxPairs = 1
  SecretKeys = {key}
  AgentIds = {a1}
  AgentOwner <- AgentOwners
  EnvIds = {e1, e2}
  EnvOwner <- EnvOwners
  SessionIds = {s1, s2}
  AgentFields = {model, system}
  First = First
  FileIds = {f1, f2}
  FileOwner <- FileOwners
  Hosts = {h1}
  HostOwner <- HostOwners
  ResourceIds = {r1, r2}
  Paths = {p1}
  NoResource = NoResource
  Removed = Removed
  SkillIds = {sk1, sk2}
  SkillOwner <- SkillOwners
  SkillNames = {n1, n2}
  NoFiles = NoFiles
  NoSkill = NoSkill
  GoneSkill = GoneSkill
  Emails = {m1, m2}
  NoUser = NoUser
  Reports = 1
  Kind <- OneSpan
  MaxRetries = 1
  LossyCounters = {"read", "log", "daily", "usage"}
CHECK_DEADLOCK FALSE
INVARIANT OmittedKeysPreserved
