SPECIFICATION FairSpec
CONSTANTS
  u1 = u1
  Upstream = {u1, u2, u3, u4}
  NoUpstream = NoUpstream
  Backup = {u4}
  MaxConns <- MCMaxConns
  Request = {r1}
  Codex = {u1}
  ClaudeCode = {u2}
  Responses = {u1}
  MaxRetries = 1
  RetryOn = {"failed", "lost"}
  ReloadBudget = 1
INVARIANT
  RetriesFollowPolicy
PROPERTY
  RequestEnds
