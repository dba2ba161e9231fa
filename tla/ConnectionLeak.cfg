SPECIFICATION Spec
CONSTANTS
  u1 = u1
  Upstream = {u1, u2}
  NoUpstream = NoUpstream
  Backup = {}
  MaxConns <- MCMaxConns
  Request = {r1, r2}
  Codex = {u1}
  ClaudeCode = {u2}
  Responses = {u1}
  MaxRetries = 1
  RetryOn = {"failed"}
  ReloadBudget = 1
SYMMETRY Symmetry
INVARIANT
  ConnectionsReturned
