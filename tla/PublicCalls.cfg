SPECIFICATION MCSpec
CONSTANTS
  a1 = a1
  a2 = a2
  a3 = a3
  k1 = k1
  k2 = k2
  k3 = k3
  k4 = k4
  Agents <- MCAgents
  AgentKey <- MCAgentKey
  Project <- MCProject
  Keys <- MCKeys
  KeyAgent <- MCKeyAgent
  KeyScopes <- MCKeyScopes
  KeyLife <- MCKeyLife
  Buckets <- MCBuckets
  Calls <- MCCalls
  Requests <- MCRequests
  Refuses <- MCRefuses
  Limit = 1
  Window = 1
  CapabilityTTL = 2
  SyncWait = 1
  MaxVersions <- MCMaxVersions
  MaxMoves = 1
  MaxNow = 1
INVARIANTS WindowHolds OneRunPerKey GivenIsOwn DeadBearerOpensNothing RefusedLeavesNoRun
PROPERTY CallsAreAnswered
CHECK_DEADLOCK FALSE

