SPECIFICATION MCBothSpec
CONSTANTS
  a1 = a1
  a2 = a2
  d1 = d1
  d2 = d2
  t1 = t1
  t2 = t2
  t3 = t3
  Agents <- MCTwoAgents
  Digests <- MCDigests
  Tabs <- MCTabs
  MaxSaves = 2
  MaxVersions = 2
  MaxEvents = 2
SYMMETRY MCSymmetry
INVARIANTS VersionsAreNumbered ProvenanceIsTrue LedgerExplainsPointer OnePublisher NoCircle
PROPERTIES StaleNeverWins
