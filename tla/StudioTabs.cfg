SPECIFICATION MCSpec
CONSTANTS
    t1 = t1  t2 = t2  p1 = p1  p2 = p2
    Clients <- MCClients
    Tabs <- MCTabs
    Pages <- MCPages
    EditorClients <- MCEditorClients
    Invalid = {1}
    MaxSessions = 2  MaxExpired = 1  MaxOwners = 2  MaxLosses = 1
    MaxEdits = 2  MaxRevisions = 3
INVARIANTS SessionsAreOwned EditorKeepsWork AppliedWasPreviewed
PROPERTY SavesEnd
CHECK_DEADLOCK FALSE
