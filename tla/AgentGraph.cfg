SPECIFICATION Spec
CONSTANTS
    Agents <- MCAgents
    Ids = {1, 2, 3, 4, 5}
    Ports = {"p", "q"}
    Kinds = {"input", "model", "tool", "output"}
    Names = {"absent", "profile", "calculator"}
    AgentIds = {"own", "other"}
    DraftId = "own"
    MaxChanges = 2
INVARIANT VerdictsAgree
CHECK_DEADLOCK FALSE
