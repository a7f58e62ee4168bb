---------------------------- MODULE MCDraftEditor ---------------------------
(* The studio in two tabs, and the pages where one logs in and deletes the   *)
(* workspace.                                                                *)
EXTENDS DraftEditor

CONSTANTS t1, t2, p1, p2

MCTabs == {t1, t2}
MCPages == {p1, p2}
MCEditorClients == {<<t1, "save">>, <<t1, "again">>, <<t1, "preview">>, <<t2, "save">>}
MCClients == MCEditorClients \cup MCPages

\* Four stories: two tabs, of which one previews; one tab that saves twice at
\* once; one tab and a page, where the workspace is deleted and set up anew;
\* two pages, of which one logs in while the other deletes.
\* What a story does without is closed, and what it may not do is used up.
Old == [Session(1) EXCEPT !.expired = TRUE]
Story(open, old, ownersUsed, lossesUsed, editsUsed) ==
    /\ owners = {1}
    /\ setups = ownersUsed
    /\ sessions = Append(old, Session(1))
    /\ cookie = Len(sessions)
    /\ req = [c \in Clients |-> IF c \in open THEN NoRequest
                               ELSE [NoRequest EXCEPT !.at = "closed"]]
    /\ losses = lossesUsed
    /\ draft = [owner |-> 1, rows |-> <<Row(0, 0, 1, NoDiff)>>]
    /\ tab = [t \in Tabs |-> NewTab(1, 1, draft.rows[1])]
    /\ job = [c \in EditorClients |-> NoJob]
    /\ made = [t \in Tabs |-> Made(0, 0)]
    /\ edits = editsUsed

Two   == Story({<<t1, "save">>, <<t1, "preview">>, <<t2, "save">>}, <<Old>>, MaxOwners, MaxLosses, 0)
Twice == Story({<<t1, "save">>, <<t1, "again">>}, <<Old>>, MaxOwners, 0, 0)
Anew  == Story({<<t1, "save">>, p1}, <<>>, 1, MaxLosses, MaxEdits - 1)
Race  == Story({p1, p2}, <<>>, MaxOwners, MaxLosses, MaxEdits)

MCSpec == (Two \/ Twice \/ Anew \/ Race) /\ [][Next]_vars /\ Fairness

=============================================================================
