---------------------------- MODULE DraftEditor -----------------------------
(***************************************************************************)
(* The draft editor of the studio: what its pages hold                     *)
(* (DraftWorkspace.tsx, editor-state.ts, BulkDiffPanel.tsx), the requests  *)
(* they send through their session (Sessions), and the draft on the server *)
(* (draft_service.py, repositories/drafts.py).                             *)
(*                                                                         *)
(* An AgentSpec and a layout are numbered as they are made: every edit     *)
(* gives a new one.  Number 0 is what the draft was created with.          *)
(***************************************************************************)
EXTENDS Sessions

CONSTANTS
    Tabs,           \* pages with the editor
    EditorClients,  \* the requests a tab can have in flight, <<tab, kind>>
    Pages,          \* pages to log in and out, and to delete the workspace
    Invalid,        \* numbers of AgentSpecs that validation refuses
    MaxEdits,       \* bound: edits in all
    MaxRevisions    \* bound: revisions of the draft

\* The canvas can unlock an editor whose save is in flight, so that a tab sends
\* a save "again" beside the first.
ASSUME EditorAssumption ==
    /\ EditorClients \subseteq Tabs \X {"save", "again", "preview"}
    /\ Clients = EditorClients \cup Pages /\ Pages \cap EditorClients = {}

VARIABLES
    draft,          \* [owner, rows]: the owner's draft, all revisions it had
    tab,            \* tab[t]: DraftEditorState and the bulk panel
    job,            \* job[c]: what a request of a tab has submitted
    made,           \* made[t]: the AgentSpec and layout the user has made, and
                    \* whether a bulk change has overtaken him
    edits           \* how many he has made in all

vars == <<sessionVars, draft, tab, job, made, edits>>

None == -1
NoDiff == [against |-> 0, of |-> None]

\* A revision: what was saved, by which owner, and the diff that was shown
\* before, if it is a bulk change.
Row(spec, layout, by, diff) == [spec |-> spec, layout |-> layout, by |-> by, diff |-> diff]
NoDraft  == [owner |-> 0, rows |-> <<>>]
Revision == Len(draft.rows)

\* text is the text of the bulk panel, None while it follows the editor;
\* candidate and diff are those of the last preview.
NewPanel == [text |-> None, candidate |-> None, diff |-> NoDiff, busy |-> "none"]
NewTab(of, revision, row) ==
    [of |-> of, revision |-> revision, spec |-> row.spec, layout |-> row.layout,
     dirty |-> FALSE, status |-> "idle", panel |-> NewPanel]

\* over: the AgentSpec in the editor when the request was made.
\* replace: a bulk change, which takes the place of what is in the editor.
\* saved: the revision the server has made of it.
Job(base, over, spec, layout, replace, diff) ==
    [base |-> base, over |-> over, spec |-> spec, layout |-> layout,
     replace |-> replace, diff |-> diff, saved |-> 0]
NoJob == Job(0, 0, 0, 0, FALSE, NoDiff)

Made(spec, layout) == [spec |-> spec, layout |-> layout, overtaken |-> FALSE]

\* Nobody has been set up, no page has been loaded.
Init ==
    /\ SessionInit
    /\ draft = NoDraft
    /\ tab = [t \in Tabs |-> NewTab(0, 0, Row(0, 0, 0, NoDiff))]
    /\ job = [c \in EditorClients |-> NoJob]
    /\ made = [t \in Tabs |-> Made(0, 0)]
    /\ edits = 0

-----------------------------------------------------------------------------
(* The user of a tab.  The workbench and the bulk panel are inert while a  *)
(* save is in flight; what the canvas reports late, a drag or a zoom that  *)
(* was begun before, still arrives, and unlocks the editor.                *)

Locked(t) == tab[t].status = "saving"
Ready(t)  == tab[t].revision # 0
InFlight  == {c \in EditorClients : req[c].work # "none"}

Update(t, new) == tab' = [tab EXCEPT ![t] = new]
NewEdit == edits < MaxEdits /\ edits' = edits + 1

SemanticEdit(t) ==
    /\ Ready(t) /\ ~ Locked(t) /\ NewEdit
    /\ Update(t, [tab[t] EXCEPT !.spec = edits + 1, !.dirty = TRUE, !.status = "idle"])
    /\ made' = [made EXCEPT ![t].spec = edits + 1]
    /\ UNCHANGED <<sessionVars, draft, job>>

MoveNode(t) ==
    /\ Ready(t) /\ NewEdit
    /\ Update(t, [tab[t] EXCEPT !.layout = edits + 1, !.dirty = TRUE, !.status = "idle"])
    /\ made' = [made EXCEPT ![t].layout = edits + 1]
    /\ UNCHANGED <<sessionVars, draft, job>>

\* Whatever was previewed before is forgotten.
TypeCandidate(t) ==
    /\ Ready(t) /\ ~ Locked(t) /\ NewEdit
    /\ Update(t, [tab[t] EXCEPT !.panel.text = edits + 1, !.panel.candidate = None,
                                !.panel.diff = NoDiff])
    /\ UNCHANGED <<sessionVars, draft, job, made>>

\* save, of the editor or of a bulk change.
Submit(c, new, j) ==
    /\ c[2] # "preview" /\ Revision + Cardinality(InFlight) < MaxRevisions
    /\ Ask(c, "save")
    /\ job' = [job EXCEPT ![c] = j]
    /\ Update(c[1], [new EXCEPT !.status = "saving"])
    /\ UNCHANGED <<auth, losses, draft, made, edits>>

ClickSave(c) ==
    LET t == c[1]
    IN  /\ tab[t].dirty /\ ~ Locked(t)
        /\ Submit(c, tab[t], Job(tab[t].revision, tab[t].spec, tab[t].spec, tab[t].layout, FALSE,
                              NoDiff))

ClickApply(c) ==
    LET t == c[1]   p == tab[t].panel
    IN  /\ ~ Locked(t) /\ p.diff # NoDiff /\ p.busy = "none"
        /\ Submit(c, [tab[t] EXCEPT !.panel.busy = "apply"],
                  Job(tab[t].revision, tab[t].spec, p.candidate, tab[t].layout, TRUE, p.diff))

ClickPreview(c) ==
    LET t == c[1]   p == tab[t].panel
    IN  /\ c[2] = "preview" /\ Ready(t) /\ ~ Locked(t) /\ p.busy = "none"
        /\ Ask(c, "preview")
        /\ Update(t, [tab[t] EXCEPT !.panel.busy = "preview", !.panel.diff = NoDiff])
        /\ job' = [job EXCEPT ![c] = Job(tab[t].revision, tab[t].spec,
                                         IF p.text = None THEN tab[t].spec ELSE p.text,
                                         0, FALSE, NoDiff)]
        /\ UNCHANGED <<auth, losses, draft, made, edits>>

-----------------------------------------------------------------------------
(* The server, and the tab when it hears of it.                            *)

\* update validates first and looks at the row, under its lock, then;
\* preview_diff looks at the row first.
Invalidity(c) == IF job[c].spec \in Invalid THEN "agent_spec_invalid" ELSE "ok"
RowRefusal(c) ==
    IF draft.owner # req[c].owner THEN "agent_draft_not_found"
    ELSE IF job[c].base # Revision THEN "agent_draft_revision_conflict" ELSE "ok"
Refusal(c) ==
    IF req[c].work = "save"
    THEN IF Invalidity(c) # "ok" THEN Invalidity(c) ELSE RowRefusal(c)
    ELSE IF RowRefusal(c) # "ok" THEN RowRefusal(c) ELSE Invalidity(c)

PutDraft(c) ==
    LET j == job[c]
    IN  /\ Works(c, "save")
        /\ Answer(c, Refusal(c))
        /\ IF Refusal(c) = "ok"
             THEN /\ draft' = [draft EXCEPT !.rows = Append(@, Row(j.spec, j.layout,
                                                                   req[c].owner, j.diff))]
                  /\ job' = [job EXCEPT ![c].saved = Revision + 1]
             ELSE UNCHANGED <<draft, job>>
        /\ UNCHANGED <<auth, losses, tab, made, edits>>

PreviewDiff(c) ==
    /\ Works(c, "preview")
    /\ Answer(c, Refusal(c))
    /\ UNCHANGED <<auth, losses, draft, tab, job, made, edits>>

\* save-succeeded: an editor that has moved on since keeps what is in it.  The
\* bulk panel is another one for another revision.
M_MovedOn(t, j) == FALSE
MovedOn(t, j) == ~ j.replace /\ (tab[t].spec # j.spec \/ tab[t].layout # j.layout)
M_Panel(t) == tab[t].panel
Panel(t) == NewPanel
Saved(t, c) ==
    LET j == job[c]
        new == [tab[t] EXCEPT !.of = req[c].owner, !.revision = j.saved, !.panel = Panel(t)]
    IN  IF MovedOn(t, j) THEN [new EXCEPT !.dirty = TRUE, !.status = "idle"]
        ELSE [new EXCEPT !.spec = j.spec, !.layout = j.layout, !.dirty = FALSE,
                         !.status = "saved"]

\* A panel that is not the one that has asked any more hears nothing.
M_Failed(t, c) == tab[t]
Failed(t, c) ==
    [tab[t] EXCEPT !.status = IF req[c].code = "agent_draft_revision_conflict" THEN "conflict"
                              ELSE "error",
                   !.panel  = IF ~ job[c].replace \/ tab[t].revision # job[c].base THEN @
                              ELSE [@ EXCEPT !.candidate = None, !.diff = NoDiff,
                                             !.busy = "none"]]

\* What the user makes while his bulk change is under way it does not replace
\* at his wish.
EditedSince(t, j) == tab[t].spec # j.over \/ tab[t].layout # j.layout
MadeByAnswer(t, j) ==
    IF EditedSince(t, j) THEN [made EXCEPT ![t].overtaken = TRUE]
    ELSE [made EXCEPT ![t] = Made(j.spec, j.layout)]

SaveAnswered(c) ==
    LET t == c[1]   j == job[c]
    IN  /\ At(c, "answered") /\ req[c].work = "save"
        /\ Update(t, IF req[c].code = "ok" THEN Saved(t, c) ELSE Failed(t, c))
        /\ made' = IF req[c].code = "ok" /\ j.replace
                   THEN MadeByAnswer(t, j) ELSE made
        /\ Set(c, NoRequest)
        /\ job' = [job EXCEPT ![c] = NoJob]
        /\ UNCHANGED <<auth, losses, draft, edits>>

PreviewAnswered(c) ==
    LET t == c[1]   j == job[c]
        p == [tab[t].panel EXCEPT !.busy = "none"]
    IN  /\ At(c, "answered") /\ req[c].work = "preview"
        /\ Update(t, IF tab[t].revision # j.base THEN tab[t]
                     ELSE [tab[t] EXCEPT !.panel =
                             IF req[c].code # "ok" THEN [p EXCEPT !.candidate = None]
                             ELSE [p EXCEPT !.candidate = j.spec,
                                            !.diff = [against |-> j.base, of |-> j.spec]]])
        /\ Set(c, NoRequest)
        /\ job' = [job EXCEPT ![c] = NoJob]
        /\ UNCHANGED <<auth, losses, draft, made, edits>>

\* create_from_active, once the new owner has imported and activated the agent.
CreateDraft ==
    /\ Live(cookie) /\ sessions[cookie].owner # draft.owner
    /\ draft' = [owner |-> sessions[cookie].owner,
                 rows  |-> <<Row(0, 0, sessions[cookie].owner, NoDiff)>>]
    /\ UNCHANGED <<sessionVars, tab, job, made, edits>>

\* The page is loaded anew, with the draft as it is.
Reload(t) ==
    /\ \A c \in InFlight : c[1] # t
    /\ Live(cookie) /\ sessions[cookie].owner = draft.owner
    /\ Update(t, NewTab(draft.owner, Revision, draft.rows[Revision]))
    /\ made' = [made EXCEPT ![t] = Made(draft.rows[Revision].spec,
                                        draft.rows[Revision].layout)]
    /\ UNCHANGED <<sessionVars, draft, job, edits>>

-----------------------------------------------------------------------------
Deletion(c) ==
    /\ DeleteWorkspace(c)
    /\ draft' = IF draft.owner = req[c].owner THEN NoDraft ELSE draft
    /\ UNCHANGED <<tab, job, made, edits>>

UserStep ==
    \/ \E t \in Tabs : SemanticEdit(t) \/ MoveNode(t) \/ TypeCandidate(t) \/ Reload(t)
    \/ \E c \in EditorClients : ClickSave(c) \/ ClickApply(c) \/ ClickPreview(c)
    \/ \E c \in Pages :
         /\ Bootstrap(c) \/ Login(c)
              \/ (\E work \in {"logout", "delete"} : Ask(c, work) /\ UNCHANGED <<auth, losses>>)
         /\ UNCHANGED <<draft, tab, job, made, edits>>

Goes(c) == (RequestGoes(c) \/ LoginGoes(c)) /\ UNCHANGED <<draft, tab, job, made, edits>>
Served(c) == PutDraft(c) \/ PreviewDiff(c) \/ SaveAnswered(c) \/ PreviewAnswered(c)

Next ==
    \/ UserStep
    \/ CreateDraft
    \/ SessionStep /\ UNCHANGED <<draft, tab, job, made, edits>>
    \/ \E c \in EditorClients : Served(c)
    \/ \E c \in Pages : Deletion(c)

Spec == Init /\ [][Next]_vars

\* A request goes on, and its answer is looked at.
Fairness == \A c \in EditorClients : WF_vars(Goes(c)) /\ WF_vars(Served(c))

-----------------------------------------------------------------------------
Diffs  == [against : Int, of : Int]
Panels == [text : Int, candidate : Int, diff : Diffs, busy : {"none", "preview", "apply"}]
Rows   == [spec : Int, layout : Int, by : Nat, diff : Diffs]
EditorStates ==
    [of : Nat, revision : Nat, spec : Int, layout : Int, dirty : BOOLEAN,
     status : {"idle", "saving", "saved", "conflict", "error"}, panel : Panels]
Jobs == [base : Nat, over : Int, spec : Int, layout : Int, replace : BOOLEAN,
         diff : Diffs, saved : Nat]
MadeStates == [spec : Int, layout : Int, overtaken : BOOLEAN]

TypeOK ==
    /\ draft \in [owner : Nat, rows : Seq(Rows)]
    /\ tab \in [Tabs -> EditorStates]
    /\ job \in [EditorClients -> Jobs]
    /\ made \in [Tabs -> MadeStates]
    /\ edits \in Nat

ShowsWhatWasMade(t) == tab[t].spec = made[t].spec /\ tab[t].layout = made[t].layout

\* What the user has made stays in his editor while saves, of his own and of
\* others, come and go, as long as no bulk change of his is answered that he
\* has edited beside; and an editor that says it is clean shows what the server
\* has at its revision, whatever was edited when.
EditorKeepsWork ==
    \A t \in Tabs :
        /\ ~ made[t].overtaken => ShowsWhatWasMade(t)
        /\ Ready(t) /\ ~ tab[t].dirty /\ tab[t].of = draft.owner =>
             /\ tab[t].revision <= Revision
             /\ tab[t].spec = draft.rows[tab[t].revision].spec
             /\ tab[t].layout = draft.rows[tab[t].revision].layout

\* A bulk change is saved over the revision the diff was shown against, and it
\* is what was shown, however previews, saves and other tabs overlap.
AppliedWasPreviewed ==
    \A r \in DOMAIN draft.rows :
        LET row == draft.rows[r]
        IN  row.diff # NoDiff => row.diff = [against |-> r - 1, of |-> row.spec]

-----------------------------------------------------------------------------
(* The invariant behind them.                                              *)

DraftIsOwned ==
    \/ draft = NoDraft
    \/ draft.owner \in owners /\ Revision >= 1

\* An owner whose draft has been seen: it is the draft there is, or the owner
\* is gone for good.
Known(o) == o \in 1 .. setups /\ (o \in owners => draft.owner = o)

EditorRequests ==
    \A c \in EditorClients :
        /\ req[c].work \in {"none", "save", "preview"}
        /\ req[c].at \notin {"current", "revoke", "create"}
        /\ req[c].work = "preview" => c[2] = "preview" /\ tab[c[1]].panel.diff = NoDiff

\* What a save is answered is what the draft has at its revision.
SaveDone(c) == At(c, "answered") /\ req[c].work = "save" /\ req[c].code = "ok"
SavedIsThere ==
    \A c \in EditorClients : SaveDone(c) =>
        /\ Known(req[c].owner)
        /\ req[c].owner = draft.owner =>
              /\ job[c].saved \in 1 .. Revision
              /\ draft.rows[job[c].saved].spec = job[c].spec
              /\ draft.rows[job[c].saved].layout = job[c].layout

\* A diff that is shown, or submitted with a bulk change, is of the candidate
\* against the revision it goes with.
DiffsAreTrue ==
    /\ \A t \in Tabs : LET p == tab[t].panel IN
          p.diff # NoDiff => p.diff = [against |-> tab[t].revision, of |-> p.candidate]
    /\ \A c \in EditorClients : LET j == job[c] IN
          j.diff # NoDiff => j.diff = [against |-> j.base, of |-> j.spec]

TabsAreKnown == \A t \in Tabs : Ready(t) => Known(tab[t].of)

IInv ==
    /\ SessionInv /\ TypeOK
    /\ DraftIsOwned /\ TabsAreKnown /\ EditorRequests
    /\ SavedIsThere /\ DiffsAreTrue
    /\ EditorKeepsWork /\ AppliedWasPreviewed

-----------------------------------------------------------------------------
\* The editor does not stay locked: every save ends.
SavesEnd == \A t \in Tabs : Locked(t) ~> ~ Locked(t)

=============================================================================
