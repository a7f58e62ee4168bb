----------------------------- MODULE Publishing -----------------------------
(***************************************************************************)
(* Drafts, immutable versions, the traffic pointer and the publication     *)
(* ledger of the agents that share one public agent key, each in a project *)
(* of its own (repositories publishing.py, agents.py and drafts.py, called *)
(* by publishing/service.py, agents/service.py and draft_service.py).      *)
(*                                                                         *)
(* Owners work in tabs.  A tab reads the draft and the pointer by two      *)
(* statements, waits as long as it likes and then sends a request that     *)
(* carries what it read.  A request is a transaction at READ COMMITTED: it *)
(* takes its locks one after the other, sees what has been committed when  *)
(* a statement runs, and writes when it commits; until then it may fail    *)
(* and leave no trace.                                                     *)
(*                                                                         *)
(*   publish, rollback, activate   lock  <project>:<key>:publish           *)
(*   publish, update               the row of the draft                    *)
(*   publish                       lock  public-agent-key:<key>            *)
(*   import_version                lock  <project>:<key>                   *)
(*                                                                         *)
(* so that a publication and an import may number versions at one time;    *)
(* the unique constraints of agent_versions decide between them.           *)
(***************************************************************************)
EXTENDS Naturals, Sequences, SequencesExt, FiniteSets, FiniteSetsExt

CONSTANTS
    Agents,         \* agents of one public key, in different projects
    Digests,        \* the documents; equal digests are equal documents
    Tabs,           \* owners at work
    MaxSaves,       \* bound: how often drafts are created or updated
    MaxVersions,    \* bound: versions that imports and test runs may add to
    MaxEvents       \* bound: publications and rollbacks

ASSUME PublishingAssumption == Agents # {} /\ Digests # {}

VARIABLES
    versions,       \* versions[a]: the rows of agent_versions
    saved,          \* saved[a]: what the draft has been; the last is the row, its place the revision
    active,         \* active[a]: number of the version that gets the traffic, or None
    ledger,         \* ledger[a]: agent_publication_events in the order of their commits
    tab             \* what each tab has read and what its request is doing

vars == <<versions, saved, active, ledger, tab>>

-----------------------------------------------------------------------------
None == 0

\* A version: its number, its document, and the revision of the draft that
\* its provenance names (None for an import).
Versions == [number : Nat \ {0}, digest : Digests, revision : Nat]

\* A row of the ledger.
Events == [type : {"publish", "rollback"}, previous : Nat,
           selected : Nat \ {0}, digest : Digests]

Phases == {"idle", "reading", "ready", "publishing", "draft_locked",
           "key_locked", "importing", "numbered"}

\* revision and active are what the tab has read; digest, number and fresh
\* describe the version that its request is about to select or to insert.
TabStates == [at : Phases, agent : Agents, revision : Nat, active : Nat,
              digest : Digests, number : Nat, fresh : BOOLEAN]

Idle == [at |-> "idle", agent |-> CHOOSE a \in Agents : TRUE,
         revision |-> 0, active |-> None,
         digest |-> CHOOSE d \in Digests : TRUE, number |-> 0, fresh |-> FALSE]

Revision(a) == Len(saved[a])
Draft(a) == Last(saved[a])

Numbers(a) == {v.number : v \in versions[a]}
NextNumber(a) == 1 + Max({0} \cup Numbers(a))
WithDigest(a, d) == {v \in versions[a] : v.digest = d}
WithNumber(a, n) == {v \in versions[a] : v.number = n}

\* Any row of the ledger opens the public route of an agent.
Published(a) == ledger[a] # <<>>
HasPublish(a) == \E i \in DOMAIN ledger[a] : ledger[a][i].type = "publish"

-----------------------------------------------------------------------------
(* Locks are held from the statement that takes them to the commit.        *)

InPublication == {"publishing", "draft_locked", "key_locked"}
Holds(a, phases) == \E t \in Tabs : tab[t].agent = a /\ tab[t].at \in phases

PublishLockFree(a) == ~ Holds(a, InPublication)
M_DraftRowFree(a) == TRUE           \* the draft is read without FOR UPDATE
DraftRowFree(a) == ~ Holds(a, {"draft_locked", "key_locked"})
M_KeyLockFree == TRUE               \* the key is looked up without its lock
KeyLockFree == \A a \in Agents : ~ Holds(a, {"key_locked"})
ImportLockFree(a) == ~ Holds(a, {"numbered"})

-----------------------------------------------------------------------------
(* Bounds.                                                                 *)

MaySave == MapThenSumSet(LAMBDA a : Len(saved[a]), Agents) < MaxSaves
MayImport == MapThenSumSet(LAMBDA a : Cardinality(versions[a]), Agents) < MaxVersions
MayRecord == MapThenSumSet(LAMBDA a : Len(ledger[a]), Agents) < MaxEvents

-----------------------------------------------------------------------------
TabGoes(t, state) == tab' = [tab EXCEPT ![t] = state]
TabEnds(t) == TabGoes(t, Idle)
Unwritten == UNCHANGED <<versions, saved, active, ledger>>

\* The request is refused, or its transaction fails: it leaves no trace.
Refuse(t) == TabEnds(t) /\ Unwritten

Init ==
    /\ versions = [a \in Agents |-> {}]
    /\ saved = [a \in Agents |-> <<>>]
    /\ active = [a \in Agents |-> None]
    /\ ledger = [a \in Agents |-> <<>>]
    /\ tab = [t \in Tabs |-> Idle]

\* get_state reads the draft and, by a statement of its own, the pointer.
ReadDraft(t) ==
    /\ tab[t].at = "idle"
    /\ \E a \in Agents :
          /\ versions[a] # {}
          /\ TabGoes(t, [Idle EXCEPT !.at = "reading", !.agent = a, !.revision = Revision(a)])
    /\ Unwritten

ReadPointer(t) ==
    /\ tab[t].at = "reading"
    /\ TabGoes(t, [tab[t] EXCEPT !.at = "ready", !.active = active[tab[t].agent]])
    /\ Unwritten

\* create_from_active: the first draft is the active version.
CreateDraft(t) ==
    LET a == tab[t].agent IN
    /\ tab[t].at = "ready"
    /\ saved[a] = <<>> /\ active[a] # None /\ MaySave
    /\ \E v \in WithNumber(a, active[a]) : saved' = [saved EXCEPT ![a] = <<v.digest>>]
    /\ TabEnds(t)
    /\ UNCHANGED <<versions, active, ledger>>

M_UpdateDraft(t) ==                 \* the revision is not counted up
    LET a == tab[t].agent IN
    /\ tab[t].at = "ready"
    /\ saved[a] # <<>> /\ tab[t].revision = Revision(a)
    /\ DraftRowFree(a) /\ MaySave
    /\ \E d \in Digests : saved' = [saved EXCEPT ![a] = Append(Front(@), d)]
    /\ TabEnds(t)
    /\ UNCHANGED <<versions, active, ledger>>

\* update: compare-and-swap on the revision, under the lock of the row.
UpdateDraft(t) ==
    LET a == tab[t].agent IN
    /\ tab[t].at = "ready"
    /\ saved[a] # <<>> /\ tab[t].revision = Revision(a)
    /\ DraftRowFree(a) /\ MaySave
    /\ \E d \in Digests : saved' = [saved EXCEPT ![a] = Append(@, d)]
    /\ TabEnds(t)
    /\ UNCHANGED <<versions, active, ledger>>

-----------------------------------------------------------------------------
(* import_version: an uploaded document, or the draft that create_test_run *)
(* has read in a transaction before.                                       *)

Upload(t) ==
    /\ tab[t].at = "idle" /\ MayImport
    /\ \E a \in Agents, d \in Digests :
          TabGoes(t, [Idle EXCEPT !.at = "importing", !.agent = a, !.digest = d])
    /\ Unwritten

TestDraft(t) ==
    LET a == tab[t].agent IN
    /\ tab[t].at = "ready" /\ MayImport
    /\ saved[a] # <<>> /\ tab[t].revision = Revision(a)
    /\ TabGoes(t, [tab[t] EXCEPT !.at = "importing", !.digest = Draft(a)])
    /\ Unwritten

\* A known document is not imported again; another gets the next number.
Number(t) ==
    LET a == tab[t].agent IN
    /\ tab[t].at = "importing"
    /\ ImportLockFree(a)
    /\ IF WithDigest(a, tab[t].digest) # {}
       THEN TabEnds(t)
       ELSE TabGoes(t, [tab[t] EXCEPT !.at = "numbered", !.number = NextNumber(a)])
    /\ Unwritten

M_Insertable(t) == TRUE             \* no unique constraints

\* The unique constraints refuse a document or a number that a publication
\* has inserted since.
Insertable(t) == /\ WithDigest(tab[t].agent, tab[t].digest) = {}
                 /\ WithNumber(tab[t].agent, tab[t].number) = {}

NewVersion(t) == [number |-> tab[t].number, digest |-> tab[t].digest,
                  revision |-> tab[t].revision]

Insert(t) ==
    /\ tab[t].at = "numbered"
    /\ versions' = IF Insertable(t)
                   THEN [versions EXCEPT ![tab[t].agent] = @ \cup {NewVersion(t)}]
                   ELSE versions
    /\ TabEnds(t)
    /\ UNCHANGED <<saved, active, ledger>>

-----------------------------------------------------------------------------
(* activate: the pointer is free to move only before the first event.      *)

M_Activate(t) ==                    \* also when publications have begun
    LET a == tab[t].agent IN
    /\ tab[t].at = "ready"
    /\ PublishLockFree(a)
    /\ active[a] = tab[t].active
    /\ \E n \in Numbers(a) : active' = [active EXCEPT ![a] = n]
    /\ TabEnds(t)
    /\ UNCHANGED <<versions, saved, ledger>>

Activate(t) ==
    LET a == tab[t].agent IN
    /\ tab[t].at = "ready"
    /\ PublishLockFree(a)
    /\ ~ Published(a) /\ active[a] = tab[t].active
    /\ \E n \in Numbers(a) : active' = [active EXCEPT ![a] = n]
    /\ TabEnds(t)
    /\ UNCHANGED <<versions, saved, ledger>>


\* What publish_draft and rollback write in one transaction.
Select(a, type, previous, version) ==
    /\ active' = [active EXCEPT ![a] = version.number]
    /\ ledger' = [ledger EXCEPT ![a] =
                    Append(@, [type |-> type, previous |-> previous,
                               selected |-> version.number, digest |-> version.digest])]

\* rollback compares the pointer only and takes any version of the agent; the
\* active one is answered without an event.  Its answer shows the draft: of an
\* agent without one it is an error that undoes the transaction.
Rollback(t) ==
    LET a == tab[t].agent IN
    /\ tab[t].at = "ready"
    /\ PublishLockFree(a) /\ MayRecord
    /\ saved[a] # <<>>
    /\ active[a] # None /\ active[a] = tab[t].active
    /\ \E v \in versions[a] : v.number # active[a] /\ Select(a, "rollback", tab[t].active, v)
    /\ TabEnds(t)
    /\ UNCHANGED <<versions, saved>>

-----------------------------------------------------------------------------
(* publish_draft, lock by lock.                                            *)

LockAgent(t) ==
    /\ tab[t].at = "ready"
    /\ PublishLockFree(tab[t].agent) /\ MayRecord
    /\ TabGoes(t, [tab[t] EXCEPT !.at = "publishing"])
    /\ Unwritten

\* _locked_draft and the check of the revision.
LockDraft(t) ==
    LET a == tab[t].agent IN
    /\ tab[t].at = "publishing"
    /\ IF saved[a] # <<>> /\ tab[t].revision = Revision(a)
       THEN TabGoes(t, [tab[t] EXCEPT !.at = "draft_locked", !.digest = Draft(a)])
       ELSE TabEnds(t)
    /\ Unwritten

\* _claim_public_agent_key: no other agent of the key has been published.
KeyIsOurs(a) == \A b \in Agents \ {a} : ~ Published(b)

\* An unchanged draft that is active and has been published needs no event.
NothingToDo(a, d) ==
    /\ \E v \in WithDigest(a, d) : v.number = active[a]
    /\ HasPublish(a)

\* The version of a document, or the number it will get.
VersionNumber(a, d) ==
    IF WithDigest(a, d) = {} THEN NextNumber(a)
    ELSE (CHOOSE v \in WithDigest(a, d) : TRUE).number

\* The claim, the check of the pointer and the choice of the version.
ClaimKey(t) ==
    LET a == tab[t].agent
        d == tab[t].digest
    IN  /\ tab[t].at = "draft_locked"
        /\ KeyLockFree
        /\ IF KeyIsOurs(a) /\ active[a] = tab[t].active /\ ~ NothingToDo(a, d)
           THEN TabGoes(t, [tab[t] EXCEPT !.at = "key_locked",
                              !.fresh = WithDigest(a, d) = {},
                              !.number = VersionNumber(a, d)])
           ELSE TabEnds(t)
        /\ Unwritten

\* The version if it is new, the pointer and the event; all or nothing.
Publish(t) ==
    LET a == tab[t].agent IN
    /\ tab[t].at = "key_locked"
    /\ IF tab[t].fresh /\ ~ Insertable(t)
       THEN UNCHANGED <<versions, active, ledger>>
       ELSE /\ versions' = IF tab[t].fresh
                           THEN [versions EXCEPT ![a] = @ \cup {NewVersion(t)}]
                           ELSE versions
            /\ Select(a, "publish", tab[t].active, NewVersion(t))
    /\ TabEnds(t)
    /\ UNCHANGED saved

\* A conflict is answered, a tab is closed, a transaction fails.
GiveUp(t) == tab[t].at # "idle" /\ Refuse(t)

-----------------------------------------------------------------------------
Handle(t) == LockDraft(t) \/ ClaimKey(t) \/ Publish(t) \/ Number(t) \/ Insert(t)

Next == \E t \in Tabs :
    \/ ReadDraft(t) \/ ReadPointer(t)
    \/ CreateDraft(t) \/ UpdateDraft(t)
    \/ Upload(t) \/ TestDraft(t)
    \/ Activate(t) \/ Rollback(t) \/ LockAgent(t)
    \/ Handle(t) \/ GiveUp(t)

Spec == Init /\ [][Next]_vars

-----------------------------------------------------------------------------
(* Properties.                                                             *)

TypeOK ==
    /\ versions \in [Agents -> SUBSET Versions]
    /\ saved \in [Agents -> Seq(Digests)]
    /\ active \in [Agents -> Nat]
    /\ ledger \in [Agents -> Seq(Events)]
    /\ tab \in [Tabs -> TabStates]

\* Versions are numbered 1, 2, ... and no document has two of them, although
\* import_version and publish_draft number them under different locks.
VersionsAreNumbered ==
    \A a \in Agents :
        /\ \A v, w \in versions[a] :
              (v.number = w.number \/ v.digest = w.digest) => v = w
        /\ Numbers(a) = 1 .. Cardinality(versions[a])

\* The provenance of a version names the revision of the draft that had its
\* document, whatever was saved while it was being published or imported.
ProvenanceIsTrue ==
    \A a \in Agents : \A v \in versions[a] :
        v.revision # 0 => /\ v.revision \in DOMAIN saved[a]
                          /\ saved[a][v.revision] = v.digest

\* The ledger explains the pointer: each event starts where its predecessor
\* ended, a rollback changes the version, the last event is the version that
\* gets the traffic, and every event names a stored version and its document.
LedgerExplainsPointer ==
    \A a \in Agents :
        /\ Published(a) => active[a] = Last(ledger[a]).selected
        /\ \A i \in DOMAIN ledger[a] :
              LET e == ledger[a][i] IN
              /\ i > 1 => e.previous = ledger[a][i - 1].selected
              /\ e.type = "rollback" => e.previous # e.selected
              /\ \E v \in versions[a] : v.number = e.selected /\ v.digest = e.digest

\* One project at most has published a draft under the public key.
OnePublisher ==
    \A a, b \in Agents : HasPublish(a) /\ HasPublish(b) => a = b

\* A publish lock, a key lock has one holder.
LocksExclude ==
    \A t, u \in Tabs :
        /\ tab[t].at \in InPublication /\ tab[u].at \in InPublication /\ tab[t].agent = tab[u].agent
             => t = u
        /\ tab[t].at = "key_locked" /\ tab[u].at = "key_locked" => t = u

\* What a request may rely on until it commits: the draft and the pointer are
\* still as it read them, nobody else has published under the key, and its
\* version is stored, or has a number that is the next one or taken.
Sound(r) ==
    /\ r.at \in {"draft_locked", "key_locked"} =>
          saved[r.agent] # <<>> /\ r.revision = Revision(r.agent) /\ r.digest = Draft(r.agent)
    /\ r.at = "key_locked" =>
          /\ r.active = active[r.agent]
          /\ \A b \in Agents \ {r.agent} : ~ HasPublish(b)
          /\ ~ r.fresh => \E v \in WithDigest(r.agent, r.digest) : v.number = r.number
    /\ r.at = "numbered" \/ (r.at = "key_locked" /\ r.fresh) =>
          r.number \in 1 .. Cardinality(versions[r.agent]) + 1
    /\ r.at \in {"importing", "numbered"} /\ r.revision # 0 =>
          /\ r.revision \in DOMAIN saved[r.agent]
          /\ saved[r.agent][r.revision] = r.digest

\* The inductive invariant.
IInv ==
    /\ TypeOK
    /\ \A a \in Agents : IsFiniteSet(versions[a]) /\ active[a] \in {None} \cup Numbers(a)
    /\ VersionsAreNumbered
    /\ ProvenanceIsTrue
    /\ LedgerExplainsPointer
    /\ OnePublisher
    /\ LocksExclude
    /\ \A t \in Tabs : Sound(tab[t])

\* Versions and ledger rows are never changed or removed.
HistoryIsKept ==
    [][\A a \in Agents : versions[a] \subseteq versions'[a] /\ IsPrefix(ledger[a], ledger'[a])]_vars

\* A write based on a stale view does not win: whoever moves the pointer has
\* read the one he replaces, whoever publishes has read the present draft.
StaleNeverWins ==
    [][\A a \in Agents :
         (active'[a] # active[a] \/ ledger'[a] # ledger[a]) =>
            \E t \in Tabs :
                /\ tab[t].agent = a /\ tab[t].active = active[a]
                /\ tab'[t].at = "idle"
                /\ (ledger'[a] # ledger[a] /\ Last(ledger'[a]).type = "publish")
                     => /\ tab[t].revision = Revision(a)
                        /\ Last(ledger'[a]).digest = Draft(a)]_vars

\* A public route leads to one agent: two projects never both have ledger
\* rows under one key (the exists clause of _resolve_agent).
RouteIsUnambiguous == \A a, b \in Agents : Published(a) /\ Published(b) => a = b
=============================================================================
