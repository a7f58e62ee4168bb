-------------------------- MODULE PublishingProofs --------------------------
(***************************************************************************)
(* Publishing, for any agents of a public key, any documents, any number   *)
(* of owners and any bounds.                                               *)
(*                                                                         *)
(* The argument: a request that holds the publish lock, the row of the     *)
(* draft and the key lock finds what it has read unchanged until it        *)
(* commits (Sound), because whoever else would change it needs one of the  *)
(* locks (LocksExclude).  What an import can change meanwhile, the         *)
(* versions, is decided by the unique constraints: a number that is not    *)
(* taken is the next one.                                                  *)
(*                                                                         *)
(* At the end, PublishingLocks: no order of locks closes a circle.         *)
(***************************************************************************)
EXTENDS Publishing, FiniteSetTheorems, TLAPS

LEMMA MaxOfNumbers ==
    ASSUME NEW c \in Nat
    PROVE  Max({0} \cup (1 .. c)) = c
<1>1. c \in {0} \cup (1 .. c) /\ \A y \in {0} \cup (1 .. c) : c >= y
  OBVIOUS
<1>2. \A x \in {0} \cup (1 .. c) : (\A y \in {0} \cup (1 .. c) : x >= y) => x = c
  <2> SUFFICES ASSUME NEW x \in {0} \cup (1 .. c), \A y \in {0} \cup (1 .. c) : x >= y
               PROVE  x = c
    OBVIOUS
  <2>1. x >= c
    BY <1>1
  <2> QED
    BY <2>1
<1> QED
  BY <1>1, <1>2 DEF Max

LEMMA IdleType == Idle \in TabStates
<1>1. (CHOOSE a \in Agents : TRUE) \in Agents
  BY PublishingAssumption
<1>2. (CHOOSE d \in Digests : TRUE) \in Digests
  BY PublishingAssumption
<1> QED
  BY <1>1, <1>2 DEF Idle, TabStates, Phases, None

LEMMA IdleIsSound == Sound(Idle)
  BY DEF Sound, Idle

\* The number that a new version gets.
LEMMA NextIsFree ==
    ASSUME IInv, NEW a \in Agents
    PROVE  /\ NextNumber(a) = Cardinality(versions[a]) + 1
           /\ Cardinality(versions[a]) \in Nat
<1>1. Cardinality(versions[a]) \in Nat
  BY FS_CardinalityType DEF IInv
<1>2. Numbers(a) = 1 .. Cardinality(versions[a])
  BY DEF IInv, VersionsAreNumbered
<1> QED
  BY <1>1, <1>2, MaxOfNumbers DEF NextNumber

-----------------------------------------------------------------------------
(* A row is inserted.                                                      *)

LEMMA Inserting ==
    ASSUME IInv, NEW a \in Agents, NEW x \in Versions,
           WithDigest(a, x.digest) = {}, WithNumber(a, x.number) = {},
           x.number \in 1 .. Cardinality(versions[a]) + 1,
           versions' = [versions EXCEPT ![a] = @ \cup {x}]
    PROVE  /\ versions' \in [Agents -> SUBSET Versions]
           /\ \A b \in Agents : /\ IsFiniteSet(versions'[b])
                                /\ versions[b] \subseteq versions'[b]
                                /\ Cardinality(versions'[b]) \in Nat
                                /\ Cardinality(versions[b]) <= Cardinality(versions'[b])
           /\ VersionsAreNumbered'
           /\ x \in versions'[a]
           /\ \A b \in Agents : Numbers(b) \subseteq Numbers(b)'
<1>1. versions \in [Agents -> SUBSET Versions]
  BY DEF IInv, TypeOK
<1>2. versions'[a] = versions[a] \cup {x} /\ \A b \in Agents \ {a} : versions'[b] = versions[b]
  BY <1>1
<1>3. versions' \in [Agents -> SUBSET Versions]
  BY <1>1
<1>4. \A b \in Agents : IsFiniteSet(versions[b]) /\ Cardinality(versions[b]) \in Nat
  BY FS_CardinalityType DEF IInv
<1>5. x \notin versions[a]
  BY DEF WithNumber
<1>6. IsFiniteSet(versions'[a]) /\ Cardinality(versions'[a]) = Cardinality(versions[a]) + 1
  BY <1>2, <1>4, <1>5, FS_AddElement
<1>7. \A b \in Agents : /\ IsFiniteSet(versions'[b])
                        /\ versions[b] \subseteq versions'[b]
                        /\ Cardinality(versions'[b]) \in Nat
                        /\ Cardinality(versions[b]) <= Cardinality(versions'[b])
  BY <1>2, <1>4, <1>6
<1>8. Numbers(a) = 1 .. Cardinality(versions[a])
  BY DEF IInv, VersionsAreNumbered
<1>9. x.number \notin Numbers(a)
  BY DEF WithNumber, Numbers
<1>10. x.number = Cardinality(versions[a]) + 1
  BY <1>4, <1>8, <1>9
<1>11. Numbers(a)' = Numbers(a) \cup {x.number}
  BY <1>2 DEF Numbers
<1>12. Numbers(a)' = 1 .. Cardinality(versions'[a])
  BY <1>4, <1>6, <1>8, <1>10, <1>11
<1>13. \A b \in Agents \ {a} : Numbers(b)' = Numbers(b)
  BY <1>2 DEF Numbers
<1>14. VersionsAreNumbered'
  <2> SUFFICES ASSUME NEW b \in Agents
               PROVE  /\ \A v, w \in versions'[b] :
                           (v.number = w.number \/ v.digest = w.digest) => v = w
                      /\ Numbers(b)' = 1 .. Cardinality(versions'[b])
    BY DEF VersionsAreNumbered
  <2>0. \A v, w \in versions[b] : (v.number = w.number \/ v.digest = w.digest) => v = w
    BY DEF IInv, VersionsAreNumbered
  <2>1. CASE b = a
    <3>1. \A v \in versions[a] : v.number # x.number /\ v.digest # x.digest
      BY DEF WithDigest, WithNumber
    <3>2. \A v, w \in versions[a] \cup {x} : (v.number = w.number \/ v.digest = w.digest) => v = w
      BY <2>0, <2>1, <3>1
    <3> QED
      BY <2>1, <3>2, <1>2, <1>12
  <2>2. CASE b # a
    BY <2>0, <2>2, <1>2, <1>13 DEF IInv, VersionsAreNumbered
  <2> QED
    BY <2>1, <2>2
<1> QED
  BY <1>2, <1>3, <1>7, <1>11, <1>13, <1>14

-----------------------------------------------------------------------------
(* Tabs move on.                                                           *)

LEMMA TabMoves ==
    ASSUME IInv, NEW t \in Tabs, NEW r \in TabStates, TabGoes(t, r),
           r.at \in InPublication =>
              \A u \in Tabs \ {t} : ~ (tab[u].at \in InPublication /\ tab[u].agent = r.agent),
           r.at = "key_locked" => \A u \in Tabs \ {t} : tab[u].at # "key_locked"
    PROVE  /\ tab' \in [Tabs -> TabStates]
           /\ tab'[t] = r
           /\ \A u \in Tabs \ {t} : tab'[u] = tab[u]
           /\ LocksExclude'
<1>1. tab \in [Tabs -> TabStates]
  BY DEF IInv, TypeOK
<1>2. tab' = [tab EXCEPT ![t] = r]
  BY DEF TabGoes
<1>3. /\ tab' \in [Tabs -> TabStates]
      /\ tab'[t] = r
      /\ \A u \in Tabs \ {t} : tab'[u] = tab[u]
  BY <1>1, <1>2
<1>4. LocksExclude
  BY DEF IInv
<1>5. LocksExclude'
  <2> SUFFICES ASSUME NEW u \in Tabs, NEW w \in Tabs
               PROVE  /\ /\ tab'[u].at \in InPublication /\ tab'[w].at \in InPublication
                         /\ tab'[u].agent = tab'[w].agent
                         => u = w
                      /\ tab'[u].at = "key_locked" /\ tab'[w].at = "key_locked" => u = w
    BY DEF LocksExclude
  <2>1. CASE u = t /\ w # t
    BY <1>3, <2>1
  <2>2. CASE u # t /\ w = t
    BY <1>3, <2>2
  <2>3. CASE u # t /\ w # t
    BY <1>3, <1>4, <2>3 DEF LocksExclude
  <2> QED
    BY <2>1, <2>2, <2>3
<1> QED
  BY <1>3, <1>5

LEMMA QuietStep ==
    ASSUME IInv, NEW t \in Tabs, NEW r \in TabStates, TabGoes(t, r), Unwritten, Sound(r),
           r.at \in InPublication =>
              \A u \in Tabs \ {t} : ~ (tab[u].at \in InPublication /\ tab[u].agent = r.agent),
           r.at = "key_locked" => \A u \in Tabs \ {t} : tab[u].at # "key_locked"
    PROVE  IInv'
<1>1. /\ tab' \in [Tabs -> TabStates]
      /\ tab'[t] = r
      /\ \A u \in Tabs \ {t} : tab'[u] = tab[u]
      /\ LocksExclude'
  BY TabMoves
<1>2. versions' = versions /\ saved' = saved /\ active' = active /\ ledger' = ledger
  BY DEF Unwritten
<1>3. TypeOK'
  BY <1>1, <1>2 DEF IInv, TypeOK
<1>4. \A u \in Tabs : Sound(tab[u])'
  <2>1. Sound(tab[t])'
    BY <1>1, <1>2 DEF Sound, Revision, Draft, HasPublish, WithDigest
  <2>2. ASSUME NEW u \in Tabs \ {t} PROVE Sound(tab[u])'
    <3>1. Sound(tab[u])
      BY DEF IInv
    <3> QED
      BY <3>1, <1>1, <1>2 DEF Sound, Revision, Draft, HasPublish, WithDigest
  <2> QED
    BY <2>1, <2>2
<1>5. /\ \A a \in Agents : IsFiniteSet(versions'[a]) /\ active'[a] \in {None} \cup Numbers(a)'
      /\ VersionsAreNumbered' /\ ProvenanceIsTrue'
      /\ LedgerExplainsPointer' /\ OnePublisher'
  BY <1>2 DEF IInv, Numbers, VersionsAreNumbered, ProvenanceIsTrue, LedgerExplainsPointer,
              Published, OnePublisher, HasPublish
<1> QED
  BY <1>1, <1>3, <1>4, <1>5 DEF IInv

LEMMA RefuseKeeps ==
    ASSUME IInv, NEW t \in Tabs, TabEnds(t), Unwritten
    PROVE  IInv'
<1>1. Idle.at = "idle"
  BY DEF Idle
<1>2. TabGoes(t, Idle)
  BY DEF TabEnds
<1> QED
  BY <1>1, <1>2, IdleType, IdleIsSound, QuietStep DEF InPublication

\* A tab that ends frees its locks.
LEMMA TabEndsFacts ==
    ASSUME IInv, NEW t \in Tabs, TabEnds(t)
    PROVE  /\ tab' \in [Tabs -> TabStates]
           /\ \A u \in Tabs \ {t} : tab'[u] = tab[u]
           /\ LocksExclude'
           /\ Sound(tab[t])'
<1>1. Idle.at = "idle"
  BY DEF Idle
<1>2. TabGoes(t, Idle)
  BY DEF TabEnds
<1>3. /\ tab' \in [Tabs -> TabStates]
      /\ tab'[t] = Idle
      /\ \A u \in Tabs \ {t} : tab'[u] = tab[u]
      /\ LocksExclude'
  BY <1>1, <1>2, IdleType, TabMoves DEF InPublication
<1> QED
  BY <1>1, <1>3 DEF Sound

-----------------------------------------------------------------------------
(* Steps that write nothing.                                               *)

LEMMA ReadDraftKeeps ==
    ASSUME IInv, NEW t \in Tabs, ReadDraft(t)
    PROVE  IInv'
<1>1. PICK a \in Agents :
        TabGoes(t, [Idle EXCEPT !.at = "reading", !.agent = a, !.revision = Revision(a)])
  BY DEF ReadDraft
<1> DEFINE r == [Idle EXCEPT !.at = "reading", !.agent = a, !.revision = Revision(a)]
<1>2. Revision(a) \in Nat
  BY DEF IInv, TypeOK, Revision
<1>3. r \in TabStates /\ r.at = "reading"
  BY <1>2, IdleType DEF TabStates, Phases
<1>4. Sound(r)
  BY <1>3 DEF Sound
<1>5. Unwritten
  BY DEF ReadDraft
<1> HIDE DEF r
<1> QED
  BY <1>1, <1>3, <1>4, <1>5, QuietStep DEF InPublication, r

LEMMA ReadPointerKeeps ==
    ASSUME IInv, NEW t \in Tabs, ReadPointer(t)
    PROVE  IInv'
<1> DEFINE r == [tab[t] EXCEPT !.at = "ready", !.active = active[tab[t].agent]]
<1>1. TabGoes(t, r) /\ Unwritten
  BY DEF ReadPointer
<1>2. tab[t] \in TabStates /\ active[tab[t].agent] \in Nat
  BY DEF IInv, TypeOK, TabStates
<1>3. r \in TabStates /\ r.at = "ready"
  BY <1>2 DEF TabStates, Phases
<1>4. Sound(r)
  BY <1>3 DEF Sound
<1> HIDE DEF r
<1> QED
  BY <1>1, <1>3, <1>4, QuietStep DEF InPublication

LEMMA UploadKeeps ==
    ASSUME IInv, NEW t \in Tabs, Upload(t)
    PROVE  IInv'
<1>1. PICK a \in Agents, d \in Digests :
        TabGoes(t, [Idle EXCEPT !.at = "importing", !.agent = a, !.digest = d])
  BY DEF Upload
<1> DEFINE r == [Idle EXCEPT !.at = "importing", !.agent = a, !.digest = d]
<1>2. r \in TabStates /\ r.at = "importing"
  BY IdleType DEF TabStates, Phases
<1>3. r.revision = 0
  BY DEF Idle
<1>4. Sound(r)
  BY <1>2, <1>3 DEF Sound
<1>5. Unwritten
  BY DEF Upload
<1> HIDE DEF r
<1> QED
  BY <1>1, <1>2, <1>4, <1>5, QuietStep DEF InPublication, r

\* The row of a draft.
LEMMA DraftFacts ==
    ASSUME IInv, NEW a \in Agents, saved[a] # <<>>
    PROVE  /\ Revision(a) \in Nat \ {0}
           /\ Revision(a) \in DOMAIN saved[a]
           /\ saved[a][Revision(a)] = Draft(a)
           /\ Draft(a) \in Digests
<1>1. saved[a] \in Seq(Digests)
  BY DEF IInv, TypeOK
<1> QED
  BY <1>1 DEF Revision, Draft, Last

LEMMA TabType ==
    ASSUME IInv, NEW t \in Tabs
    PROVE  /\ tab[t] \in TabStates
           /\ tab[t].agent \in Agents /\ tab[t].digest \in Digests
           /\ tab[t].revision \in Nat /\ tab[t].active \in Nat /\ tab[t].number \in Nat
           /\ tab[t].fresh \in BOOLEAN
           /\ Sound(tab[t])
  BY DEF IInv, TypeOK, TabStates

LEMMA TestDraftKeeps ==
    ASSUME IInv, NEW t \in Tabs, TestDraft(t)
    PROVE  IInv'
<1> DEFINE a == tab[t].agent
           r == [tab[t] EXCEPT !.at = "importing", !.digest = Draft(a)]
<1>1. TabGoes(t, r) /\ Unwritten
  BY DEF TestDraft
<1>2. saved[a] # <<>> /\ tab[t].revision = Revision(a)
  BY DEF TestDraft
<1>3. a \in Agents /\ tab[t] \in TabStates
  BY TabType
<1>4. /\ Revision(a) \in DOMAIN saved[a]
      /\ saved[a][Revision(a)] = Draft(a)
      /\ Draft(a) \in Digests
  BY <1>2, <1>3, DraftFacts
<1>5. /\ r \in TabStates /\ r.at = "importing" /\ r.agent = a
      /\ r.revision = Revision(a) /\ r.digest = Draft(a)
  BY <1>2, <1>3, <1>4 DEF TabStates, Phases
<1>6. Sound(r)
  BY <1>4, <1>5 DEF Sound
<1> HIDE DEF r
<1> QED
  BY <1>1, <1>5, <1>6, QuietStep DEF InPublication

LEMMA NumberKeeps ==
    ASSUME IInv, NEW t \in Tabs, Number(t)
    PROVE  IInv'
<1> DEFINE a == tab[t].agent
           r == [tab[t] EXCEPT !.at = "numbered", !.number = NextNumber(a)]
<1>1. Unwritten /\ tab[t].at = "importing"
  BY DEF Number
<1>2. a \in Agents /\ tab[t] \in TabStates /\ Sound(tab[t])
  BY TabType
<1>3. CASE TabEnds(t)
  BY <1>1, <1>3, RefuseKeeps
<1>4. CASE TabGoes(t, r)
  <2>1. NextNumber(a) = Cardinality(versions[a]) + 1 /\ Cardinality(versions[a]) \in Nat
    BY <1>2, NextIsFree
  <2>2. NextNumber(a) \in Nat /\ NextNumber(a) \in 1 .. Cardinality(versions[a]) + 1
    BY <2>1
  <2>3. /\ r \in TabStates /\ r.at = "numbered" /\ r.agent = a /\ r.number = NextNumber(a)
        /\ r.revision = tab[t].revision /\ r.digest = tab[t].digest
    BY <1>2, <2>2 DEF TabStates, Phases
  <2>4. Sound(r)
    BY <1>1, <1>2, <2>2, <2>3 DEF Sound
  <2> HIDE DEF r
  <2> QED
    BY <1>1, <1>4, <2>3, <2>4, QuietStep DEF InPublication
<1> QED
  BY <1>3, <1>4 DEF Number

LEMMA LockAgentKeeps ==
    ASSUME IInv, NEW t \in Tabs, LockAgent(t)
    PROVE  IInv'
<1> DEFINE r == [tab[t] EXCEPT !.at = "publishing"]
<1>1. TabGoes(t, r) /\ Unwritten
  BY DEF LockAgent
<1>2. \A u \in Tabs : ~ (tab[u].at \in InPublication /\ tab[u].agent = tab[t].agent)
  BY DEF LockAgent, PublishLockFree, Holds
<1>3. r \in TabStates /\ r.at = "publishing" /\ r.agent = tab[t].agent
  BY TabType DEF TabStates, Phases
<1>4. Sound(r)
  BY <1>3 DEF Sound
<1> HIDE DEF r
<1> QED
  BY <1>1, <1>2, <1>3, <1>4, QuietStep

\* Whoever is publishing has the lock of the agent to himself.
LEMMA Alone ==
    ASSUME IInv, NEW t \in Tabs, tab[t].at \in InPublication, NEW u \in Tabs \ {t}
    PROVE  ~ (tab[u].at \in InPublication /\ tab[u].agent = tab[t].agent)
  BY DEF IInv, LocksExclude

LEMMA LockDraftKeeps ==
    ASSUME IInv, NEW t \in Tabs, LockDraft(t)
    PROVE  IInv'
<1> DEFINE a == tab[t].agent
           r == [tab[t] EXCEPT !.at = "draft_locked", !.digest = Draft(a)]
<1>1. Unwritten /\ tab[t].at \in InPublication
  BY DEF LockDraft, InPublication
<1>2. CASE TabEnds(t)
  BY <1>1, <1>2, RefuseKeeps
<1>3. CASE TabGoes(t, r) /\ saved[a] # <<>> /\ tab[t].revision = Revision(a)
  <2>1. a \in Agents /\ tab[t] \in TabStates
    BY TabType
  <2>2. Draft(a) \in Digests
    BY <1>3, <2>1, DraftFacts
  <2>3. /\ r \in TabStates /\ r.at = "draft_locked" /\ r.agent = a
        /\ r.revision = tab[t].revision /\ r.digest = Draft(a)
    BY <2>1, <2>2 DEF TabStates, Phases
  <2>4. Sound(r)
    BY <1>3, <2>3 DEF Sound
  <2>5. \A u \in Tabs \ {t} : ~ (tab[u].at \in InPublication /\ tab[u].agent = r.agent)
    BY <1>1, <2>3, Alone
  <2> HIDE DEF r
  <2> QED
    BY <1>1, <1>3, <2>3, <2>4, <2>5, QuietStep
<1> QED
  BY <1>2, <1>3 DEF LockDraft

\* The version that a publication is going to select.
LEMMA VersionNumberFacts ==
    ASSUME IInv, NEW a \in Agents, NEW d \in Digests
    PROVE  /\ VersionNumber(a, d) \in Nat \ {0}
           /\ WithDigest(a, d) = {} => VersionNumber(a, d) \in 1 .. Cardinality(versions[a]) + 1
           /\ WithDigest(a, d) # {} =>
                \E v \in WithDigest(a, d) : v.number = VersionNumber(a, d)
<1>1. CASE WithDigest(a, d) = {}
  <2>1. NextNumber(a) = Cardinality(versions[a]) + 1 /\ Cardinality(versions[a]) \in Nat
    BY NextIsFree
  <2>2. VersionNumber(a, d) = NextNumber(a)
    BY <1>1 DEF VersionNumber
  <2> QED
    BY <1>1, <2>1, <2>2
<1>2. CASE WithDigest(a, d) # {}
  <2> DEFINE v == CHOOSE v \in WithDigest(a, d) : TRUE
  <2>1. v \in WithDigest(a, d) /\ VersionNumber(a, d) = v.number
    BY <1>2 DEF VersionNumber
  <2>2. v \in Versions
    BY <2>1 DEF WithDigest, IInv, TypeOK
  <2>3. v.number \in Nat \ {0}
    BY <2>2 DEF Versions
  <2> QED
    BY <1>2, <2>1, <2>3
<1> QED
  BY <1>1, <1>2

LEMMA ClaimKeyKeeps ==
    ASSUME IInv, NEW t \in Tabs, ClaimKey(t)
    PROVE  IInv'
<1> DEFINE a == tab[t].agent
           d == tab[t].digest
           r == [tab[t] EXCEPT !.at = "key_locked", !.fresh = WithDigest(a, d) = {},
                               !.number = VersionNumber(a, d)]
<1>1. Unwritten /\ tab[t].at = "draft_locked" /\ KeyLockFree
  BY DEF ClaimKey
<1>2. CASE TabEnds(t)
  BY <1>1, <1>2, RefuseKeeps
<1>3. CASE TabGoes(t, r) /\ KeyIsOurs(a) /\ active[a] = tab[t].active
  <2>1. a \in Agents /\ d \in Digests /\ tab[t] \in TabStates /\ Sound(tab[t])
    BY TabType
  <2>2. /\ VersionNumber(a, d) \in Nat
        /\ WithDigest(a, d) = {} => VersionNumber(a, d) \in 1 .. Cardinality(versions[a]) + 1
        /\ WithDigest(a, d) # {} =>
              \E v \in WithDigest(a, d) : v.number = VersionNumber(a, d)
    BY <2>1, VersionNumberFacts
  <2>3. /\ r \in TabStates /\ r.at = "key_locked" /\ r.agent = a /\ r.digest = d
        /\ r.revision = tab[t].revision /\ r.active = tab[t].active
        /\ r.fresh = (WithDigest(a, d) = {}) /\ r.number = VersionNumber(a, d)
    BY <2>1, <2>2 DEF TabStates, Phases
  <2>4. \A b \in Agents \ {a} : ~ HasPublish(b)
    BY <1>3 DEF KeyIsOurs, Published, HasPublish
  <2>5. saved[a] # <<>> /\ r.revision = Revision(a) /\ r.digest = Draft(a)
    BY <1>1, <2>1, <2>3 DEF Sound
  <2>6. Sound(r)
    BY <1>3, <2>2, <2>3, <2>4, <2>5 DEF Sound
  <2>7. \A u \in Tabs \ {t} : ~ (tab[u].at \in InPublication /\ tab[u].agent = r.agent)
    BY <1>1, <2>3, Alone DEF InPublication
  <2>8. \A u \in Tabs : tab[u].at # "key_locked"
    BY <1>1, TabType DEF KeyLockFree, Holds
  <2> HIDE DEF r
  <2> QED
    BY <1>1, <1>3, <2>3, <2>6, <2>7, <2>8, QuietStep
<1> QED
  BY <1>2, <1>3 DEF ClaimKey

-----------------------------------------------------------------------------
(* The draft is written.                                                   *)

\* A new revision disturbs nobody who does not hold the row of the draft.
LEMMA SavingKeeps ==
    ASSUME IInv, NEW t \in Tabs, TabEnds(t), NEW a \in Agents, NEW d \in Digests,
           saved' = [saved EXCEPT ![a] = Append(saved[a], d)],
           UNCHANGED <<versions, active, ledger>>,
           \A u \in Tabs : ~ (tab[u].agent = a /\ tab[u].at \in {"draft_locked", "key_locked"})
    PROVE  IInv'
<1>1. /\ tab' \in [Tabs -> TabStates]
      /\ \A u \in Tabs \ {t} : tab'[u] = tab[u]
      /\ LocksExclude'
      /\ Sound(tab[t])'
  BY TabEndsFacts
<1>2. saved \in [Agents -> Seq(Digests)]
  BY DEF IInv, TypeOK
<1>3. saved' \in [Agents -> Seq(Digests)]
  BY <1>2
<1>4. /\ saved'[a] = Append(saved[a], d)
      /\ \A b \in Agents \ {a} : saved'[b] = saved[b]
  BY <1>2
<1>5. \A b \in Agents : \A i \in DOMAIN saved[b] :
        i \in DOMAIN saved'[b] /\ saved'[b][i] = saved[b][i]
  BY <1>2, <1>4
<1>6. TypeOK'
  BY <1>1, <1>3 DEF IInv, TypeOK
<1>7. ProvenanceIsTrue'
  BY <1>5 DEF IInv, ProvenanceIsTrue
<1>8. ASSUME NEW u \in Tabs \ {t} PROVE Sound(tab[u])'
  <2>1. Sound(tab[u]) /\ tab[u].agent \in Agents
    BY TabType
  <2>2. CASE tab[u].agent = a
    <3>1. tab[u].at \notin {"draft_locked", "key_locked"}
      BY <2>2
    <3> QED
      BY <1>1, <1>5, <2>1, <3>1 DEF Sound
  <2>3. CASE tab[u].agent # a
    <3>1. saved'[tab[u].agent] = saved[tab[u].agent]
      BY <1>4, <2>1, <2>3
    <3> QED
      BY <1>1, <2>1, <3>1 DEF Sound, Revision, Draft, HasPublish, WithDigest
  <2> QED
    BY <2>2, <2>3
<1>9. \A u \in Tabs : Sound(tab[u])'
  BY <1>1, <1>8
<1>10. /\ \A b \in Agents : IsFiniteSet(versions'[b]) /\ active'[b] \in {None} \cup Numbers(b)'
       /\ VersionsAreNumbered' /\ LedgerExplainsPointer' /\ OnePublisher'
  BY DEF IInv, Numbers, VersionsAreNumbered, LedgerExplainsPointer, Published, OnePublisher, HasPublish
<1> QED
  BY <1>1, <1>6, <1>7, <1>9, <1>10 DEF IInv

LEMMA CreateDraftKeeps ==
    ASSUME IInv, NEW t \in Tabs, CreateDraft(t)
    PROVE  IInv'
<1> DEFINE a == tab[t].agent
<1>1. PICK v \in WithNumber(a, active[a]) : saved' = [saved EXCEPT ![a] = <<v.digest>>]
  BY DEF CreateDraft
<1>2. a \in Agents /\ saved[a] = <<>> /\ TabEnds(t) /\ UNCHANGED <<versions, active, ledger>>
  BY TabType DEF CreateDraft
<1>3. v.digest \in Digests
  BY <1>2 DEF WithNumber, IInv, TypeOK, Versions
<1>4. saved' = [saved EXCEPT ![a] = Append(saved[a], v.digest)]
  BY <1>1, <1>2
<1>5. \A u \in Tabs : ~ (tab[u].agent = a /\ tab[u].at \in {"draft_locked", "key_locked"})
  BY <1>2, TabType DEF Sound
<1> QED
  BY <1>2, <1>3, <1>4, <1>5, SavingKeeps

LEMMA UpdateDraftKeeps ==
    ASSUME IInv, NEW t \in Tabs, UpdateDraft(t)
    PROVE  IInv'
<1> DEFINE a == tab[t].agent
<1>1. PICK d \in Digests : saved' = [saved EXCEPT ![a] = Append(saved[a], d)]
  BY DEF UpdateDraft
<1>2. a \in Agents /\ TabEnds(t) /\ UNCHANGED <<versions, active, ledger>>
  BY TabType DEF UpdateDraft
<1>3. \A u \in Tabs : ~ (tab[u].agent = a /\ tab[u].at \in {"draft_locked", "key_locked"})
  BY DEF UpdateDraft, DraftRowFree, Holds
<1> QED
  BY <1>1, <1>2, <1>3, SavingKeeps

-----------------------------------------------------------------------------
(* Versions are inserted.                                                  *)

\* What of the invariant a longer list of versions keeps by itself.
LEMMA GrowingKeeps ==
    ASSUME IInv,
           \A b \in Agents : versions[b] \subseteq versions'[b],
           \A b \in Agents : /\ Cardinality(versions'[b]) \in Nat
                            /\ Cardinality(versions[b]) <= Cardinality(versions'[b]),
           saved' = saved, NEW u \in Tabs, tab'[u] = tab[u],
           tab[u].at # "key_locked"
    PROVE  Sound(tab[u])'
<1>1. Sound(tab[u]) /\ tab[u].agent \in Agents /\ tab[u].number \in Nat
  BY TabType
<1>2. Cardinality(versions[tab[u].agent]) \in Nat
  BY <1>1, FS_CardinalityType DEF IInv
<1>3. tab[u].number \in 1 .. Cardinality(versions[tab[u].agent]) + 1
        => tab[u].number \in 1 .. Cardinality(versions'[tab[u].agent]) + 1
  BY <1>1, <1>2
<1> QED
  BY <1>1, <1>3 DEF Sound, Revision, Draft

\* ... and while the pointer and the publications of an agent stay, also for
\* the holder of the key lock.
LEMMA GrowingKeepsAll ==
    ASSUME IInv,
           \A b \in Agents : versions[b] \subseteq versions'[b],
           \A b \in Agents : /\ Cardinality(versions'[b]) \in Nat
                            /\ Cardinality(versions[b]) <= Cardinality(versions'[b]),
           saved' = saved, NEW u \in Tabs, tab'[u] = tab[u],
           active'[tab[u].agent] = active[tab[u].agent],
           \A b \in Agents : HasPublish(b)' => HasPublish(b)
    PROVE  Sound(tab[u])'
<1>1. Sound(tab[u]) /\ tab[u].agent \in Agents /\ tab[u].number \in Nat
  BY TabType
<1>2. Cardinality(versions[tab[u].agent]) \in Nat
  BY <1>1, FS_CardinalityType DEF IInv
<1>3. tab[u].number \in 1 .. Cardinality(versions[tab[u].agent]) + 1
        => tab[u].number \in 1 .. Cardinality(versions'[tab[u].agent]) + 1
  BY <1>1, <1>2
<1>4. WithDigest(tab[u].agent, tab[u].digest) \subseteq WithDigest(tab[u].agent, tab[u].digest)'
  BY <1>1 DEF WithDigest
<1>5. (\E v \in WithDigest(tab[u].agent, tab[u].digest) : v.number = tab[u].number)
        => (\E v \in WithDigest(tab[u].agent, tab[u].digest)' : v.number = tab[u].number)
  BY <1>4
<1>6. (\A b \in Agents \ {tab[u].agent} : ~ HasPublish(b))
        => (\A b \in Agents \ {tab[u].agent} : ~ HasPublish(b)')
  OBVIOUS
<1> QED
  BY <1>1, <1>3, <1>5, <1>6 DEF Sound, Revision, Draft

\* The row that a request inserts.
LEMMA NewVersionFacts ==
    ASSUME IInv, NEW t \in Tabs,
           tab[t].at = "numbered" \/ (tab[t].at = "key_locked" /\ tab[t].fresh)
    PROVE  /\ NewVersion(t) \in Versions
           /\ NewVersion(t).number = tab[t].number
           /\ NewVersion(t).digest = tab[t].digest
           /\ NewVersion(t).revision = tab[t].revision
           /\ tab[t].number \in 1 .. Cardinality(versions[tab[t].agent]) + 1
           /\ tab[t].revision # 0 =>
                /\ tab[t].revision \in DOMAIN saved[tab[t].agent]
                /\ saved[tab[t].agent][tab[t].revision] = tab[t].digest
<1>1. /\ tab[t].agent \in Agents /\ tab[t].digest \in Digests
      /\ tab[t].revision \in Nat /\ tab[t].number \in Nat /\ Sound(tab[t])
  BY TabType
<1>2. tab[t].number \in 1 .. Cardinality(versions[tab[t].agent]) + 1
  BY <1>1 DEF Sound
<1>3. Cardinality(versions[tab[t].agent]) \in Nat
  BY <1>1, FS_CardinalityType DEF IInv
<1>4. tab[t].number \in Nat \ {0}
  BY <1>2, <1>3
<1>5. NewVersion(t) \in Versions
  BY <1>1, <1>4 DEF NewVersion, Versions
<1>6. tab[t].revision # 0 =>
        /\ tab[t].revision \in DOMAIN saved[tab[t].agent]
        /\ saved[tab[t].agent][tab[t].revision] = tab[t].digest
  <2>1. CASE tab[t].at = "numbered"
    BY <1>1, <2>1 DEF Sound
  <2>2. CASE tab[t].at = "key_locked"
    <3>1. saved[tab[t].agent] # <<>> /\ tab[t].revision = Revision(tab[t].agent)
          /\ tab[t].digest = Draft(tab[t].agent)
      BY <1>1, <2>2 DEF Sound
    <3> QED
      BY <1>1, <3>1, DraftFacts
  <2> QED
    BY <2>1, <2>2
<1> QED
  BY <1>2, <1>5, <1>6 DEF NewVersion

LEMMA InsertKeeps ==
    ASSUME IInv, NEW t \in Tabs, Insert(t)
    PROVE  IInv'
<1> DEFINE a == tab[t].agent
           x == NewVersion(t)
<1>1. TabEnds(t) /\ UNCHANGED <<saved, active, ledger>> /\ tab[t].at = "numbered"
  BY DEF Insert
<1>2. CASE versions' = versions
  BY <1>1, <1>2, RefuseKeeps DEF Unwritten
<1>3. CASE Insertable(t) /\ versions' = [versions EXCEPT ![a] = @ \cup {x}]
  <2>1. a \in Agents
    BY TabType
  <2>2. /\ x \in Versions /\ x.number = tab[t].number /\ x.digest = tab[t].digest
        /\ x.revision = tab[t].revision
        /\ tab[t].number \in 1 .. Cardinality(versions[a]) + 1
        /\ tab[t].revision # 0 =>
              /\ tab[t].revision \in DOMAIN saved[a]
              /\ saved[a][tab[t].revision] = tab[t].digest
    BY <1>1, NewVersionFacts
  <2>3. WithDigest(a, x.digest) = {} /\ WithNumber(a, x.number) = {}
    BY <1>3, <2>2 DEF Insertable
  <2> HIDE DEF x
  <2>4. /\ versions' \in [Agents -> SUBSET Versions]
        /\ \A b \in Agents : /\ IsFiniteSet(versions'[b])
                             /\ versions[b] \subseteq versions'[b]
                             /\ Cardinality(versions'[b]) \in Nat
                             /\ Cardinality(versions[b]) <= Cardinality(versions'[b])
        /\ VersionsAreNumbered'
        /\ x \in versions'[a]
        /\ \A b \in Agents : Numbers(b) \subseteq Numbers(b)'
    BY <1>3, <2>1, <2>2, <2>3, Inserting
  <2>5. versions'[a] = versions[a] \cup {x} /\ \A b \in Agents \ {a} : versions'[b] = versions[b]
    BY <1>3, <2>1 DEF IInv, TypeOK
  <2>6. /\ tab' \in [Tabs -> TabStates]
        /\ \A u \in Tabs \ {t} : tab'[u] = tab[u]
        /\ LocksExclude'
        /\ Sound(tab[t])'
    BY <1>1, TabEndsFacts
  <2>7. TypeOK'
    BY <1>1, <2>4, <2>6 DEF IInv, TypeOK
  <2>8. ProvenanceIsTrue'
    BY <1>1, <2>1, <2>2, <2>5 DEF IInv, ProvenanceIsTrue
  <2>9. LedgerExplainsPointer'
    BY <1>1, <2>4 DEF IInv, LedgerExplainsPointer, Published
  <2>10. OnePublisher'
    BY <1>1 DEF IInv, OnePublisher, HasPublish
  <2>11. ASSUME NEW u \in Tabs \ {t} PROVE Sound(tab[u])'
    <3>1. /\ saved' = saved /\ active' = active /\ tab'[u] = tab[u]
          /\ \A b \in Agents : HasPublish(b)' => HasPublish(b)
      BY <1>1, <2>6 DEF HasPublish
    <3>2. \A b \in Agents : versions[b] \subseteq versions'[b]
      BY <2>4
    <3>3. \A b \in Agents : /\ Cardinality(versions'[b]) \in Nat
                            /\ Cardinality(versions[b]) <= Cardinality(versions'[b])
      BY <2>4
    <3> QED
      BY <3>1, <3>2, <3>3, GrowingKeepsAll
  <2>12. \A b \in Agents : active'[b] \in {None} \cup Numbers(b)'
    BY <1>1, <2>4 DEF IInv
  <2> QED
    BY <2>4, <2>6, <2>7, <2>8, <2>9, <2>10, <2>11, <2>12 DEF IInv
<1> QED
  BY <1>2, <1>3 DEF Insert

-----------------------------------------------------------------------------
(* The pointer moves.                                                      *)

\* The versions an agent has, as every step but an insertion leaves them.
LEMMA VersionsStay ==
    ASSUME IInv, versions' = versions
    PROVE  /\ \A b \in Agents : versions[b] \subseteq versions'[b]
           /\ \A b \in Agents : /\ IsFiniteSet(versions'[b])
                                /\ Cardinality(versions'[b]) \in Nat
                                /\ Cardinality(versions[b]) <= Cardinality(versions'[b])
           /\ VersionsAreNumbered'
           /\ \A b \in Agents : Numbers(b)' = Numbers(b)
<1>1. \A b \in Agents : IsFiniteSet(versions[b]) /\ Cardinality(versions[b]) \in Nat
  BY FS_CardinalityType DEF IInv
<1>2. VersionsAreNumbered' /\ \A b \in Agents : Numbers(b)' = Numbers(b)
  BY DEF IInv, VersionsAreNumbered, Numbers
<1> QED
  BY <1>1, <1>2

LEMMA ActivateKeeps ==
    ASSUME IInv, NEW t \in Tabs, Activate(t)
    PROVE  IInv'
<1> DEFINE a == tab[t].agent
<1>1. PICK n \in Numbers(a) : active' = [active EXCEPT ![a] = n]
  BY DEF Activate
<1>2. a \in Agents /\ TabEnds(t) /\ UNCHANGED <<versions, saved, ledger>> /\ ~ Published(a)
  BY TabType DEF Activate
<1>3. /\ active \in [Agents -> Nat] /\ versions \in [Agents -> SUBSET Versions]
  BY DEF IInv, TypeOK
<1>4. n \in Nat
  BY <1>2, <1>3 DEF Numbers, Versions
<1>5. /\ active' \in [Agents -> Nat] /\ active'[a] = n
      /\ \A b \in Agents \ {a} : active'[b] = active[b]
  BY <1>1, <1>2, <1>3, <1>4
<1>6. /\ tab' \in [Tabs -> TabStates]
      /\ \A u \in Tabs \ {t} : tab'[u] = tab[u]
      /\ LocksExclude'
      /\ Sound(tab[t])'
  BY <1>2, TabEndsFacts
<1>7. /\ \A b \in Agents : versions[b] \subseteq versions'[b]
      /\ \A b \in Agents : /\ IsFiniteSet(versions'[b])
                           /\ Cardinality(versions'[b]) \in Nat
                           /\ Cardinality(versions[b]) <= Cardinality(versions'[b])
      /\ VersionsAreNumbered'
      /\ \A b \in Agents : Numbers(b)' = Numbers(b)
  BY <1>2, VersionsStay
<1>8. TypeOK'
  BY <1>2, <1>5, <1>6 DEF IInv, TypeOK
<1>9. \A b \in Agents : active'[b] \in {None} \cup Numbers(b)'
  BY <1>5, <1>7 DEF IInv
<1>10. ProvenanceIsTrue' /\ OnePublisher'
  BY <1>2 DEF IInv, ProvenanceIsTrue, OnePublisher, HasPublish
<1>11. LedgerExplainsPointer'
  BY <1>2, <1>5 DEF IInv, LedgerExplainsPointer, Published
<1>12. ASSUME NEW u \in Tabs \ {t} PROVE Sound(tab[u])'
  <2>1. saved' = saved /\ tab'[u] = tab[u] /\ tab[u].agent \in Agents
    BY <1>2, <1>6, TabType
  <2>2. CASE tab[u].agent = a
    <3>1. tab[u].at # "key_locked"
      BY <2>2 DEF Activate, PublishLockFree, Holds, InPublication
    <3> QED
      BY <1>7, <2>1, <3>1, GrowingKeeps
  <2>3. CASE tab[u].agent # a
    <3>1. active'[tab[u].agent] = active[tab[u].agent]
      BY <1>5, <2>1, <2>3
    <3>2. \A b \in Agents : HasPublish(b)' => HasPublish(b)
      BY <1>2 DEF HasPublish
    <3> QED
      BY <1>7, <2>1, <3>1, <3>2, GrowingKeepsAll
  <2> QED
    BY <2>2, <2>3
<1> QED
  BY <1>6, <1>7, <1>8, <1>9, <1>10, <1>11, <1>12 DEF IInv

\* What a publication or a rollback writes keeps ledger and pointer together.
LEMMA SelectKeeps ==
    ASSUME IInv, NEW a \in Agents, NEW v, NEW type \in {"publish", "rollback"},
           v.number \in Nat \ {0}, v.digest \in Digests,
           Select(a, type, active[a], v),
           type = "rollback" => v.number # active[a],
           \A b \in Agents : versions[b] \subseteq versions'[b],
           \E w \in versions'[a] : w.number = v.number /\ w.digest = v.digest
    PROVE  /\ active' \in [Agents -> Nat]
           /\ active'[a] = v.number
           /\ \A b \in Agents \ {a} : active'[b] = active[b] /\ ledger'[b] = ledger[b]
           /\ ledger' \in [Agents -> Seq(Events)]
           /\ Len(ledger'[a]) = Len(ledger[a]) + 1
           /\ ledger'[a][Len(ledger'[a])].type = type
           /\ \A i \in DOMAIN ledger[a] : ledger'[a][i] = ledger[a][i]
           /\ LedgerExplainsPointer'
<1> DEFINE e == [type |-> type, previous |-> active[a], selected |-> v.number, digest |-> v.digest]
<1>1. active \in [Agents -> Nat] /\ ledger \in [Agents -> Seq(Events)]
  BY DEF IInv, TypeOK
<1>2. e \in Events
  BY <1>1 DEF Events
<1>3. e.type = type /\ e.previous = active[a] /\ e.selected = v.number /\ e.digest = v.digest
  OBVIOUS
<1>4. active' = [active EXCEPT ![a] = v.number] /\ ledger' = [ledger EXCEPT ![a] = Append(ledger[a], e)]
  BY DEF Select
<1> HIDE DEF e
<1>5. /\ active' \in [Agents -> Nat] /\ active'[a] = v.number
      /\ \A b \in Agents \ {a} : active'[b] = active[b] /\ ledger'[b] = ledger[b]
  BY <1>1, <1>4
<1>6. ledger[a] \in Seq(Events) /\ ledger'[a] = Append(ledger[a], e)
  BY <1>1, <1>4
<1>7. ledger' \in [Agents -> Seq(Events)]
  BY <1>1, <1>2, <1>4, <1>6
<1>8. /\ Len(ledger'[a]) = Len(ledger[a]) + 1 /\ Len(ledger[a]) \in Nat
      /\ DOMAIN ledger'[a] = 1 .. Len(ledger[a]) + 1 /\ DOMAIN ledger[a] = 1 .. Len(ledger[a])
      /\ ledger'[a][Len(ledger[a]) + 1] = e
      /\ \A i \in DOMAIN ledger[a] : ledger'[a][i] = ledger[a][i]
  BY <1>2, <1>6
<1>9. LedgerExplainsPointer
  BY DEF IInv
<1>10. ASSUME NEW b \in Agents
       PROVE  /\ ledger'[b] # <<>> => active'[b] = Last(ledger'[b]).selected
              /\ \A i \in DOMAIN ledger'[b] :
                    /\ i > 1 => ledger'[b][i].previous = ledger'[b][i - 1].selected
                    /\ ledger'[b][i].type = "rollback" => ledger'[b][i].previous # ledger'[b][i].selected
                    /\ \E w \in versions'[b] : /\ w.number = ledger'[b][i].selected
                                              /\ w.digest = ledger'[b][i].digest
  <2>0. versions[b] \subseteq versions'[b]
    OBVIOUS
  <2>1. CASE b # a
    <3>1. ledger'[b] = ledger[b] /\ active'[b] = active[b]
      BY <1>5, <2>1
    <3> QED
      BY <1>9, <2>0, <3>1 DEF LedgerExplainsPointer, Published
  <2>2. CASE b = a
    <3>1. active'[a] = Last(ledger'[a]).selected
      BY <1>3, <1>5, <1>8 DEF Last
    <3>2. ASSUME NEW i \in DOMAIN ledger[a]
          PROVE  /\ i > 1 => ledger'[a][i].previous = ledger'[a][i - 1].selected
                 /\ ledger'[a][i].type = "rollback" => ledger'[a][i].previous # ledger'[a][i].selected
                 /\ \E w \in versions'[a] : /\ w.number = ledger'[a][i].selected
                                           /\ w.digest = ledger'[a][i].digest
      <4>1. i > 1 => i - 1 \in DOMAIN ledger[a]
        BY <1>8
      <4> QED
        BY <1>8, <1>9, <2>0, <2>2, <4>1 DEF LedgerExplainsPointer
    <3>3. Len(ledger[a]) + 1 > 1 => e.previous = ledger'[a][Len(ledger[a])].selected
      <4>1. SUFFICES ASSUME Len(ledger[a]) + 1 > 1
                     PROVE  e.previous = ledger'[a][Len(ledger[a])].selected
        OBVIOUS
      <4>2. Len(ledger[a]) \in DOMAIN ledger[a] /\ ledger[a] # <<>>
        BY <1>6, <1>8, <4>1
      <4>3. active[a] = ledger[a][Len(ledger[a])].selected
        BY <1>9, <4>2 DEF LedgerExplainsPointer, Published, Last
      <4> QED
        BY <1>3, <1>8, <4>2, <4>3
    <3>4. e.type = "rollback" => e.previous # e.selected
      BY <1>3
    <3>5. \E w \in versions'[a] : w.number = e.selected /\ w.digest = e.digest
      BY <1>3
    <3>6. \A i \in DOMAIN ledger'[a] : i \in DOMAIN ledger[a] \/ i = Len(ledger[a]) + 1
      BY <1>8
    <3>7. (Len(ledger[a]) + 1) - 1 = Len(ledger[a])
      BY <1>8
    <3> QED
      BY <1>8, <2>2, <3>1, <3>2, <3>3, <3>4, <3>5, <3>6, <3>7
  <2> QED
    BY <2>1, <2>2
<1>11. LedgerExplainsPointer'
  BY <1>10 DEF LedgerExplainsPointer, Published
<1> QED
  BY <1>3, <1>5, <1>7, <1>8, <1>11

LEMMA RollbackKeeps ==
    ASSUME IInv, NEW t \in Tabs, Rollback(t)
    PROVE  IInv'
<1> DEFINE a == tab[t].agent
<1>1. PICK v \in versions[a] : v.number # active[a] /\ Select(a, "rollback", tab[t].active, v)
  BY DEF Rollback
<1>2. /\ a \in Agents /\ TabEnds(t) /\ UNCHANGED <<versions, saved>>
      /\ active[a] = tab[t].active
  BY TabType DEF Rollback
<1>3. v \in Versions
  BY <1>2 DEF IInv, TypeOK
<1>4. v.number \in Nat \ {0} /\ v.digest \in Digests
  BY <1>3 DEF Versions
<1>5. Select(a, "rollback", active[a], v)
  BY <1>1, <1>2
<1>6. /\ \A b \in Agents : versions[b] \subseteq versions'[b]
      /\ \A b \in Agents : /\ IsFiniteSet(versions'[b])
                           /\ Cardinality(versions'[b]) \in Nat
                           /\ Cardinality(versions[b]) <= Cardinality(versions'[b])
      /\ VersionsAreNumbered'
      /\ \A b \in Agents : Numbers(b)' = Numbers(b)
  BY <1>2, VersionsStay
<1>7. \E w \in versions'[a] : w.number = v.number /\ w.digest = v.digest
  BY <1>2
<1>8. "rollback" \in {"publish", "rollback"}
  OBVIOUS
<1>9. /\ active' \in [Agents -> Nat]
      /\ active'[a] = v.number
      /\ \A b \in Agents \ {a} : active'[b] = active[b] /\ ledger'[b] = ledger[b]
      /\ ledger' \in [Agents -> Seq(Events)]
      /\ Len(ledger'[a]) = Len(ledger[a]) + 1
      /\ ledger'[a][Len(ledger'[a])].type = "rollback"
      /\ \A i \in DOMAIN ledger[a] : ledger'[a][i] = ledger[a][i]
      /\ LedgerExplainsPointer'
  BY <1>1, <1>2, <1>4, <1>5, <1>6, <1>7, <1>8, SelectKeeps
<1>10. /\ tab' \in [Tabs -> TabStates]
       /\ \A u \in Tabs \ {t} : tab'[u] = tab[u]
       /\ LocksExclude'
       /\ Sound(tab[t])'
  BY <1>2, TabEndsFacts
<1>11. TypeOK'
  BY <1>2, <1>9, <1>10 DEF IInv, TypeOK
<1>12. \A b \in Agents : active'[b] \in {None} \cup Numbers(b)'
  <2>1. v.number \in Numbers(a)
    BY DEF Numbers
  <2> QED
    BY <1>6, <1>9, <2>1 DEF IInv
<1>13. \A b \in Agents : HasPublish(b)' => HasPublish(b)
  <2> SUFFICES ASSUME NEW b \in Agents, HasPublish(b)' PROVE HasPublish(b)
    OBVIOUS
  <2>1. CASE b # a
    BY <1>9, <2>1 DEF HasPublish
  <2>2. CASE b = a
    <3>1. PICK i \in DOMAIN ledger'[a] : ledger'[a][i].type = "publish"
      BY <2>2 DEF HasPublish
    <3>2. ledger[a] \in Seq(Events) /\ ledger'[a] \in Seq(Events)
      BY <1>2, <1>9 DEF IInv, TypeOK
    <3>3. i \in DOMAIN ledger[a] \/ i = Len(ledger'[a])
      <4>1. DOMAIN ledger'[a] = 1 .. Len(ledger'[a]) /\ DOMAIN ledger[a] = 1 .. Len(ledger[a])
        BY <3>2
      <4>2. Len(ledger[a]) \in Nat /\ Len(ledger'[a]) = Len(ledger[a]) + 1
        BY <1>9, <3>2
      <4> QED
        BY <3>1, <4>1, <4>2
    <3> QED
      BY <1>9, <2>2, <3>1, <3>3 DEF HasPublish
  <2> QED
    BY <2>1, <2>2
<1>14. ProvenanceIsTrue' /\ OnePublisher'
  BY <1>2, <1>13 DEF IInv, ProvenanceIsTrue, OnePublisher
<1>15. ASSUME NEW u \in Tabs \ {t} PROVE Sound(tab[u])'
  <2>1. saved' = saved /\ tab'[u] = tab[u] /\ tab[u].agent \in Agents
    BY <1>2, <1>10, TabType
  <2>2. CASE tab[u].agent = a
    <3>1. tab[u].at # "key_locked"
      BY <2>2 DEF Rollback, PublishLockFree, Holds, InPublication
    <3> QED
      BY <1>6, <2>1, <3>1, GrowingKeeps
  <2>3. CASE tab[u].agent # a
    <3>1. active'[tab[u].agent] = active[tab[u].agent]
      BY <1>9, <2>1, <2>3
    <3> QED
      BY <1>6, <1>13, <2>1, <3>1, GrowingKeepsAll
  <2> QED
    BY <2>2, <2>3
<1> QED
  BY <1>6, <1>9, <1>10, <1>11, <1>12, <1>14, <1>15 DEF IInv

\* A publication that has got to its commit.
LEMMA PublishFacts ==
    ASSUME IInv, NEW t \in Tabs, Publish(t), ~ (tab[t].fresh /\ ~ Insertable(t))
    PROVE  LET a == tab[t].agent
               x == NewVersion(t)
           IN  /\ a \in Agents /\ x.number \in Nat \ {0} /\ x.digest \in Digests
               /\ x.digest = Draft(a) /\ tab[t].revision = Revision(a)
               /\ tab[t].active = active[a]
               /\ Select(a, "publish", active[a], x)
               /\ \A b \in Agents : versions[b] \subseteq versions'[b]
               /\ \A b \in Agents : /\ IsFiniteSet(versions'[b])
                                    /\ Cardinality(versions'[b]) \in Nat
                                    /\ Cardinality(versions[b]) <= Cardinality(versions'[b])
               /\ versions' \in [Agents -> SUBSET Versions]
               /\ VersionsAreNumbered'
               /\ ProvenanceIsTrue'
               /\ \A b \in Agents : Numbers(b) \subseteq Numbers(b)'
               /\ \E w \in versions'[a] : w.number = x.number /\ w.digest = x.digest
<1> DEFINE a == tab[t].agent
           x == NewVersion(t)
<1>1. /\ a \in Agents /\ tab[t].digest \in Digests /\ tab[t].number \in Nat
      /\ Sound(tab[t]) /\ tab[t].at = "key_locked" /\ saved' = saved
  BY TabType DEF Publish
<1>2. /\ x.number = tab[t].number /\ x.digest = tab[t].digest
      /\ tab[t].digest = Draft(a) /\ tab[t].revision = Revision(a) /\ tab[t].active = active[a]
  BY <1>1 DEF Sound, NewVersion
<1>3. Select(a, "publish", active[a], x)
  BY <1>2 DEF Publish
<1>4. CASE tab[t].fresh
  <2>1. Insertable(t) /\ versions' = [versions EXCEPT ![a] = @ \cup {x}]
    BY <1>4 DEF Publish
  <2>2. /\ x \in Versions /\ x.revision = tab[t].revision
        /\ tab[t].number \in 1 .. Cardinality(versions[a]) + 1
        /\ tab[t].revision # 0 =>
              /\ tab[t].revision \in DOMAIN saved[a]
              /\ saved[a][tab[t].revision] = tab[t].digest
    BY <1>1, <1>4, NewVersionFacts
  <2>3. WithDigest(a, x.digest) = {} /\ WithNumber(a, x.number) = {}
    BY <1>2, <2>1 DEF Insertable
  <2>4. x.number \in Nat \ {0}
    BY <2>2 DEF Versions
  <2>5. x.number \in 1 .. Cardinality(versions[a]) + 1
    BY <1>2, <2>2
  <2> HIDE DEF x
  <2>6. /\ versions' \in [Agents -> SUBSET Versions]
        /\ \A b \in Agents : /\ IsFiniteSet(versions'[b])
                             /\ versions[b] \subseteq versions'[b]
                             /\ Cardinality(versions'[b]) \in Nat
                             /\ Cardinality(versions[b]) <= Cardinality(versions'[b])
        /\ VersionsAreNumbered'
        /\ x \in versions'[a]
        /\ \A b \in Agents : Numbers(b) \subseteq Numbers(b)'
    BY <1>1, <2>1, <2>2, <2>3, <2>5, Inserting
  <2>7. versions'[a] = versions[a] \cup {x} /\ \A b \in Agents \ {a} : versions'[b] = versions[b]
    BY <1>1, <2>1 DEF IInv, TypeOK
  <2>8. ProvenanceIsTrue'
    BY <1>1, <1>2, <2>2, <2>7 DEF IInv, ProvenanceIsTrue
  <2> QED
    BY <1>1, <1>2, <1>3, <2>4, <2>6, <2>8 DEF x
<1>5. CASE ~ tab[t].fresh
  <2>1. versions' = versions
    BY <1>5 DEF Publish
  <2>2. /\ \A b \in Agents : versions[b] \subseteq versions'[b]
        /\ \A b \in Agents : /\ IsFiniteSet(versions'[b])
                             /\ Cardinality(versions'[b]) \in Nat
                             /\ Cardinality(versions[b]) <= Cardinality(versions'[b])
        /\ VersionsAreNumbered'
        /\ \A b \in Agents : Numbers(b)' = Numbers(b)
    BY <2>1, VersionsStay
  <2>3. PICK w \in WithDigest(a, tab[t].digest) : w.number = tab[t].number
    BY <1>1, <1>5 DEF Sound
  <2>4. w \in versions[a] /\ w.digest = tab[t].digest /\ w \in Versions
    BY <1>1, <2>3 DEF WithDigest, IInv, TypeOK
  <2>5. x.number \in Nat \ {0}
    BY <1>2, <2>3, <2>4 DEF Versions
  <2>6. versions' \in [Agents -> SUBSET Versions] /\ ProvenanceIsTrue'
    BY <1>1, <2>1 DEF IInv, TypeOK, ProvenanceIsTrue
  <2> QED
    BY <1>1, <1>2, <1>3, <2>1, <2>2, <2>3, <2>4, <2>5, <2>6
<1> QED
  BY <1>4, <1>5

LEMMA PublishKeeps ==
    ASSUME IInv, NEW t \in Tabs, Publish(t)
    PROVE  IInv'
<1> DEFINE a == tab[t].agent
           x == NewVersion(t)
<1>1. TabEnds(t) /\ saved' = saved /\ tab[t].at = "key_locked"
  BY DEF Publish
<1>2. CASE tab[t].fresh /\ ~ Insertable(t)
  <2>1. UNCHANGED <<versions, active, ledger>>
    BY <1>2 DEF Publish
  <2> QED
    BY <1>1, <2>1, RefuseKeeps DEF Unwritten
<1>3. CASE ~ (tab[t].fresh /\ ~ Insertable(t))
  <2>1. /\ a \in Agents /\ x.number \in Nat \ {0} /\ x.digest \in Digests
        /\ Select(a, "publish", active[a], x)
        /\ \A b \in Agents : versions[b] \subseteq versions'[b]
        /\ \A b \in Agents : /\ IsFiniteSet(versions'[b])
                             /\ Cardinality(versions'[b]) \in Nat
                             /\ Cardinality(versions[b]) <= Cardinality(versions'[b])
        /\ versions' \in [Agents -> SUBSET Versions]
        /\ VersionsAreNumbered'
        /\ ProvenanceIsTrue'
        /\ \A b \in Agents : Numbers(b) \subseteq Numbers(b)'
        /\ \E w \in versions'[a] : w.number = x.number /\ w.digest = x.digest
    BY <1>3, PublishFacts
  <2> HIDE DEF x
  <2>2. "publish" \in {"publish", "rollback"} /\ "publish" # "rollback"
    OBVIOUS
  <2>3. /\ active' \in [Agents -> Nat]
        /\ active'[a] = x.number
        /\ \A b \in Agents \ {a} : active'[b] = active[b] /\ ledger'[b] = ledger[b]
        /\ ledger' \in [Agents -> Seq(Events)]
        /\ LedgerExplainsPointer'
    BY <2>1, <2>2, SelectKeeps
  <2>4. /\ tab' \in [Tabs -> TabStates]
        /\ \A u \in Tabs \ {t} : tab'[u] = tab[u]
        /\ LocksExclude'
        /\ Sound(tab[t])'
    BY <1>1, TabEndsFacts
  <2>5. TypeOK'
    BY <1>1, <2>1, <2>3, <2>4 DEF IInv, TypeOK
  <2>6. \A b \in Agents : active'[b] \in {None} \cup Numbers(b)'
    <3>1. PICK w \in versions'[a] : w.number = x.number
      BY <2>1
    <3>2. \A b \in Agents : b = a => x.number \in Numbers(b)'
      BY <3>1 DEF Numbers
    <3>3. ASSUME NEW b \in Agents \ {a} PROVE active'[b] \in {None} \cup Numbers(b)'
      <4>1. active[b] \in {None} \cup Numbers(b) /\ active'[b] = active[b]
        BY <2>3 DEF IInv
      <4> QED
        BY <2>1, <4>1
    <3> QED
      BY <2>3, <3>2, <3>3
  <2>7. OnePublisher'
    <3>1. \A b \in Agents \ {a} : ~ HasPublish(b)
      BY <1>1, TabType DEF Sound
    <3>2. \A b \in Agents \ {a} : ~ HasPublish(b)'
      BY <2>3, <3>1 DEF HasPublish
    <3> QED
      BY <3>2 DEF OnePublisher
  <2>8. ASSUME NEW u \in Tabs \ {t} PROVE Sound(tab[u])'
    <3>1. tab[u].at # "key_locked"
      BY <1>1 DEF IInv, LocksExclude
    <3> QED
      BY <1>1, <2>1, <2>4, <3>1, GrowingKeeps
  <2> QED
    BY <2>1, <2>3, <2>4, <2>5, <2>6, <2>7, <2>8 DEF IInv
<1> QED
  BY <1>2, <1>3

-----------------------------------------------------------------------------
LEMMA InitInvariant == Init => IInv
<1> SUFFICES ASSUME Init PROVE IInv
  OBVIOUS
<1>1. TypeOK
  BY IdleType DEF Init, TypeOK, None
<1>2. \A a \in Agents : IsFiniteSet(versions[a]) /\ active[a] \in {None} \cup Numbers(a)
  BY FS_EmptySet DEF Init
<1>3. VersionsAreNumbered
  <2>1. \A a \in Agents : versions[a] = {} /\ Numbers(a) = {} /\ Cardinality(versions[a]) = 0
    BY FS_EmptySet DEF Init, Numbers
  <2>2. 1 .. 0 = {}
    OBVIOUS
  <2> QED
    BY <2>1, <2>2 DEF VersionsAreNumbered
<1>4. ProvenanceIsTrue /\ LedgerExplainsPointer /\ OnePublisher
  BY DEF Init, ProvenanceIsTrue, LedgerExplainsPointer, Published, OnePublisher, HasPublish
<1>5. LocksExclude
  BY DEF Init, LocksExclude, Idle, InPublication
<1>6. \A t \in Tabs : Sound(tab[t])
  BY IdleIsSound DEF Init
<1> QED
  BY <1>1, <1>2, <1>3, <1>4, <1>5, <1>6 DEF IInv

LEMMA StutterKeeps == IInv /\ UNCHANGED vars => IInv'
  BY DEF IInv, vars, TypeOK, VersionsAreNumbered, Numbers, ProvenanceIsTrue, LedgerExplainsPointer,
         Published, OnePublisher, HasPublish, LocksExclude, Sound, Revision, Draft, WithDigest

LEMMA NextKeepsInvariant == IInv /\ [Next]_vars => IInv'
<1> SUFFICES ASSUME IInv, [Next]_vars PROVE IInv'
  OBVIOUS
<1>1. CASE UNCHANGED vars
  BY <1>1, StutterKeeps
<1>2. CASE Next
  <2>1. PICK t \in Tabs :
          \/ ReadDraft(t) \/ ReadPointer(t)
          \/ CreateDraft(t) \/ UpdateDraft(t)
          \/ Upload(t) \/ TestDraft(t)
          \/ Activate(t) \/ Rollback(t) \/ LockAgent(t)
          \/ Handle(t) \/ GiveUp(t)
    BY <1>2 DEF Next
  <2>2. CASE GiveUp(t)
    BY <2>2, RefuseKeeps DEF GiveUp, Refuse
  <2>3. CASE Handle(t)
    BY <2>3, LockDraftKeeps, ClaimKeyKeeps, PublishKeeps, NumberKeeps, InsertKeeps DEF Handle
  <2> QED
    BY <2>1, <2>2, <2>3, ReadDraftKeeps, ReadPointerKeeps, CreateDraftKeeps, UpdateDraftKeeps,
       UploadKeeps, TestDraftKeeps, ActivateKeeps, RollbackKeeps, LockAgentKeeps
<1> QED
  BY <1>1, <1>2

\* The inductive invariant of publish_draft, rollback, activate and
\* import_version holds in every reachable state.
THEOREM InductiveInvariant == Spec => []IInv
  BY InitInvariant, NextKeepsInvariant, PTL DEF Spec

\* Rows, ledger and requests stay well formed.
THEOREM TypeCorrect == Spec => []TypeOK
<1>1. IInv => TypeOK
  BY DEF IInv
<1> QED
  BY <1>1, InductiveInvariant, PTL

\* Two writers with different locks never give two versions to a document, or
\* one number to two, nor leave a gap (import_version and publish_draft).
THEOREM Numbering == Spec => []VersionsAreNumbered
<1>1. IInv => VersionsAreNumbered
  BY DEF IInv
<1> QED
  BY <1>1, InductiveInvariant, PTL

\* Every version has the document of the revision that its provenance names.
THEOREM Provenance == Spec => []ProvenanceIsTrue
<1>1. IInv => ProvenanceIsTrue
  BY DEF IInv
<1> QED
  BY <1>1, InductiveInvariant, PTL

\* Pointer and ledger agree, event by event.
THEOREM LedgerIsComplete == Spec => []LedgerExplainsPointer
<1>1. IInv => LedgerExplainsPointer
  BY DEF IInv
<1> QED
  BY <1>1, InductiveInvariant, PTL

\* publish_draft lets one project publish under a public key.
THEOREM KeyIsClaimedOnce == Spec => []OnePublisher
<1>1. IInv => OnePublisher
  BY DEF IInv
<1> QED
  BY <1>1, InductiveInvariant, PTL

-----------------------------------------------------------------------------
(* What a step may never do.                                               *)

LEMMA PrefixOfAppend ==
    ASSUME NEW S, NEW s \in Seq(S), NEW e
    PROVE  IsPrefix(s, Append(s, e)) /\ IsPrefix(s, s)
  BY DEF IsPrefix

\* The steps that may add to a ledger or move a pointer.
LEMMA Movers ==
    ASSUME IInv, [Next]_vars
    PROVE  \/ UNCHANGED <<active, ledger>>
           \/ \E t \in Tabs : Activate(t) \/ Rollback(t)
           \/ \E t \in Tabs : Publish(t) /\ ~ (tab[t].fresh /\ ~ Insertable(t))
<1>1. CASE UNCHANGED vars
  BY <1>1 DEF vars
<1>2. CASE Next
  <2>1. PICK t \in Tabs :
          \/ ReadDraft(t) \/ ReadPointer(t)
          \/ CreateDraft(t) \/ UpdateDraft(t)
          \/ Upload(t) \/ TestDraft(t)
          \/ Activate(t) \/ Rollback(t) \/ LockAgent(t)
          \/ Handle(t) \/ GiveUp(t)
    BY <1>2 DEF Next
  <2>2. CASE Publish(t) /\ tab[t].fresh /\ ~ Insertable(t)
    BY <2>2 DEF Publish
  <2>3. CASE Handle(t) /\ ~ Publish(t)
    BY <2>3 DEF Handle, LockDraft, ClaimKey, Number, Insert, Unwritten
  <2>4. CASE ReadDraft(t) \/ ReadPointer(t) \/ Upload(t) \/ TestDraft(t) \/ LockAgent(t) \/ GiveUp(t)
    BY <2>4 DEF ReadDraft, ReadPointer, Upload, TestDraft, LockAgent, GiveUp, Refuse, Unwritten
  <2>5. CASE CreateDraft(t) \/ UpdateDraft(t)
    BY <2>5 DEF CreateDraft, UpdateDraft
  <2>6. Handle(t) => \/ Publish(t) /\ tab[t].fresh /\ ~ Insertable(t)
                     \/ Publish(t) /\ ~ (tab[t].fresh /\ ~ Insertable(t))
                     \/ Handle(t) /\ ~ Publish(t)
    OBVIOUS
  <2> QED
    BY <2>1, <2>2, <2>3, <2>4, <2>5, <2>6
<1> QED
  BY <1>1, <1>2

\* The pointer moves, or the ledger grows, only from what the tab has read.
LEMMA MovesAreFresh ==
    ASSUME IInv, [Next]_vars, NEW a \in Agents, active'[a] # active[a] \/ ledger'[a] # ledger[a]
    PROVE  \E t \in Tabs :
              /\ tab[t].agent = a /\ tab[t].active = active[a]
              /\ tab'[t].at = "idle"
              /\ (ledger'[a] # ledger[a] /\ Last(ledger'[a]).type = "publish")
                   => /\ tab[t].revision = Revision(a)
                      /\ Last(ledger'[a]).digest = Draft(a)
<1>1. /\ active \in [Agents -> Nat] /\ ledger \in [Agents -> Seq(Events)]
      /\ tab \in [Tabs -> TabStates]
  BY DEF IInv, TypeOK
<1>2. ASSUME NEW t \in Tabs, TabEnds(t) PROVE tab'[t].at = "idle"
  BY <1>1, <1>2 DEF TabEnds, TabGoes, Idle
<1>3. ASSUME NEW t \in Tabs, Activate(t) PROVE tab[t].agent = a /\ tab[t].active = active[a] /\ ledger' = ledger
  <2>1. ledger' = ledger /\ active[tab[t].agent] = tab[t].active /\ tab[t].agent \in Agents
    BY <1>3, TabType DEF Activate
  <2>2. \A b \in Agents \ {tab[t].agent} : active'[b] = active[b]
    BY <1>1, <1>3 DEF Activate
  <2> QED
    BY <2>1, <2>2
<1>4. ASSUME NEW t \in Tabs, NEW type, NEW v, NEW b \in Agents, Select(b, type, active[b], v)
      PROVE  b = a /\ Last(ledger'[a]).type = type /\ Last(ledger'[a]).digest = v.digest
  <2> DEFINE e == [type |-> type, previous |-> active[b], selected |-> v.number, digest |-> v.digest]
  <2>1. active' = [active EXCEPT ![b] = v.number] /\ ledger' = [ledger EXCEPT ![b] = Append(ledger[b], e)]
    BY <1>4 DEF Select
  <2>2. e.type = type /\ e.digest = v.digest
    OBVIOUS
  <2> HIDE DEF e
  <2>3. b = a
    BY <1>1, <2>1
  <2>4. ledger[a] \in Seq(Events) /\ ledger'[a] = Append(ledger[a], e)
    BY <1>1, <2>1, <2>3
  <2>5. Last(ledger'[a]) = e
    BY <2>4 DEF Last
  <2> QED
    BY <2>2, <2>3, <2>5
<1>5. ASSUME NEW t \in Tabs, Activate(t)
      PROVE  /\ tab[t].agent = a /\ tab[t].active = active[a]
             /\ tab'[t].at = "idle" /\ ledger'[a] = ledger[a]
  BY <1>2, <1>3, <1>5 DEF Activate
<1>6. ASSUME NEW t \in Tabs, Rollback(t)
      PROVE  /\ tab[t].agent = a /\ tab[t].active = active[a]
             /\ tab'[t].at = "idle" /\ Last(ledger'[a]).type = "rollback"
  <2>1. /\ tab[t].agent \in Agents /\ active[tab[t].agent] = tab[t].active /\ TabEnds(t)
    BY <1>6, TabType DEF Rollback
  <2>2. PICK v \in versions[tab[t].agent] : Select(tab[t].agent, "rollback", active[tab[t].agent], v)
    BY <1>6, <2>1 DEF Rollback
  <2> QED
    BY <1>2, <1>4, <2>1, <2>2
<1>7. ASSUME NEW t \in Tabs, Publish(t), ~ (tab[t].fresh /\ ~ Insertable(t))
      PROVE  /\ tab[t].agent = a /\ tab[t].active = active[a] /\ tab'[t].at = "idle"
             /\ tab[t].revision = Revision(a) /\ Last(ledger'[a]).digest = Draft(a)
  <2> DEFINE b == tab[t].agent
             x == NewVersion(t)
  <2>1. /\ b \in Agents /\ x.digest = Draft(b) /\ tab[t].revision = Revision(b)
        /\ tab[t].active = active[b] /\ Select(b, "publish", active[b], x)
    BY <1>7, PublishFacts
  <2>2. TabEnds(t)
    BY <1>7 DEF Publish
  <2> HIDE DEF x
  <2>3. b = a /\ Last(ledger'[a]).digest = x.digest
    BY <1>4, <2>1
  <2> QED
    BY <1>2, <2>1, <2>2, <2>3
<1>8. CASE \E t \in Tabs : Activate(t)
  BY <1>5, <1>8
<1>9. CASE \E t \in Tabs : Rollback(t)
  BY <1>6, <1>9
<1>10. CASE \E t \in Tabs : Publish(t) /\ ~ (tab[t].fresh /\ ~ Insertable(t))
  BY <1>7, <1>10
<1> QED
  BY <1>8, <1>9, <1>10, Movers

\* Nobody moves the pointer or publishes from a stale view: every lock is held
\* from the comparison to the commit (publish_draft, rollback, activate).
THEOREM NoStaleWrite == Spec => StaleNeverWins
<1> DEFINE Fresh ==
      \A a \in Agents :
         (active'[a] # active[a] \/ ledger'[a] # ledger[a]) =>
            \E t \in Tabs :
                /\ tab[t].agent = a /\ tab[t].active = active[a]
                /\ tab'[t].at = "idle"
                /\ (ledger'[a] # ledger[a] /\ Last(ledger'[a]).type = "publish")
                     => /\ tab[t].revision = Revision(a)
                        /\ Last(ledger'[a]).digest = Draft(a)
<1>1. IInv /\ [Next]_vars => [Fresh]_vars
  BY MovesAreFresh
<1> QED
  BY <1>1, InductiveInvariant, PTL DEF Spec, StaleNeverWins

LEMMA VersionsGrow ==
    ASSUME IInv, [Next]_vars, NEW a \in Agents
    PROVE  versions[a] \subseteq versions'[a]
<1>1. versions \in [Agents -> SUBSET Versions]
  BY DEF IInv, TypeOK
<1>2. ASSUME NEW b, NEW x, versions' = [versions EXCEPT ![b] = @ \cup {x}]
      PROVE  versions[a] \subseteq versions'[a]
  BY <1>1, <1>2
<1>3. CASE UNCHANGED vars
  BY <1>3 DEF vars
<1>4. CASE Next
  <2>1. PICK t \in Tabs :
          \/ ReadDraft(t) \/ ReadPointer(t)
          \/ CreateDraft(t) \/ UpdateDraft(t)
          \/ Upload(t) \/ TestDraft(t)
          \/ Activate(t) \/ Rollback(t) \/ LockAgent(t)
          \/ Handle(t) \/ GiveUp(t)
    BY <1>4 DEF Next
  <2>2. CASE Insert(t) \/ Publish(t)
    <3>1. versions' = versions \/ versions' = [versions EXCEPT ![tab[t].agent] = @ \cup {NewVersion(t)}]
      BY <2>2 DEF Insert, Publish
    <3> QED
      BY <1>2, <3>1
  <2>3. CASE Handle(t) /\ ~ (Insert(t) \/ Publish(t))
    BY <2>3 DEF Handle, LockDraft, ClaimKey, Number, Unwritten
  <2>4. CASE ReadDraft(t) \/ ReadPointer(t) \/ Upload(t) \/ TestDraft(t) \/ LockAgent(t) \/ GiveUp(t)
    BY <2>4 DEF ReadDraft, ReadPointer, Upload, TestDraft, LockAgent, GiveUp, Refuse, Unwritten
  <2>5. CASE CreateDraft(t) \/ UpdateDraft(t) \/ Activate(t) \/ Rollback(t)
    BY <2>5 DEF CreateDraft, UpdateDraft, Activate, Rollback
  <2> QED
    BY <2>1, <2>2, <2>3, <2>4, <2>5
<1> QED
  BY <1>3, <1>4

LEMMA LedgerGrows ==
    ASSUME IInv, [Next]_vars, NEW a \in Agents
    PROVE  IsPrefix(ledger[a], ledger'[a])
<1>1. ledger \in [Agents -> Seq(Events)] /\ ledger[a] \in Seq(Events)
  BY DEF IInv, TypeOK
<1>2. IsPrefix(ledger[a], ledger[a])
  BY <1>1, PrefixOfAppend
<1>3. ASSUME NEW b, NEW type, NEW previous, NEW v, Select(b, type, previous, v)
      PROVE  IsPrefix(ledger[a], ledger'[a])
  <2> DEFINE e == [type |-> type, previous |-> previous, selected |-> v.number, digest |-> v.digest]
  <2>1. ledger' = [ledger EXCEPT ![b] = Append(ledger[b], e)]
    BY <1>3 DEF Select
  <2> HIDE DEF e
  <2>2. ledger'[a] = ledger[a] \/ ledger'[a] = Append(ledger[a], e)
    BY <1>1, <2>1
  <2> QED
    BY <1>1, <1>2, <2>2, PrefixOfAppend
<1>4. CASE UNCHANGED <<active, ledger>>
  BY <1>2, <1>4
<1>5. CASE \E t \in Tabs : Activate(t)
  BY <1>2, <1>5 DEF Activate
<1>6. CASE \E t \in Tabs : Rollback(t)
  BY <1>3, <1>6 DEF Rollback
<1>7. CASE \E t \in Tabs : Publish(t) /\ ~ (tab[t].fresh /\ ~ Insertable(t))
  BY <1>3, <1>7 DEF Publish
<1> QED
  BY <1>4, <1>5, <1>6, <1>7, Movers

\* No version and no row of the ledger is ever changed or removed.
THEOREM NothingIsRewritten == Spec => HistoryIsKept
<1> DEFINE Kept == \A a \in Agents :
                     versions[a] \subseteq versions'[a] /\ IsPrefix(ledger[a], ledger'[a])
<1>1. IInv /\ [Next]_vars => [Kept]_vars
  BY VersionsGrow, LedgerGrows
<1> QED
  BY <1>1, InductiveInvariant, PTL DEF Spec, HistoryIsKept

-----------------------------------------------------------------------------
(* The locks (PublishingLocks), for any number of transactions.  Each      *)
(* transaction takes its locks in the order of their ranks, so a circle    *)
(* of waiting would have to rise for ever through six of them.             *)

CONSTANT Transactions
VARIABLES rows, tx
L == INSTANCE PublishingLocks

\* Every transaction takes its locks in the order of their ranks.
Rank(n) == CASE n \in {"import", "publish", "create"}     -> 1
             [] n \in {"draft", "new_draft", "new_agent"} -> 2
             [] n = "key"                                 -> 3
             [] n = "pointer"                             -> 4
             [] n = "new_version"                         -> 5
             [] OTHER                                     -> 6

\* The inductive invariant of the locks: where a transaction is, and that it
\* holds only what its earlier statements have locked.
InOrder(x) ==
    \/ x = L!Idle
    \/ /\ x.kind \in L!Kinds /\ x.agent \in Agents
       /\ x.step \in 1 .. Len(L!Order(x.kind)) + 1
       /\ \A r \in x.holds : \E i \in 1 .. x.step - 1 :
             r = L!Lock(L!Order(x.kind)[i], x.agent)

LocksInOrder == \A t \in Transactions : InOrder(tx[t])

LocksInv ==
    /\ tx \in [Transactions -> [kind : L!Kinds \cup {"none"}, agent : Agents \cup {L!Global},
                                step : Nat, holds : SUBSET L!Locks]]
    /\ rows \subseteq {"draft", "pointer"} \X Agents
    /\ LocksInOrder

LEMMA OrdersAreSequences ==
    ASSUME NEW k \in L!Kinds
    PROVE  /\ L!Order(k) \in Seq(L!Names)
           /\ Len(L!Order(k)) \in Nat
           /\ \A i \in 1 .. Len(L!Order(k)) : L!Order(k)[i] \in L!Names
           /\ \A i, j \in 1 .. Len(L!Order(k)) :
                 i < j => Rank(L!Order(k)[i]) < Rank(L!Order(k)[j])
  <1>1. CASE k = "import"
    BY <1>1 DEF L!Order, L!ImportOrder, L!Names, Rank
  <1>2. CASE k = "activate"
    BY <1>2 DEF L!Order, L!ActivateOrder, L!Names, Rank
  <1>3. CASE k = "create"
    BY <1>3 DEF L!Order, L!CreateOrder, L!Names, Rank
  <1>4. CASE k = "update"
    BY <1>4 DEF L!Order, L!UpdateOrder, L!Names, Rank
  <1>5. CASE k = "publish"
    BY <1>5, SMTT(60) DEF L!Order, L!PublishOrder, L!Names, Rank
  <1>6. CASE k = "rollback"
    BY <1>6 DEF L!Order, L!RollbackOrder, L!Names, Rank
  <1> QED BY <1>1, <1>2, <1>3, <1>4, <1>5, <1>6 DEF L!Kinds

LEMMA LockNames ==
    ASSUME NEW n \in L!Names, NEW a \in Agents
    PROVE  L!Lock(n, a) \in L!Locks /\ L!Lock(n, a)[1] = n
  BY DEF L!Lock, L!Locks

LEMMA LocksInit == L!Init => LocksInv
  BY DEF L!Init, LocksInv, LocksInOrder, InOrder, L!Idle

\* The lock that a transaction wants comes after all that it holds.
LEMMA WantsTheNext ==
    ASSUME LocksInv, NEW t \in Transactions, L!Running(t), ~ L!Done(t)
    PROVE  /\ L!NextName(t) \in L!Names /\ L!NextLock(t) \in L!Locks
           /\ L!NextLock(t)[1] = L!NextName(t)
           /\ tx[t].agent \in Agents /\ tx[t].kind \in L!Kinds
           /\ tx[t].step \in 1 .. Len(L!Order(tx[t].kind))
           /\ \A r \in tx[t].holds : Rank(r[1]) < Rank(L!NextName(t))
<1>1. /\ tx[t].kind \in L!Kinds /\ tx[t].agent \in Agents
      /\ tx[t].step \in 1 .. Len(L!Order(tx[t].kind)) + 1
      /\ \A r \in tx[t].holds : \E i \in 1 .. tx[t].step - 1 :
            r = L!Lock(L!Order(tx[t].kind)[i], tx[t].agent)
  BY DEF LocksInv, LocksInOrder, InOrder, L!Running, L!Idle
<1> DEFINE order == L!Order(tx[t].kind)
           n == tx[t].step
<1>2. /\ Len(order) \in Nat
      /\ \A i \in 1 .. Len(order) : order[i] \in L!Names
      /\ \A i, j \in 1 .. Len(order) : i < j => Rank(order[i]) < Rank(order[j])
  BY <1>1, OrdersAreSequences
<1>3. n \in 1 .. Len(order)
  BY <1>1, <1>2 DEF L!Done
<1>4. L!NextName(t) = order[n]
  BY DEF L!NextName
<1> HIDE DEF order, n
<1>5. \A r \in tx[t].holds : Rank(r[1]) < Rank(L!NextName(t))
  <2> SUFFICES ASSUME NEW r \in tx[t].holds
               PROVE  Rank(r[1]) < Rank(order[n])
    BY <1>4
  <2>1. PICK i \in 1 .. n - 1 : r = L!Lock(order[i], tx[t].agent)
    BY <1>1 DEF order, n
  <2>2. i \in 1 .. Len(order) /\ i < n
    BY <1>2, <1>3
  <2>3. r[1] = order[i]
    BY <1>1, <1>2, <2>1, <2>2, LockNames
  <2> QED
    BY <1>2, <1>3, <2>2, <2>3
<1>6. L!NextName(t) \in L!Names
  BY <1>2, <1>3, <1>4
<1>7. L!NextLock(t) \in L!Locks /\ L!NextLock(t)[1] = L!NextName(t)
  BY <1>1, <1>6, LockNames DEF L!NextLock
<1> QED
  BY <1>1, <1>3, <1>5, <1>6, <1>7 DEF order, n

LEMMA LocksStep == LocksInv /\ [L!Next]_(L!vars) => LocksInv'
<1> SUFFICES ASSUME LocksInv, [L!Next]_(L!vars) PROVE LocksInv'
  OBVIOUS
<1>1. CASE UNCHANGED L!vars
  BY <1>1 DEF L!vars, LocksInv, LocksInOrder, L!Running
<1>2. ASSUME NEW t \in Transactions, L!Begin(t) PROVE LocksInv'
  <2>1. PICK k \in L!Kinds, a \in Agents :
           /\ tx' = [tx EXCEPT ![t] = [kind |-> k, agent |-> a, step |-> 1, holds |-> {}]]
           /\ rows' = rows
    BY <1>2 DEF L!Begin, L!ComesTo
  <2>2. Len(L!Order(k)) \in Nat
    BY OrdersAreSequences
  <2>3. k # "none"
    BY DEF L!Kinds
  <2> QED
    BY <2>1, <2>2, <2>3 DEF LocksInv, LocksInOrder, InOrder
<1>3. ASSUME NEW t \in Transactions, L!Take(t) PROVE LocksInv'
  <2>1. /\ L!Running(t) /\ ~ L!Done(t)
        /\ L!GoesOn(t, tx[t].holds \cup {L!NextLock(t)})
        /\ rows' = rows
    BY <1>3 DEF L!Take
  <2> DEFINE n == tx[t].step
             order == L!Order(tx[t].kind)
  <2>2. /\ L!NextLock(t) \in L!Locks /\ tx[t].agent \in Agents /\ tx[t].kind \in L!Kinds
        /\ n \in 1 .. Len(order) /\ Len(order) \in Nat
    BY <2>1, WantsTheNext, OrdersAreSequences
  <2>4. L!NextLock(t) = L!Lock(order[n], tx[t].agent)
    BY DEF L!NextLock, L!NextName
  <2>5. \A r \in tx[t].holds : \E i \in 1 .. n - 1 : r = L!Lock(order[i], tx[t].agent)
    BY <2>1 DEF LocksInv, LocksInOrder, InOrder, L!Running, L!Idle
  <2> HIDE DEF n, order
  <2>6. \A r \in tx[t].holds \cup {L!NextLock(t)} : \E i \in 1 .. n :
           r = L!Lock(order[i], tx[t].agent)
    <3> SUFFICES ASSUME NEW r \in tx[t].holds \cup {L!NextLock(t)}
                 PROVE  \E i \in 1 .. n : r = L!Lock(order[i], tx[t].agent)
      OBVIOUS
    <3>1. CASE r = L!NextLock(t)
      BY <2>2, <2>4, <3>1
    <3>2. CASE r \in tx[t].holds
      BY <2>2, <2>5, <3>2
    <3> QED
      BY <3>1, <3>2
  <2> DEFINE x == [kind |-> tx[t].kind, agent |-> tx[t].agent, step |-> n + 1,
                   holds |-> tx[t].holds \cup {L!NextLock(t)}]
  <2>7. tx' = [tx EXCEPT ![t] = x]
    BY <2>1 DEF L!GoesOn, L!ComesTo, n
  <2>8. InOrder(x)
    <3>1. n \in Nat /\ n + 1 \in 1 .. Len(L!Order(tx[t].kind)) + 1 /\ (n + 1) - 1 = n
      BY <2>2 DEF order
    <3>2. \A r \in x.holds : \E i \in 1 .. (n + 1) - 1 :
             r = L!Lock(L!Order(tx[t].kind)[i], tx[t].agent)
      BY <2>6, <3>1 DEF order
    <3> QED
      BY <2>2, <3>1, <3>2 DEF InOrder
  <2>9. x \in [kind : L!Kinds \cup {"none"}, agent : Agents \cup {L!Global},
               step : Nat, holds : SUBSET L!Locks]
    BY <2>2 DEF LocksInv
  <2> HIDE DEF x
  <2> QED
    BY <2>1, <2>7, <2>8, <2>9 DEF LocksInv, LocksInOrder
<1>4. ASSUME NEW t \in Transactions, L!Pass(t) PROVE LocksInv'
  <2> DEFINE n == tx[t].step
             x == [kind |-> tx[t].kind, agent |-> tx[t].agent, step |-> n + 1,
                   holds |-> tx[t].holds]
  <2>1. L!Running(t) /\ ~ L!Done(t) /\ rows' = rows /\ L!GoesOn(t, tx[t].holds)
    BY <1>4 DEF L!Pass
  <2>2. tx' = [tx EXCEPT ![t] = x]
    BY <2>1 DEF L!GoesOn, L!ComesTo
  <2>3. /\ tx[t].kind \in L!Kinds /\ tx[t].agent \in Agents
        /\ n \in 1 .. Len(L!Order(tx[t].kind)) /\ Len(L!Order(tx[t].kind)) \in Nat
    BY <2>1, WantsTheNext, OrdersAreSequences
  <2>4. \A r \in tx[t].holds : \E i \in 1 .. n - 1 :
           r = L!Lock(L!Order(tx[t].kind)[i], tx[t].agent)
    BY <2>1 DEF LocksInv, LocksInOrder, InOrder, L!Running, L!Idle
  <2> HIDE DEF n
  <2>5. InOrder(x)
    <3>1. n \in Nat /\ n + 1 \in 1 .. Len(L!Order(tx[t].kind)) + 1 /\ (n + 1) - 1 = n
      BY <2>3
    <3>2. \A r \in tx[t].holds : \E i \in 1 .. (n + 1) - 1 :
             r = L!Lock(L!Order(tx[t].kind)[i], tx[t].agent)
      BY <2>4, <3>1
    <3> QED
      BY <2>3, <3>1, <3>2 DEF InOrder
  <2>6. x \in [kind : L!Kinds \cup {"none"}, agent : Agents \cup {L!Global},
               step : Nat, holds : SUBSET L!Locks]
    BY <2>3 DEF LocksInv
  <2> HIDE DEF x
  <2> QED
    BY <2>1, <2>2, <2>5, <2>6 DEF LocksInv, LocksInOrder
<1>5. ASSUME NEW t \in Transactions, L!Commit(t) \/ L!Leave(t) PROVE LocksInv'
  <2>1. tx' = [tx EXCEPT ![t] = L!Idle]
    BY <1>5 DEF L!Commit, L!Leave
  <2>2. tx[t].agent \in Agents
    BY <1>5 DEF L!Commit, L!Leave, L!Done, L!Running, L!Idle, LocksInv, LocksInOrder, InOrder
  <2>3. rows' \subseteq {"draft", "pointer"} \X Agents
    BY <1>5, <2>2 DEF L!Commit, L!Leave, LocksInv
  <2>4. L!Idle \in [kind : L!Kinds \cup {"none"}, agent : Agents \cup {L!Global},
                    step : Nat, holds : SUBSET L!Locks]
    BY DEF L!Idle
  <2> QED
    BY <2>1, <2>3, <2>4 DEF LocksInv, LocksInOrder, InOrder
<1> QED
  BY <1>1, <1>2, <1>3, <1>4, <1>5 DEF L!Next

\* Of two transactions that wait, the one that holds what the other wants
\* wants a lock of a higher rank.
LEMMA RanksRise ==
    ASSUME LocksInv, NEW t \in Transactions, NEW u \in Transactions, NEW v \in Transactions,
           L!WaitsFor(t, u), L!WaitsFor(u, v)
    PROVE  Rank(L!NextName(t)) < Rank(L!NextName(u))
<1>1. L!NextLock(t) \in tx[u].holds /\ L!NextLock(t)[1] = L!NextName(t)
  BY WantsTheNext DEF L!WaitsFor
<1>2. \A r \in tx[u].holds : Rank(r[1]) < Rank(L!NextName(u))
  BY WantsTheNext DEF L!WaitsFor
<1> QED
  BY <1>1, <1>2

LEMMA NoCircleFollows == LocksInv => L!NoCircle
<1> SUFFICES ASSUME LocksInv, NEW group \in (SUBSET Transactions) \ {{}},
                    \A t \in group : \E u \in group : L!WaitsFor(t, u)
             PROVE  FALSE
  BY DEF L!NoCircle
<1> DEFINE Reaches(n) == \E t \in group : Rank(L!NextName(t)) >= n
<1>1. \A t \in group : Rank(L!NextName(t)) \in 1 .. 6
  BY DEF Rank
<1>2. Reaches(1)
  BY <1>1, group # {}
<1>3. ASSUME NEW n \in Nat, Reaches(n) PROVE Reaches(n + 1)
  <2>1. PICK t \in group : Rank(L!NextName(t)) >= n
    BY <1>3
  <2>2. PICK u \in group : L!WaitsFor(t, u)
    OBVIOUS
  <2>3. PICK v \in group : L!WaitsFor(u, v)
    OBVIOUS
  <2>4. Rank(L!NextName(t)) < Rank(L!NextName(u))
    BY <2>2, <2>3, RanksRise
  <2> QED
    BY <1>1, <2>1, <2>4
<1> HIDE DEF Reaches
<1>4. Reaches(1 + 1 + 1 + 1 + 1 + 1 + 1)
  BY <1>2, <1>3
<1> QED
  BY <1>1, <1>4 DEF Reaches

LEMMA LockTypes == LocksInv => L!TypeOK
  BY OrdersAreSequences DEF LocksInv, LocksInOrder, InOrder, L!TypeOK

\* No circle of waiting closes, whatever number of transactions of whatever
\* number of agents publish, roll back, activate, import and save at one time;
\* and a transaction is always at one of its statements.
THEOREM NoCircleOfLocks == L!Spec => []L!TypeOK /\ []L!NoCircle
<1>1. LocksInv /\ [L!Next]_(L!vars) => LocksInv'
  BY LocksStep
<1> QED
  BY LocksInit, LockTypes, NoCircleFollows, <1>1, PTL DEF L!Spec
=============================================================================
