------------------------- MODULE DraftEditorProofs --------------------------
(***************************************************************************)
(* Sessions and DraftEditor, for any tabs and pages, any number of owners, *)
(* sessions, edits, revisions and lost answers.                            *)
(*                                                                         *)
(* The sessions come first: whatever the studio does with them, SessionInv *)
(* stays.  The editor then rests on what a late answer can still say about *)
(* the draft (SavedIsThere, DiffsAreTrue), although the draft has moved on *)
(* or has become another owner's.                                          *)
(***************************************************************************)
EXTENDS DraftEditor, TLAPS, FiniteSetTheorems

-----------------------------------------------------------------------------
(* The sessions.                                                           *)

LEMMA AtMostOne ==
    ASSUME NEW S, \A o, p \in S : o = p
    PROVE  IsFiniteSet(S) /\ Cardinality(S) <= 1
  <1>1. CASE S = {}
    BY <1>1, FS_EmptySet
  <1>2. CASE S # {}
    <2>1. PICK o \in S : TRUE
      BY <1>2
    <2>2. S = {o}
      BY <2>1
    <2>3. IsFiniteSet({o}) /\ Cardinality({o}) = 1
      BY FS_Singleton
    <2>4. IsFiniteSet(S) /\ Cardinality(S) = 1
      BY <2>2, <2>3
    <2> QED BY <2>4
  <1> QED BY <1>1, <1>2

LEMMA SessionInvBegins == SessionInit => SessionInv
  <1> SUFFICES ASSUME SessionInit PROVE SessionInv
    OBVIOUS
  <1>1. Cardinality(owners) <= 1
    BY FS_EmptySet DEF SessionInit
  <1>2. NoRequest \in RequestRecords
    BY DEF NoRequest, Request, RequestRecords, Kinds, Places, Codes
  <1>3. SessionTypeOK
    BY <1>2 DEF SessionInit, SessionTypeOK
  <1> QED BY <1>1, <1>3
          DEF SessionInit, SessionInv, SessionsAreOwned, OwnersAreFresh, SessionsExist,
              NoRequest, Request, At

\* A request moves, and the sessions stay as they are.
LEMMA RequestMoves ==
    ASSUME SessionInv, NEW c \in Clients, NEW r \in RequestRecords,
           Set(c, r), r.session <= Len(sessions),
           r.at = "work" => r.owner # 0,
           UNCHANGED auth, losses' \in Nat
    PROVE  SessionInv'
  <1>1. /\ req \in [Clients -> RequestRecords] /\ req' = [req EXCEPT ![c] = r]
        /\ UNCHANGED <<owners, setups, sessions, cookie>>
    BY DEF SessionInv, SessionTypeOK, Set, auth
  <1>2. SessionTypeOK'
    BY <1>1 DEF SessionInv, SessionTypeOK
  <1>3. SessionsAreOwned' /\ OwnersAreFresh'
    BY <1>1 DEF SessionInv, SessionsAreOwned, OwnersAreFresh
  <1>4. \A d \in Clients : req'[d] = IF d = c THEN r ELSE req[d]
    BY <1>1
  <1>5. SessionsExist'
    BY <1>1, <1>4 DEF SessionInv, SessionsExist, At
  <1> QED BY <1>2, <1>3, <1>5 DEF SessionInv

\* The sessions change, but neither fewer nor other owners' are there.
LEMMA SessionsMove ==
    ASSUME SessionInv, NEW c, NEW r \in RequestRecords,
           req' = [req EXCEPT ![c] = r] \/ req' = req,
           r.session <= Len(sessions'), r.at # "work" \/ r.owner # 0,
           sessions' \in Seq(SessionRows), Len(sessions') >= Len(sessions),
           \A s \in DOMAIN sessions' : sessions'[s].there => sessions'[s].owner \in owners,
           UNCHANGED <<owners, setups, cookie, losses>>
    PROVE  SessionInv'
  <1>1. /\ req \in [Clients -> RequestRecords] /\ req' \in [Clients -> RequestRecords]
        /\ sessions \in Seq(SessionRows)
    BY DEF SessionInv, SessionTypeOK
  <1>2. SessionTypeOK'
    BY <1>1 DEF SessionInv, SessionTypeOK
  <1>3. SessionsAreOwned' /\ OwnersAreFresh'
    BY <1>1 DEF SessionInv, SessionsAreOwned, OwnersAreFresh
  <1>4. Len(sessions) \in Nat /\ Len(sessions') \in Nat /\ cookie \in Nat
    BY <1>1 DEF SessionInv, SessionTypeOK
  <1>5. ASSUME NEW d \in Clients
        PROVE  req'[d].session <= Len(sessions') /\ (req'[d].at = "work" => req'[d].owner # 0)
    <2>1. req[d].session \in Nat /\ req[d].session <= Len(sessions)
          /\ (req[d].at = "work" => req[d].owner # 0)
      BY <1>1 DEF SessionInv, SessionsExist, RequestRecords, At
    <2>2. req'[d] = req[d] \/ req'[d] = r
      BY <1>1
    <2> QED BY <1>4, <2>1, <2>2
  <1>6. SessionsExist'
    BY <1>4, <1>5 DEF SessionInv, SessionsExist, At
  <1> QED BY <1>2, <1>3, <1>6 DEF SessionInv

\* Moving and answering keep what a request was sent with.
LEMMA MovesOfRequests ==
    ASSUME SessionInv, NEW c \in Clients
    PROVE  /\ \A place \in Places :
                [req[c] EXCEPT !.at = place] \in RequestRecords
           /\ \A code \in Codes :
                [req[c] EXCEPT !.at = "answered", !.code = code] \in RequestRecords
           /\ req[c] \in RequestRecords /\ req[c].session <= Len(sessions)
           /\ req[c].session \in Nat /\ req[c].owner \in Nat
           /\ Len(sessions) \in Nat /\ sessions \in Seq(SessionRows)
  <1>1. req[c] \in RequestRecords /\ sessions \in Seq(SessionRows)
    BY DEF SessionInv, SessionTypeOK
  <1>2. req[c].session <= Len(sessions)
    BY DEF SessionInv, SessionsExist
  <1>3. PICK r \in RequestRecords : r = req[c]
    BY <1>1
  <1>4. "answered" \in Places /\ "none" \in Codes
    BY DEF Places, Codes
  <1>5. ASSUME NEW place \in Places PROVE [r EXCEPT !.at = place] \in RequestRecords
    BY DEF RequestRecords
  <1>6. ASSUME NEW place \in Places, NEW code \in Codes
        PROVE  [r EXCEPT !.at = place, !.code = code] \in RequestRecords
    BY DEF RequestRecords
  <1>7. \A code \in Codes : [r EXCEPT !.at = "answered", !.code = code] \in RequestRecords
    BY <1>4, <1>6
  <1>8. /\ \A place \in Places : [req[c] EXCEPT !.at = place] \in RequestRecords
        /\ \A code \in Codes : [req[c] EXCEPT !.at = "answered", !.code = code] \in RequestRecords
    BY <1>3, <1>5, <1>7, Zenon
  <1>9. req[c].session \in Nat /\ req[c].owner \in Nat /\ Len(sessions) \in Nat
    BY <1>1 DEF RequestRecords
  <1> QED BY <1>1, <1>2, <1>8, <1>9

LEMMA Answers ==
    ASSUME SessionInv, NEW c \in Clients, NEW code \in Codes,
           Answer(c, code), UNCHANGED auth, losses' \in Nat
    PROVE  SessionInv'
  <1> DEFINE r == [req[c] EXCEPT !.at = "answered", !.code = code]
  <1>1. r \in RequestRecords /\ r.session <= Len(sessions) /\ r.at # "work"
    BY MovesOfRequests DEF RequestRecords
  <1>2. Set(c, r)
    BY DEF Answer
  <1> HIDE DEF r
  <1> QED BY <1>1, <1>2, RequestMoves

LEMMA MovesOn ==
    ASSUME SessionInv, NEW c \in Clients, NEW place \in Places, place # "work",
           Move(c, place), UNCHANGED auth, losses' \in Nat
    PROVE  SessionInv'
  <1> DEFINE r == [req[c] EXCEPT !.at = place]
  <1>1. r \in RequestRecords /\ r.session <= Len(sessions) /\ r.at # "work"
    BY MovesOfRequests DEF RequestRecords
  <1>2. Set(c, r)
    BY DEF Move
  <1> HIDE DEF r
  <1> QED BY <1>1, <1>2, RequestMoves

LEMMA AskKeepsSessions ==
    ASSUME SessionInv, NEW c \in Clients, NEW work \in Kinds,
           Ask(c, work), UNCHANGED <<auth, losses>>
    PROVE  SessionInv'
  <1> DEFINE r == Request(work, "session", cookie, 0, "none")
  <1>1. r \in RequestRecords /\ r.session <= Len(sessions) /\ r.at # "work" /\ losses' \in Nat
    BY DEF SessionInv, SessionTypeOK, SessionsExist, Request, RequestRecords, Places, Codes
  <1>2. Set(c, r)
    BY DEF Ask
  <1> HIDE DEF r
  <1> QED BY <1>1, <1>2, RequestMoves

LEMMA AuthenticateSessionKeeps ==
    ASSUME SessionInv, NEW c \in Clients, AuthenticateSession(c) PROVE SessionInv'
  <1>1. UNCHANGED auth /\ losses' \in Nat
    BY DEF AuthenticateSession, SessionInv, SessionTypeOK
  <1>2. Move(c, "rotate") \/ Answer(c, "authentication_failed")
    BY DEF AuthenticateSession
  <1>3. "rotate" \in Places /\ "authentication_failed" \in Codes
    BY DEF Places, Codes
  <1>4. CASE Move(c, "rotate")
    BY <1>1, <1>3, <1>4, MovesOn
  <1>5. CASE Answer(c, "authentication_failed")
    BY <1>1, <1>3, <1>5, Answers
  <1> QED BY <1>2, <1>4, <1>5

\* Only csrf, revoked and expired of one session change.
LEMMA OneSession ==
    ASSUME SessionInv, NEW s, NEW row \in SessionRows, s \in DOMAIN sessions,
           row.owner = sessions[s].owner, row.there = sessions[s].there,
           sessions' = [sessions EXCEPT ![s] = row]
    PROVE  /\ sessions' \in Seq(SessionRows) /\ Len(sessions') = Len(sessions)
           /\ \A x \in DOMAIN sessions' : sessions'[x].there => sessions'[x].owner \in owners
  <1>1. sessions \in Seq(SessionRows)
    BY DEF SessionInv, SessionTypeOK
  <1>2. /\ sessions' \in Seq(SessionRows) /\ Len(sessions') = Len(sessions)
        /\ DOMAIN sessions' = DOMAIN sessions
        /\ \A x \in DOMAIN sessions : sessions'[x] = IF x = s THEN row ELSE sessions[x]
    BY <1>1
  <1>3. \A x \in DOMAIN sessions : sessions[x].there => sessions[x].owner \in owners
    BY DEF SessionInv, SessionsAreOwned
  <1> QED BY <1>2, <1>3

\* What the handlers do to one session keeps whose it is and whether it is there.
Touches(f, s) ==
    \/ f = sessions
    \/ \E row \in SessionRows :
          /\ s \in DOMAIN sessions /\ f = [sessions EXCEPT ![s] = row]
          /\ row.owner = sessions[s].owner /\ row.there = sessions[s].there

LEMMA Touching ==
    ASSUME SessionInv, NEW s
    PROVE  /\ \A c \in Clients : Touches([sessions EXCEPT ![s].csrf = {c}], s)
           /\ Touches([sessions EXCEPT ![s].revoked = TRUE], s)
           /\ Touches([sessions EXCEPT ![s].expired = TRUE], s)
  <1>1. sessions \in Seq(SessionRows)
    BY DEF SessionInv, SessionTypeOK
  <1> SUFFICES ASSUME NEW c \in Clients \cup {0}
               PROVE  /\ c \in Clients => Touches([sessions EXCEPT ![s].csrf = {c}], s)
                      /\ Touches([sessions EXCEPT ![s].revoked = TRUE], s)
                      /\ Touches([sessions EXCEPT ![s].expired = TRUE], s)
    OBVIOUS
  <1>2. CASE s \notin DOMAIN sessions
    BY <1>1, <1>2 DEF Touches
  <1>3. CASE s \in DOMAIN sessions
    <2>1. sessions[s] \in SessionRows
      BY <1>1, <1>3
    <2>2. PICK row \in SessionRows : row = sessions[s]
      BY <2>1
    <2>3. /\ c \in Clients => [row EXCEPT !.csrf = {c}] \in SessionRows
          /\ [row EXCEPT !.revoked = TRUE] \in SessionRows
          /\ [row EXCEPT !.expired = TRUE] \in SessionRows
      BY DEF SessionRows
    <2>4. /\ [row EXCEPT !.csrf = {c}].owner = row.owner
          /\ [row EXCEPT !.csrf = {c}].there = row.there
          /\ [row EXCEPT !.revoked = TRUE].owner = row.owner
          /\ [row EXCEPT !.revoked = TRUE].there = row.there
          /\ [row EXCEPT !.expired = TRUE].owner = row.owner
          /\ [row EXCEPT !.expired = TRUE].there = row.there
      BY DEF SessionRows
    <2>5. /\ [sessions EXCEPT ![s].csrf = {c}] = [sessions EXCEPT ![s] = [row EXCEPT !.csrf = {c}]]
          /\ [sessions EXCEPT ![s].revoked = TRUE] = [sessions EXCEPT ![s] = [row EXCEPT !.revoked = TRUE]]
          /\ [sessions EXCEPT ![s].expired = TRUE] = [sessions EXCEPT ![s] = [row EXCEPT !.expired = TRUE]]
      BY <2>2
    <2>6. ASSUME NEW f, NEW new \in SessionRows, f = [sessions EXCEPT ![s] = new],
                 new.owner = row.owner, new.there = row.there
          PROVE  Touches(f, s)
      BY <1>3, <2>2, <2>6 DEF Touches
    <2> QED BY <2>3, <2>4, <2>5, <2>6
  <1> QED BY <1>2, <1>3

\* A session is touched, and the request of who touches it goes on.
LEMMA TouchingKeeps ==
    ASSUME SessionInv, NEW s, Touches(sessions', s), NEW c, NEW r \in RequestRecords,
           req' = [req EXCEPT ![c] = r] \/ req' = req,
           r.session <= Len(sessions), r.at # "work" \/ r.owner # 0,
           UNCHANGED <<owners, setups, cookie, losses>>
    PROVE  SessionInv'
  <1>1. sessions \in Seq(SessionRows) /\ Len(sessions) \in Nat
    BY DEF SessionInv, SessionTypeOK
  <1>2. \A x \in DOMAIN sessions : sessions[x].there => sessions[x].owner \in owners
    BY DEF SessionInv, SessionsAreOwned
  <1>3. /\ sessions' \in Seq(SessionRows) /\ Len(sessions') = Len(sessions)
        /\ \A x \in DOMAIN sessions' : sessions'[x].there => sessions'[x].owner \in owners
    <2>1. CASE sessions' = sessions
      BY <1>1, <1>2, <2>1
    <2>2. CASE sessions' # sessions
      <3>1. PICK row \in SessionRows :
               /\ s \in DOMAIN sessions /\ sessions' = [sessions EXCEPT ![s] = row]
               /\ row.owner = sessions[s].owner /\ row.there = sessions[s].there
        BY <2>2 DEF Touches
      <3> QED BY <3>1, OneSession
    <2> QED BY <2>1, <2>2
  <1>4. Len(sessions') >= Len(sessions) /\ r.session <= Len(sessions')
    BY <1>1, <1>3
  <1>5. /\ sessions' \in Seq(SessionRows)
        /\ \A x \in DOMAIN sessions' : sessions'[x].there => sessions'[x].owner \in owners
    BY <1>3
  <1> QED BY <1>4, <1>5, SessionsMove, Zenon

LEMMA RotateCsrfKeeps ==
    ASSUME SessionInv, NEW c \in Clients, RotateCsrf(c) PROVE SessionInv'
  <1> DEFINE s == req[c].session
             Moves(place) == [req[c] EXCEPT !.at = place]
             Ends(code) == [req[c] EXCEPT !.at = "answered", !.code = code]
  <1>1. /\ \A place \in Places : Moves(place) \in RequestRecords
        /\ \A code \in Codes : Ends(code) \in RequestRecords
        /\ s <= Len(sessions)
    BY MovesOfRequests
  <1>2. /\ "send" \in Places /\ "authentication_failed" \in Codes
        /\ "session_not_found" \in Codes
    BY DEF Places, Codes
  <1>3. /\ Moves("send").session = s /\ Moves("send").at # "work"
        /\ \A code : Ends(code).session = s /\ Ends(code).at # "work"
    BY MovesOfRequests DEF RequestRecords
  <1>4. PICK r \in RequestRecords : /\ req' = [req EXCEPT ![c] = r] 
                                    /\ r.session = s /\ r.at # "work"
    <2>1. \/ req' = [req EXCEPT ![c] = Moves("send")]
          \/ \E code \in Codes : req' = [req EXCEPT ![c] = Ends(code)]
      BY <1>2 DEF RotateCsrf, Answer, Move, Set
    <2> QED BY <1>1, <1>2, <1>3, <2>1
  <1>5. Touches(sessions', s)
    <2>1. sessions' = sessions \/ sessions' = [sessions EXCEPT ![s].csrf = {c}]
      BY DEF RotateCsrf
    <2>2. Touches(sessions, s)
      BY DEF Touches
    <2>3. Touches([sessions EXCEPT ![s].csrf = {c}], s)
      BY Touching
    <2> QED BY <2>1, <2>2, <2>3
  <1>6. UNCHANGED <<owners, setups, cookie, losses>>
    BY DEF RotateCsrf
  <1>7. r.session <= Len(sessions)
    BY <1>1, <1>4
  <1> HIDE DEF s, Moves, Ends
  <1> QED BY <1>4, <1>5, <1>6, <1>7, TouchingKeeps

LEMMA SendKeeps ==
    ASSUME SessionInv, NEW c \in Clients, Send(c) PROVE SessionInv'
  <1> DEFINE r == [req[c] EXCEPT !.at = "write", !.session = cookie]
  <1>1. cookie \in Nat /\ cookie <= Len(sessions) /\ losses \in Nat
    BY DEF SessionInv, SessionTypeOK, SessionsExist
  <1>2. PICK q \in RequestRecords : q = req[c]
    BY MovesOfRequests
  <1>3. "write" \in Places
    BY DEF Places
  <1>4. [q EXCEPT !.at = "write", !.session = cookie] \in RequestRecords
    BY <1>1, <1>3 DEF RequestRecords
  <1>5. r \in RequestRecords
    BY <1>2, <1>4, Zenon
  <1>6. r.session = cookie /\ r.at = "write"
    BY <1>2 DEF RequestRecords
  <1>7. Set(c, r) /\ UNCHANGED <<auth, losses>>
    BY DEF Send
  <1> HIDE DEF r
  <1> QED BY <1>1, <1>5, <1>6, <1>7, RequestMoves

\* The owner a session is found to have is one there is.
LEMMA LiveIsOwned ==
    ASSUME SessionInv, NEW s \in Nat, s <= Len(sessions), Live(s)
    PROVE  s \in DOMAIN sessions /\ sessions[s].owner \in owners
           /\ sessions[s].owner \in 1 .. setups
  <1>1. sessions \in Seq(SessionRows) /\ setups \in Nat
    BY DEF SessionInv, SessionTypeOK
  <1>2. s \in DOMAIN sessions
    BY <1>1 DEF Live
  <1>3. sessions[s].owner \in owners
    BY <1>2 DEF Live, SessionInv, SessionsAreOwned
  <1> QED BY <1>2, <1>3 DEF SessionInv, OwnersAreFresh

LEMMA AuthenticateWriteKeeps ==
    ASSUME SessionInv, NEW c \in Clients, AuthenticateWrite(c) PROVE SessionInv'
  <1> DEFINE s == req[c].session
             r == [req[c] EXCEPT !.at = "work", !.owner = sessions[s].owner]
  <1>1. UNCHANGED auth /\ losses' \in Nat
    BY DEF AuthenticateWrite, SessionInv, SessionTypeOK
  <1>2. "csrf_validation_failed" \in Codes /\ "authentication_failed" \in Codes
    BY DEF Codes
  <1>3. CASE Answer(c, "authentication_failed") \/ Answer(c, "csrf_validation_failed")
    BY <1>1, <1>2, <1>3, Answers
  <1>4. CASE Live(s) /\ Set(c, r)
    <2>1. s \in Nat /\ s <= Len(sessions)
      BY MovesOfRequests
    <2>2. sessions[s].owner \in 1 .. setups /\ setups \in Nat
      BY <1>4, <2>1, LiveIsOwned DEF SessionInv, SessionTypeOK
    <2>3. PICK q \in RequestRecords : q = req[c]
      BY MovesOfRequests
    <2>4. PICK o \in Nat : o = sessions[s].owner /\ o # 0
      BY <2>2
    <2>5. "work" \in Places
      BY DEF Places
    <2>6. [q EXCEPT !.at = "work", !.owner = o] \in RequestRecords
      BY <2>5 DEF RequestRecords
    <2>7. r = [q EXCEPT !.at = "work", !.owner = o]
      BY <2>3, <2>4
    <2>8. r \in RequestRecords /\ r.session = s /\ r.owner = o
      BY <2>3, <2>6, <2>7 DEF RequestRecords
    <2> HIDE DEF r
    <2> QED BY <1>1, <1>4, <2>1, <2>4, <2>8, RequestMoves
  <1>5. Answer(c, "authentication_failed") \/ Answer(c, "csrf_validation_failed")
        \/ (Live(s) /\ Set(c, r))
    BY DEF AuthenticateWrite
  <1> QED BY <1>3, <1>4, <1>5

LEMMA LoseRequestKeeps ==
    ASSUME SessionInv, NEW c \in Clients, LoseRequest(c) PROVE SessionInv'
  <1>1. UNCHANGED auth /\ losses' \in Nat /\ Answer(c, "network_error")
    BY DEF LoseRequest, SessionInv, SessionTypeOK
  <1>2. "network_error" \in Codes
    BY DEF Codes
  <1> QED BY <1>1, <1>2, Answers

LEMMA BootstrapKeeps ==
    ASSUME SessionInv, NEW c \in Clients, Bootstrap(c) PROVE SessionInv'
  <1> DEFINE refused == Request("login", "answered", 0, 0, "bootstrap_already_completed")
             new     == Request("login", "create", 0, setups + 1, "none")
  <1>1. /\ setups \in Nat /\ losses \in Nat /\ cookie \in Nat /\ owners \subseteq Nat
        /\ sessions \in Seq(SessionRows) /\ Len(sessions) \in Nat
        /\ req \in [Clients -> RequestRecords]
    BY DEF SessionInv, SessionTypeOK
  <1>2. refused \in RequestRecords /\ new \in RequestRecords
    BY <1>1 DEF Request, RequestRecords, Kinds, Places, Codes
  <1>3. /\ refused.session = 0 /\ refused.at # "work"
        /\ new.session = 0 /\ new.at # "work"
    BY DEF Request
  <1>4. CASE Set(c, refused) /\ UNCHANGED <<owners, setups>>
    <2>1. UNCHANGED auth /\ losses' \in Nat
      BY <1>1, <1>4 DEF Bootstrap, auth
    <2> HIDE DEF refused
    <2> QED BY <1>1, <1>2, <1>3, <1>4, <2>1, RequestMoves
  <1>5. CASE Set(c, new) /\ owners = {} /\ setups' = setups + 1 /\ owners' = {setups + 1}
    <2>1. UNCHANGED <<sessions, cookie, losses>>
      BY DEF Bootstrap
    <2> HIDE DEF new
    <2>2. req' \in [Clients -> RequestRecords]
          /\ \A d \in Clients : req'[d] = IF d = c THEN new ELSE req[d]
      BY <1>1, <1>2, <1>5 DEF Set
    <2>3. SessionTypeOK'
      BY <1>1, <1>5, <2>1, <2>2 DEF SessionTypeOK
    <2>4. OwnersAreFresh'
      BY <1>1, <1>5 DEF OwnersAreFresh
    <2>5. Cardinality(owners') <= 1
      BY <2>4, AtMostOne DEF OwnersAreFresh
    <2>6. \A s \in DOMAIN sessions : ~ sessions[s].there
      BY <1>5 DEF SessionInv, SessionsAreOwned
    <2>7. SessionsAreOwned'
      BY <2>1, <2>5, <2>6 DEF SessionsAreOwned
    <2>8. SessionsExist'
      BY <1>1, <1>3, <2>1, <2>2 DEF SessionInv, SessionsExist, At
    <2> QED BY <2>3, <2>4, <2>7, <2>8 DEF SessionInv
  <1> QED BY <1>4, <1>5 DEF Bootstrap

LEMMA LoginKeeps ==
    ASSUME SessionInv, NEW c \in Clients, Login(c) PROVE SessionInv'
  <1> DEFINE refused == Request("login", "answered", cookie, 0, "authentication_failed")
             found(o) == Request("login", "current", cookie, o, "none")
  <1>1. /\ losses' \in Nat /\ UNCHANGED auth /\ cookie \in Nat /\ owners \subseteq Nat
        /\ cookie <= Len(sessions)
    BY DEF Login, SessionInv, SessionTypeOK, SessionsExist
  <1>2. refused \in RequestRecords /\ \A o \in owners : found(o) \in RequestRecords
    BY <1>1 DEF Request, RequestRecords, Kinds, Places, Codes
  <1>3. /\ refused.session = cookie /\ refused.at # "work"
        /\ \A o : found(o).session = cookie /\ found(o).at # "work"
    BY DEF Request
  <1>4. Set(c, refused) \/ \E o \in owners : Set(c, found(o))
    BY DEF Login
  <1> HIDE DEF refused, found
  <1> QED BY <1>1, <1>2, <1>3, <1>4, RequestMoves

LEMMA LoginCurrentKeeps ==
    ASSUME SessionInv, NEW c \in Clients, LoginCurrent(c) PROVE SessionInv'
  <1>1. UNCHANGED auth /\ losses' \in Nat
    BY DEF LoginCurrent, SessionInv, SessionTypeOK
  <1>2. Move(c, "revoke") \/ Move(c, "create")
    BY DEF LoginCurrent
  <1>3. "revoke" \in Places /\ "create" \in Places
    BY DEF Places
  <1> QED BY <1>1, <1>2, <1>3, MovesOn

\* A login or a logout revokes the session it came with.
LEMMA RevokingKeeps ==
    ASSUME SessionInv, NEW c \in Clients, sessions' = Revoked(req[c].session),
           NEW r \in RequestRecords, Set(c, r), r.session = req[c].session, r.at # "work",
           UNCHANGED <<owners, setups, cookie, losses>>
    PROVE  SessionInv'
  <1>1. Touches(sessions', req[c].session)
    BY Touching DEF Revoked
  <1>2. req[c].session <= Len(sessions)
    BY MovesOfRequests
  <1> QED BY <1>1, <1>2, TouchingKeeps DEF Set

LEMMA LoginRevokeKeeps ==
    ASSUME SessionInv, NEW c \in Clients, LoginRevoke(c) PROVE SessionInv'
  <1> DEFINE r == [req[c] EXCEPT !.at = "create"]
  <1>1. "create" \in Places
    BY DEF Places
  <1>2. r \in RequestRecords /\ r.session = req[c].session /\ r.at # "work"
    BY <1>1, MovesOfRequests DEF RequestRecords
  <1>3. Set(c, r) /\ sessions' = Revoked(req[c].session)
        /\ UNCHANGED <<owners, setups, cookie, losses>>
    BY DEF LoginRevoke, Move
  <1> HIDE DEF r
  <1> QED BY <1>2, <1>3, RevokingKeeps

LEMMA LogOutKeeps ==
    ASSUME SessionInv, NEW c \in Clients, LogOut(c) PROVE SessionInv'
  <1> DEFINE r == [req[c] EXCEPT !.at = "answered", !.code = "ok"]
  <1>1. "ok" \in Codes
    BY DEF Codes
  <1>2. r \in RequestRecords /\ r.session = req[c].session /\ r.at # "work"
    BY <1>1, MovesOfRequests DEF RequestRecords
  <1>3. Set(c, r) /\ sessions' = Revoked(req[c].session)
        /\ UNCHANGED <<owners, setups, cookie, losses>>
    BY DEF LogOut, Answer
  <1> HIDE DEF r
  <1> QED BY <1>2, <1>3, RevokingKeeps

LEMMA CreateSessionKeeps ==
    ASSUME SessionInv, NEW c \in Clients, CreateSession(c) PROVE SessionInv'
  <1> DEFINE o == req[c].owner
             r == [req[c] EXCEPT !.at = "answered", !.code = "ok", !.session = Len(sessions) + 1]
  <1>1. /\ UNCHANGED <<owners, setups, cookie, losses>> /\ losses \in Nat
    BY DEF CreateSession, SessionInv, SessionTypeOK
  <1>2. CASE Answer(c, "integrity_error") /\ UNCHANGED sessions
    <2>1. "integrity_error" \in Codes
      BY DEF Codes
    <2> QED BY <1>1, <1>2, <2>1, Answers DEF auth
  <1>3. CASE o \in owners /\ sessions' = Append(sessions, Session(o)) /\ Set(c, r)
    <2>1. sessions \in Seq(SessionRows) /\ Len(sessions) \in Nat /\ o \in Nat
      BY MovesOfRequests
    <2>2. Session(o) \in SessionRows /\ Session(o).owner = o
      BY <2>1 DEF Session, SessionRows
    <2>3. /\ sessions' \in Seq(SessionRows) /\ Len(sessions') = Len(sessions) + 1
          /\ \A s \in DOMAIN sessions' :
                sessions'[s] = IF s = Len(sessions) + 1 THEN Session(o) ELSE sessions[s]
          /\ \A s \in DOMAIN sessions' : s = Len(sessions) + 1 \/ s \in DOMAIN sessions
      BY <1>3, <2>1, <2>2
    <2>4. \A s \in DOMAIN sessions' : sessions'[s].there => sessions'[s].owner \in owners
      BY <1>3, <2>2, <2>3 DEF SessionInv, SessionsAreOwned
    <2>5. PICK q \in RequestRecords : q = req[c]
      BY MovesOfRequests
    <2>6. PICK n \in Nat : n = Len(sessions) + 1
      BY <2>1
    <2>7. "answered" \in Places /\ "ok" \in Codes
      BY DEF Places, Codes
    <2>8. [q EXCEPT !.at = "answered", !.code = "ok", !.session = n] \in RequestRecords
      BY <2>7 DEF RequestRecords
    <2>9. r = [q EXCEPT !.at = "answered", !.code = "ok", !.session = n]
      BY <2>5, <2>6
    <2>10. r \in RequestRecords /\ r.session = n /\ r.at # "work"
      BY <2>8, <2>9 DEF RequestRecords
    <2>11. req' = [req EXCEPT ![c] = r]
      BY <1>3 DEF Set
    <2> HIDE DEF r
    <2>12. r.session <= Len(sessions') /\ Len(sessions') >= Len(sessions)
      BY <2>1, <2>3, <2>6, <2>10
    <2> QED BY <1>1, <2>3, <2>4, <2>10, <2>11, <2>12, SessionsMove
  <1> QED BY <1>2, <1>3 DEF CreateSession, Refers

LEMMA SetCookieKeeps ==
    ASSUME SessionInv, NEW c \in Clients, SetCookie(c) PROVE SessionInv'
  <1>1. /\ req[c].session \in Nat /\ req[c].session <= Len(sessions)
        /\ Len(sessions) \in Nat
    BY MovesOfRequests
  <1>2. /\ cookie \in Nat /\ cookie <= Len(sessions) /\ req \in [Clients -> RequestRecords]
    BY DEF SessionInv, SessionTypeOK, SessionsExist
  <1>3. cookie' \in Nat /\ cookie' <= Len(sessions)
    BY <1>1, <1>2 DEF SetCookie
  <1>4. NoRequest \in RequestRecords /\ NoRequest.session = 0 /\ NoRequest.at # "work"
    BY DEF NoRequest, Request, RequestRecords, Kinds, Places, Codes
  <1>5. req' = [req EXCEPT ![c] = NoRequest] /\ UNCHANGED <<owners, setups, sessions, losses>>
    BY DEF SetCookie, Set
  <1>6. \A d \in Clients : req'[d] = IF d = c THEN NoRequest ELSE req[d]
    BY <1>2, <1>5
  <1>7. SessionTypeOK'
    BY <1>2, <1>3, <1>4, <1>5 DEF SessionInv, SessionTypeOK
  <1>8. SessionsAreOwned' /\ OwnersAreFresh'
    BY <1>5 DEF SessionInv, SessionsAreOwned, OwnersAreFresh
  <1>9. SessionsExist'
    BY <1>1, <1>3, <1>4, <1>5, <1>6 DEF SessionInv, SessionsExist, At
  <1> QED BY <1>7, <1>8, <1>9 DEF SessionInv

LEMMA ExpireKeeps ==
    ASSUME SessionInv, NEW s \in DOMAIN sessions, Expire(s)
    PROVE  SessionInv'
  <1>1. Touches(sessions', s)
    BY Touching DEF Expire
  <1>2. req' = req /\ UNCHANGED <<owners, setups, cookie, losses>>
    BY DEF Expire
  <1>3. NoRequest \in RequestRecords /\ NoRequest.session = 0 /\ NoRequest.at # "work"
    BY DEF NoRequest, Request, RequestRecords, Kinds, Places, Codes
  <1>4. NoRequest.session <= Len(sessions)
    BY <1>3 DEF SessionInv, SessionTypeOK
  <1>5. PICK r \in RequestRecords : r.session <= Len(sessions) /\ r.at # "work"
    BY <1>3, <1>4
  <1> QED BY <1>1, <1>2, <1>5, TouchingKeeps

LEMMA DeleteWorkspaceKeeps ==
    ASSUME SessionInv, NEW c \in Clients, DeleteWorkspace(c) PROVE SessionInv'
  <1> DEFINE r == [req[c] EXCEPT !.at = "answered", !.code = "ok"]
             gone == req[c].owner
  <1>1. /\ sessions \in Seq(SessionRows) /\ Len(sessions) \in Nat
        /\ req \in [Clients -> RequestRecords]
        /\ setups \in Nat /\ cookie \in Nat /\ losses \in Nat
        /\ owners \subseteq 1 .. setups /\ owners \subseteq Nat
    BY DEF SessionInv, SessionTypeOK, OwnersAreFresh
  <1>2. "ok" \in Codes
    BY DEF Codes
  <1>3. r \in RequestRecords /\ r.session = req[c].session /\ r.at # "work"
        /\ r.session <= Len(sessions)
    BY <1>2, MovesOfRequests DEF RequestRecords
  <1>4. /\ req' = [req EXCEPT ![c] = r] /\ owners' = owners \ {gone}
        /\ UNCHANGED <<setups, cookie, losses>>
    BY DEF DeleteWorkspace, Answer, Set
  <1> HIDE DEF r
  <1>5. \A d \in Clients : req'[d] = IF d = c THEN r ELSE req[d]
    BY <1>1, <1>4
  <1>6. req' \in [Clients -> RequestRecords]
    BY <1>1, <1>3, <1>4
  <1>7. /\ sessions' \in Seq(SessionRows) /\ Len(sessions') = Len(sessions)
        /\ \A s \in DOMAIN sessions' : sessions'[s].there =>
              sessions[s].there /\ sessions[s].owner # gone /\ sessions'[s].owner = sessions[s].owner
    <2> DEFINE e(s) == sessions[s].there /\ sessions[s].owner # gone
               new(s) == [sessions[s] EXCEPT !.there = e(s)]
    <2>1. sessions' = [s \in DOMAIN sessions |-> new(s)]
      BY DEF DeleteWorkspace
    <2>2. ASSUME NEW s \in DOMAIN sessions
          PROVE  new(s) \in SessionRows /\ new(s).owner = sessions[s].owner /\ new(s).there = e(s)
      <3>1. PICK row \in SessionRows : row = sessions[s]
        BY <1>1
      <3>2. e(s) \in BOOLEAN
        BY <1>1 DEF SessionRows
      <3> HIDE DEF e
      <3>3. PICK b \in BOOLEAN : b = e(s)
        BY <3>2
      <3>4. new(s) = [row EXCEPT !.there = b]
        BY <3>1, <3>3
      <3>5. [row EXCEPT !.there = b] \in SessionRows
            /\ [row EXCEPT !.there = b].owner = row.owner
            /\ [row EXCEPT !.there = b].there = b
        BY DEF SessionRows
      <3> HIDE DEF new
      <3> QED BY <3>1, <3>3, <3>4, <3>5
    <2> HIDE DEF e
    <2>3. DOMAIN sessions = 1 .. Len(sessions)
      BY <1>1
    <2> HIDE DEF new
    <2>4. sessions' \in [1 .. Len(sessions) -> SessionRows]
      BY <2>1, <2>2, <2>3
    <2>6. /\ sessions' \in Seq(SessionRows) /\ Len(sessions') = Len(sessions)
          /\ DOMAIN sessions' = DOMAIN sessions
      BY <1>1, <2>3, <2>4
    <2>5. \A s \in DOMAIN sessions : sessions'[s] = new(s)
      BY <2>1
    <2> QED BY <2>2, <2>6, <2>5 DEF e
  <1>8. SessionTypeOK'
    BY <1>1, <1>4, <1>6, <1>7 DEF SessionTypeOK
  <1>9. OwnersAreFresh'
    BY <1>1, <1>4 DEF SessionInv, OwnersAreFresh
  <1>10. Cardinality(owners') <= 1
    BY <1>9, AtMostOne DEF OwnersAreFresh
  <1>11. SessionsAreOwned'
    BY <1>4, <1>7, <1>10 DEF SessionInv, SessionsAreOwned
  <1>12. SessionsExist'
    BY <1>1, <1>3, <1>4, <1>5, <1>7 DEF SessionInv, SessionsExist, At
  <1> QED BY <1>8, <1>9, <1>11, <1>12 DEF SessionInv

-----------------------------------------------------------------------------
(* The invariant of the editor, by draft, tab and request.                 *)

DraftGood ==
    /\ draft \in [owner : Nat, rows : Seq(Rows)] /\ edits \in Nat
    /\ DraftIsOwned /\ AppliedWasPreviewed

\* x is what a tab holds, m what its user has made.
TabGood(x, m) ==
    /\ x \in EditorStates /\ m \in MadeStates
    /\ ~ m.overtaken => x.spec = m.spec /\ x.layout = m.layout
    /\ x.revision # 0 => Known(x.of)
    /\ x.revision # 0 /\ ~ x.dirty /\ x.of = draft.owner =>
          /\ x.revision <= Revision
          /\ x.spec = draft.rows[x.revision].spec
          /\ x.layout = draft.rows[x.revision].layout
    /\ x.panel.diff # NoDiff =>
          x.panel.diff = [against |-> x.revision, of |-> x.panel.candidate]

TabsGood ==
    /\ tab \in [Tabs -> EditorStates] /\ made \in [Tabs -> MadeStates]
    /\ \A t \in Tabs : TabGood(tab[t], made[t])

\* r is the request of a tab, j what it has submitted.
RequestGood(r, j) ==
    /\ r.work \in {"none", "save", "preview"}
    /\ r.at \notin {"current", "revoke", "create"}
    /\ r.at = "answered" /\ r.work = "save" /\ r.code = "ok" =>
          /\ Known(r.owner)
          /\ r.owner = draft.owner =>
                /\ j.saved \in 1 .. Revision
                /\ draft.rows[j.saved].spec = j.spec
                /\ draft.rows[j.saved].layout = j.layout
    /\ j.diff # NoDiff => j.diff = [against |-> j.base, of |-> j.spec]

Previews(c) == req[c].work = "preview" => c[2] = "preview" /\ tab[c[1]].panel.diff = NoDiff

RequestsGood ==
    /\ job \in [EditorClients -> Jobs]
    /\ \A c \in EditorClients : RequestGood(req[c], job[c]) /\ Previews(c)

LEMMA InvInParts == IInv <=> SessionInv /\ DraftGood /\ TabsGood /\ RequestsGood
  <1>2. TabsGood <=> /\ made \in [Tabs -> MadeStates] /\ tab \in [Tabs -> EditorStates]
                     /\ TabsAreKnown /\ EditorKeepsWork
                     /\ \A t \in Tabs : LET p == tab[t].panel IN
                          p.diff # NoDiff =>
                            p.diff = [against |-> tab[t].revision, of |-> p.candidate]
    BY DEF TabsGood, TabGood, TabsAreKnown, EditorKeepsWork, ShowsWhatWasMade, Ready
  <1>3. RequestsGood <=> /\ job \in [EditorClients -> Jobs] /\ EditorRequests /\ SavedIsThere
                         /\ \A c \in EditorClients : LET j == job[c] IN
                              j.diff # NoDiff => j.diff = [against |-> j.base, of |-> j.spec]
    BY DEF RequestsGood, RequestGood, Previews, EditorRequests, SavedIsThere, SaveDone, At
  <1> QED BY <1>2, <1>3 DEF IInv, TypeOK, DraftGood, DiffsAreTrue

\* The draft of an owner who is known grows, unless it goes for good.
DraftMoves ==
    \A o \in Nat : Known(o) =>
        /\ Known(o)'
        /\ o = draft'.owner =>
              /\ o = draft.owner
              /\ Revision <= Revision'
              /\ \A r \in 1 .. Revision : draft'.rows[r] = draft.rows[r]

LEMMA TabStays ==
    ASSUME DraftGood, DraftMoves, DraftGood', NEW x, NEW m, TabGood(x, m)
    PROVE  TabGood(x, m)'
  <1>1. Revision \in Nat /\ Revision' \in Nat
    BY DEF DraftGood, Revision
  <1>2. x \in EditorStates /\ m \in MadeStates /\ x.of \in Nat /\ x.revision \in Nat
    BY DEF TabGood, EditorStates
  <1>3. x.revision # 0 => Known(x.of)'
    BY <1>2 DEF TabGood, DraftMoves
  <1>4. ASSUME x.revision # 0, ~ x.dirty, x.of = draft'.owner
        PROVE  /\ x.revision <= Revision'
               /\ x.spec = draft'.rows[x.revision].spec
               /\ x.layout = draft'.rows[x.revision].layout
    <2>1. /\ x.of = draft.owner /\ Revision <= Revision'
          /\ \A r \in 1 .. Revision : draft'.rows[r] = draft.rows[r]
      BY <1>2, <1>4 DEF TabGood, DraftMoves
    <2>2. /\ x.revision <= Revision
          /\ x.spec = draft.rows[x.revision].spec
          /\ x.layout = draft.rows[x.revision].layout
      BY <1>4, <2>1 DEF TabGood
    <2> QED BY <1>1, <1>2, <1>4, <2>1, <2>2
  <1> QED BY <1>2, <1>3, <1>4 DEF TabGood

LEMMA RequestStays ==
    ASSUME DraftGood, DraftMoves, DraftGood', NEW r \in RequestRecords, NEW j \in Jobs,
           RequestGood(r, j)
    PROVE  RequestGood(r, j)'
  <1>1. Revision \in Nat /\ Revision' \in Nat /\ r.owner \in Nat /\ j.saved \in Nat
    BY DEF DraftGood, Revision, RequestRecords, Jobs
  <1>2. ASSUME r.at = "answered", r.work = "save", r.code = "ok"
        PROVE  /\ Known(r.owner)'
               /\ r.owner = draft'.owner =>
                     /\ j.saved \in 1 .. Revision'
                     /\ draft'.rows[j.saved].spec = j.spec
                     /\ draft'.rows[j.saved].layout = j.layout
    <2>1. Known(r.owner) /\ Known(r.owner)'
      BY <1>1, <1>2 DEF RequestGood, DraftMoves
    <2>2. ASSUME r.owner = draft'.owner
          PROVE  /\ j.saved \in 1 .. Revision'
                 /\ draft'.rows[j.saved].spec = j.spec
                 /\ draft'.rows[j.saved].layout = j.layout
      <3>1. /\ r.owner = draft.owner /\ Revision <= Revision'
            /\ \A x \in 1 .. Revision : draft'.rows[x] = draft.rows[x]
        BY <1>1, <2>1, <2>2 DEF DraftMoves
      <3>2. /\ j.saved \in 1 .. Revision
            /\ draft.rows[j.saved].spec = j.spec
            /\ draft.rows[j.saved].layout = j.layout
        BY <1>2, <3>1 DEF RequestGood
      <3> QED BY <1>1, <3>1, <3>2
    <2> QED BY <2>1, <2>2
  <1> QED BY <1>2 DEF RequestGood

LEMMA TabUpdated ==
    ASSUME DraftGood, TabsGood, DraftMoves, DraftGood', NEW t \in Tabs, NEW new, NEW m,
           tab' = [tab EXCEPT ![t] = new], made' = [made EXCEPT ![t] = m], TabGood(new, m)'
    PROVE  TabsGood'
  <1>1. new \in EditorStates /\ m \in MadeStates
    BY DEF TabGood
  <1>2. tab \in [Tabs -> EditorStates] /\ made \in [Tabs -> MadeStates]
    BY DEF TabsGood
  <1>3. /\ tab' \in [Tabs -> EditorStates] /\ made' \in [Tabs -> MadeStates]
        /\ tab'[t] = new /\ made'[t] = m
        /\ \A u \in Tabs : u # t => tab'[u] = tab[u] /\ made'[u] = made[u]
    BY <1>1, <1>2
  <1>4. ASSUME NEW u \in Tabs PROVE TabGood(tab[u], made[u])' 
    <2>1. CASE u = t
      BY <1>3, <2>1 DEF TabGood
    <2>2. CASE u # t
      <3>1. PICK x, k : x = tab[u] /\ k = made[u] /\ TabGood(x, k)
        BY DEF TabsGood
      <3>2. TabGood(x, k)'
        BY <3>1, TabStays
      <3>3. x = tab'[u] /\ k = made'[u]
        BY <1>3, <2>2, <3>1
      <3> QED BY <3>2, <3>3 DEF TabGood
    <2> QED BY <2>1, <2>2
  <1> QED BY <1>3, <1>4 DEF TabsGood

LEMMA TabsStay ==
    ASSUME DraftGood, TabsGood, DraftMoves, DraftGood', UNCHANGED <<tab, made>>
    PROVE  TabsGood'
  <1>1. ASSUME NEW u \in Tabs PROVE TabGood(tab[u], made[u])' 
    <2>1. PICK x, k : x = tab[u] /\ k = made[u] /\ TabGood(x, k)
      BY DEF TabsGood
    <2>2. TabGood(x, k)'
      BY <2>1, TabStays
    <2> QED BY <2>1, <2>2 DEF TabGood
  <1> QED BY <1>1 DEF TabsGood

LEMMA RequestUpdated ==
    ASSUME SessionInv, DraftGood, RequestsGood, DraftMoves, DraftGood',
           NEW c \in EditorClients, NEW r, NEW j \in Jobs,
           Set(c, r), job' = [job EXCEPT ![c] = j], RequestGood(r, j)',
           \A d \in EditorClients : Previews(d)'
    PROVE  RequestsGood'
  <1>1. EditorClients \subseteq Clients
    BY EditorAssumption
  <1>2. req \in [Clients -> RequestRecords] /\ job \in [EditorClients -> Jobs]
    BY DEF SessionInv, SessionTypeOK, RequestsGood
  <1>3. /\ job' \in [EditorClients -> Jobs] /\ req'[c] = r /\ job'[c] = j
        /\ \A d \in EditorClients : d # c => req'[d] = req[d] /\ job'[d] = job[d]
    BY <1>1, <1>2 DEF Set
  <1>4. ASSUME NEW d \in EditorClients PROVE RequestGood(req[d], job[d])'
    <2>1. CASE d = c
      BY <1>3, <2>1 DEF RequestGood
    <2>2. CASE d # c
      <3>1. PICK x \in RequestRecords, k \in Jobs :
               x = req[d] /\ k = job[d] /\ RequestGood(x, k)
        BY <1>1, <1>2 DEF RequestsGood
      <3>2. RequestGood(x, k)'
        BY <3>1, RequestStays
      <3>3. x = req'[d] /\ k = job'[d]
        BY <1>3, <2>2, <3>1
      <3> QED BY <3>2, <3>3 DEF RequestGood
    <2> QED BY <2>1, <2>2
  <1> QED BY <1>3, <1>4 DEF RequestsGood

LEMMA RequestsStay ==
    ASSUME SessionInv, DraftGood, RequestsGood, DraftMoves, DraftGood', job' = job,
           \A d \in EditorClients : req'[d] = req[d], \A d \in EditorClients : Previews(d)'
    PROVE  RequestsGood'
  <1>1. req \in [Clients -> RequestRecords] /\ job \in [EditorClients -> Jobs]
        /\ EditorClients \subseteq Clients
    BY EditorAssumption DEF SessionInv, SessionTypeOK, RequestsGood
  <1>2. ASSUME NEW d \in EditorClients PROVE RequestGood(req[d], job[d])'
    <2>1. PICK x \in RequestRecords, k \in Jobs :
             x = req[d] /\ k = job[d] /\ RequestGood(x, k)
      BY <1>1 DEF RequestsGood
    <2>2. RequestGood(x, k)'
      BY <2>1, RequestStays
    <2>3. x = req'[d] /\ k = job'[d]
      BY <2>1
    <2> QED BY <2>2, <2>3 DEF RequestGood
  <1> QED BY <1>2 DEF RequestsGood

\* Owners may come, with numbers nobody had.
LEMMA OwnersCome ==
    ASSUME DraftGood, owners \subseteq owners', setups \in Nat, setups' \in Nat,
           setups <= setups', owners' \cap (1 .. setups) \subseteq owners,
           draft' = draft, edits' \in Nat
    PROVE  DraftMoves /\ DraftGood'
  <1>1. Revision \in Nat /\ Revision' = Revision
    BY DEF DraftGood, Revision
  <1>2. DraftMoves
    BY <1>1 DEF DraftMoves, Known
  <1>3. DraftIsOwned'
    BY <1>1 DEF DraftGood, DraftIsOwned
  <1>4. AppliedWasPreviewed'
    BY DEF DraftGood, AppliedWasPreviewed
  <1> QED BY <1>2, <1>3, <1>4 DEF DraftGood

LEMMA DraftStays ==
    ASSUME SessionInv, DraftGood, UNCHANGED <<owners, setups, draft>>, edits' \in Nat
    PROVE  DraftMoves /\ DraftGood'
  <1>1. setups \in Nat
    BY DEF SessionInv, SessionTypeOK
  <1> QED BY <1>1, OwnersCome

LEMMA PreviewsStay ==
    ASSUME RequestsGood,
           \A d \in EditorClients : req'[d].work \in {req[d].work, "none", "save"},
           \A t \in Tabs : tab'[t].panel.diff \in {tab[t].panel.diff, NoDiff}
    PROVE  \A d \in EditorClients : Previews(d)'
  <1> SUFFICES ASSUME NEW d \in EditorClients, req'[d].work = "preview"
               PROVE  d[2] = "preview" /\ tab'[d[1]].panel.diff = NoDiff
    BY DEF Previews
  <1>1. req[d].work = "preview"
    OBVIOUS
  <1>2. d[2] = "preview" /\ tab[d[1]].panel.diff = NoDiff
    BY <1>1 DEF RequestsGood, Previews
  <1>3. d[1] \in Tabs
    BY EditorAssumption
  <1> QED BY <1>2, <1>3

\* A request goes on, the editor does not hear of it.
LEMMA OnlySessions ==
    ASSUME IInv, SessionInv', NEW c \in Clients, NEW r \in RequestRecords,
           UNCHANGED <<draft, tab, job, made, edits>>, UNCHANGED <<owners, setups>>,
           Set(c, r),
           c \in EditorClients => /\ r.work = req[c].work
                                  /\ r.at \notin {"current", "revoke", "create"}
                                  /\ r.at = "answered" => r.code # "ok"
    PROVE  IInv'
  <1>1. SessionInv /\ DraftGood /\ TabsGood /\ RequestsGood
    BY InvInParts
  <1>2. DraftMoves /\ DraftGood'
    BY <1>1, DraftStays DEF DraftGood
  <1>3. TabsGood'
    BY <1>1, <1>2, TabsStay
  <1>4. req \in [Clients -> RequestRecords] /\ EditorClients \subseteq Clients
    BY <1>1, EditorAssumption DEF SessionInv, SessionTypeOK
  <1>5. \A d \in Clients : req'[d] = IF d = c THEN r ELSE req[d]
    BY <1>4 DEF Set
  <1>6. \A d \in EditorClients : Previews(d)'
    BY <1>1, <1>4, <1>5, PreviewsStay
  <1>7. RequestsGood'
    <2>1. CASE c \notin EditorClients
      BY <1>1, <1>2, <1>4, <1>5, <1>6, <2>1, RequestsStay
    <2>2. CASE c \in EditorClients
      <3> DEFINE j == job[c]
      <3>1. j \in Jobs /\ job' = [job EXCEPT ![c] = j]
        BY <1>1, <2>2 DEF RequestsGood
      <3>2. RequestGood(r, j)'
        BY <1>1, <2>2 DEF RequestsGood, RequestGood
      <3> HIDE DEF j
      <3>3. PICK k \in Jobs : k = j
        BY <3>1
      <3>4. job' = [job EXCEPT ![c] = k] /\ RequestGood(r, k)'
        BY <3>1, <3>2, <3>3 DEF RequestGood, j
      <3> QED BY <1>1, <1>2, <1>6, <2>2, <3>4, RequestUpdated
    <2> QED BY <2>1, <2>2
  <1> QED BY <1>2, <1>3, <1>7, InvInParts, PTL

-----------------------------------------------------------------------------
(* What happens to the sessions, as the editor sees it.                    *)

LEMMA RequestGoesKeeps ==
    ASSUME IInv, NEW c \in Clients, RequestGoes(c) \/ LoseRequest(c),
           UNCHANGED <<draft, tab, job, made, edits>>
    PROVE  IInv'
  <1>1. SessionInv
    BY InvInParts
  <1>2. SessionInv'
    BY <1>1, AuthenticateSessionKeeps, RotateCsrfKeeps, SendKeeps, AuthenticateWriteKeeps,
       LoseRequestKeeps DEF RequestGoes
  <1>3. UNCHANGED <<owners, setups>>
    BY DEF RequestGoes, LoseRequest, AuthenticateSession, RotateCsrf, Send, AuthenticateWrite, auth
  <1>4. PICK q \in RequestRecords : q = req[c]
    BY <1>1, MovesOfRequests
  <1>5. req \in [Clients -> RequestRecords] /\ req' \in [Clients -> RequestRecords]
    BY <1>1, <1>2 DEF SessionInv, SessionTypeOK
  <1>6. PICK r \in RequestRecords :
             /\ Set(c, r) /\ r.work = req[c].work
             /\ r.at \notin {"current", "revoke", "create"}
             /\ r.at = "answered" => r.code # "ok"
    <2> DEFINE Fine(r) == /\ Set(c, r) /\ r.work = req[c].work
                          /\ r.at \notin {"current", "revoke", "create"}
                          /\ r.at = "answered" => r.code # "ok"
    <2>1. \A r : Set(c, r) => r \in RequestRecords
      BY <1>5 DEF Set
    <2>2. ASSUME NEW code, code # "ok", Answer(c, code) PROVE \E r : Fine(r)
      <3>1. Fine([req[c] EXCEPT !.at = "answered", !.code = code])
        BY <1>4, <2>2 DEF Answer, RequestRecords
      <3> QED BY <3>1
    <2>3. ASSUME NEW place \in {"rotate", "send"}, Move(c, place) PROVE \E r : Fine(r)
      <3>1. Fine([req[c] EXCEPT !.at = place])
        BY <1>4, <2>3 DEF Move, RequestRecords
      <3> QED BY <3>1
    <2>4. ASSUME Send(c) PROVE \E r : Fine(r)
      <3>1. Fine([req[c] EXCEPT !.at = "write", !.session = cookie])
        BY <1>4, <2>4 DEF Send, RequestRecords
      <3> QED BY <3>1
    <2>5. ASSUME NEW o, Set(c, [req[c] EXCEPT !.at = "work", !.owner = o])
          PROVE  \E r : Fine(r)
      <3>1. Fine([req[c] EXCEPT !.at = "work", !.owner = o])
        BY <1>4, <2>5 DEF RequestRecords
      <3> QED BY <3>1
    <2> HIDE DEF Fine
    <2>6. ASSUME AuthenticateSession(c) PROVE \E r : Fine(r)
      BY <2>2, <2>3, <2>6 DEF AuthenticateSession
    <2>7. ASSUME RotateCsrf(c) PROVE \E r : Fine(r)
      BY <2>2, <2>3, <2>7 DEF RotateCsrf
    <2>8. ASSUME AuthenticateWrite(c) PROVE \E r : Fine(r)
      BY <2>2, <2>5, <2>8 DEF AuthenticateWrite
    <2>9. ASSUME LoseRequest(c) PROVE \E r : Fine(r)
      BY <2>2, <2>9 DEF LoseRequest
    <2>10. \E r : Fine(r)
      BY <2>4, <2>6, <2>7, <2>8, <2>9 DEF RequestGoes
    <2> QED BY <2>1, <2>10 DEF Fine
  <1> QED BY <1>2, <1>3, <1>6, OnlySessions

\* A login, the cookie, an expiry: no request of a tab.
LEMMA PagesKeep ==
    ASSUME IInv, SessionInv', UNCHANGED <<draft, tab, job, made, edits>>,
           \A d \in EditorClients : req'[d] = req[d],
           owners \subseteq owners', setups <= setups', owners' \cap (1 .. setups) \subseteq owners
    PROVE  IInv'
  <1>1. SessionInv /\ DraftGood /\ TabsGood /\ RequestsGood
    BY InvInParts
  <1>2. setups \in Nat /\ setups' \in Nat /\ edits' \in Nat
    BY <1>1 DEF SessionInv, SessionTypeOK, DraftGood
  <1>3. DraftMoves /\ DraftGood'
    BY <1>1, <1>2, OwnersCome
  <1>4. TabsGood'
    BY <1>1, <1>3, TabsStay
  <1>5. \A d \in EditorClients : Previews(d)'
    BY <1>1, PreviewsStay
  <1>6. RequestsGood'
    BY <1>1, <1>3, <1>5, RequestsStay
  <1> QED BY <1>3, <1>4, <1>6, InvInParts, PTL

LEMMA NotOfTabs ==
    ASSUME SessionInv, NEW c \in Clients, c \notin EditorClients, NEW r, Set(c, r)
    PROVE  \A d \in EditorClients : req'[d] = req[d]
  BY EditorAssumption DEF SessionInv, SessionTypeOK, Set

LEMMA LoginGoesKeeps ==
    ASSUME IInv, NEW c \in Clients, LoginGoes(c), UNCHANGED <<draft, tab, job, made, edits>>
    PROVE  IInv'
  <1>1. SessionInv /\ RequestsGood /\ setups \in Nat
    BY InvInParts DEF SessionInv, SessionTypeOK
  <1>2. SessionInv'
    BY <1>1, LoginCurrentKeeps, LoginRevokeKeeps, CreateSessionKeeps, LogOutKeeps, SetCookieKeeps
       DEF LoginGoes
  <1>3. UNCHANGED <<owners, setups>>
    BY DEF LoginGoes, LoginCurrent, LoginRevoke, CreateSession, LogOut, SetCookie, auth
  <1>4. c \notin EditorClients
    BY <1>1 DEF LoginGoes, LoginCurrent, LoginRevoke, CreateSession, LogOut, SetCookie, At, Works,
                RequestsGood, RequestGood
  <1>5. \E r : Set(c, r)
    BY DEF LoginGoes, LoginCurrent, LoginRevoke, CreateSession, LogOut, SetCookie, Move, Answer
  <1>6. \A d \in EditorClients : req'[d] = req[d]
    BY <1>1, <1>4, <1>5, NotOfTabs
  <1> QED BY <1>1, <1>2, <1>3, <1>6, PagesKeep

LEMMA SessionStepKeeps ==
    ASSUME IInv, SessionStep, UNCHANGED <<draft, tab, job, made, edits>> PROVE IInv'
  <1>1. SessionInv /\ setups \in Nat
    BY InvInParts DEF SessionInv, SessionTypeOK
  <1>2. ASSUME NEW s \in DOMAIN sessions, Expire(s) PROVE IInv'
    <2>1. SessionInv'
      BY <1>1, <1>2, ExpireKeeps
    <2> QED BY <1>1, <1>2, <2>1, PagesKeep DEF Expire
  <1> QED BY <1>2, RequestGoesKeeps, LoginGoesKeeps DEF SessionStep

LEMMA LogsIn ==
    ASSUME IInv, NEW c \in Pages,
           \/ Bootstrap(c) \/ Login(c)
           \/ \E work \in {"logout", "delete"} : Ask(c, work) /\ UNCHANGED <<auth, losses>>,
           UNCHANGED <<draft, tab, job, made, edits>>
    PROVE  IInv'
  <1>1. SessionInv /\ setups \in Nat /\ c \in Clients /\ c \notin EditorClients
    BY InvInParts, EditorAssumption DEF SessionInv, SessionTypeOK
  <1>2. {"logout", "delete"} \subseteq Kinds
    BY DEF Kinds
  <1>3. SessionInv'
    BY <1>1, <1>2, BootstrapKeeps, LoginKeeps, AskKeepsSessions
  <1>4. \E r : Set(c, r)
    BY DEF Bootstrap, Login, Ask
  <1>5. \A d \in EditorClients : req'[d] = req[d]
    BY <1>1, <1>4, NotOfTabs
  <1>6. owners \subseteq owners' /\ setups <= setups' /\ owners' \cap (1 .. setups) \subseteq owners
    BY <1>1 DEF Bootstrap, Login, auth
  <1> QED BY <1>3, <1>5, <1>6, PagesKeep

-----------------------------------------------------------------------------
(* The user of a tab.                                                      *)

\* Nothing but one tab changes.
LEMMA OneTab ==
    ASSUME IInv, NEW t \in Tabs, NEW new \in EditorStates, NEW m,
           UNCHANGED <<sessionVars, draft, job>>, edits' \in Nat,
           tab' = [tab EXCEPT ![t] = new], made' = [made EXCEPT ![t] = m],
           TabGood(new, m), new.panel.diff \in {tab[t].panel.diff, NoDiff}
    PROVE  IInv'
  <1>1. SessionInv /\ DraftGood /\ TabsGood /\ RequestsGood
    BY InvInParts
  <1>2. UNCHANGED <<owners, setups, sessions, cookie, req, losses>>
    BY DEF sessionVars, auth
  <1>3. SessionInv'
    BY <1>1, <1>2 DEF SessionInv, SessionTypeOK, SessionsAreOwned, OwnersAreFresh, SessionsExist, At
  <1>4. DraftMoves /\ DraftGood'
    BY <1>1, <1>2, DraftStays
  <1>5. TabGood(new, m)'
    BY <1>1, <1>4, TabStays
  <1>6. TabsGood'
    BY <1>1, <1>4, <1>5, TabUpdated
  <1>7. \A u \in Tabs : tab'[u].panel.diff \in {tab[u].panel.diff, NoDiff}
    BY <1>1 DEF TabsGood
  <1>8. \A d \in EditorClients : Previews(d)'
    BY <1>1, <1>2, <1>7, PreviewsStay
  <1>9. RequestsGood'
    BY <1>1, <1>2, <1>4, <1>8, RequestsStay
  <1> QED BY <1>3, <1>4, <1>6, <1>9, InvInParts, PTL

\* What is known of a tab and of what its user has made.
LEMMA TheTab ==
    ASSUME IInv, NEW t \in Tabs
    PROVE  /\ TabGood(tab[t], made[t]) /\ tab[t] \in EditorStates
           /\ made[t] \in MadeStates /\ edits \in Nat
           /\ tab \in [Tabs -> EditorStates] /\ made \in [Tabs -> MadeStates]
  BY InvInParts DEF TabsGood, DraftGood

LEMMA Nothing == None \in Int /\ NoDiff \in Diffs
  <1>1. None \in Int
    BY DEF None
  <1>2. NoDiff \in Diffs
    BY <1>1 DEF NoDiff, Diffs
  <1> QED BY <1>1, <1>2

LEMMA SemanticEditKeeps ==
    ASSUME IInv, NEW t \in Tabs, SemanticEdit(t) PROVE IInv'
  <1>1. PICK x \in EditorStates, m \in MadeStates :
           x = tab[t] /\ m = made[t] /\ TabGood(x, m) /\ x.revision # 0
    BY TheTab DEF SemanticEdit, Ready
  <1>2. PICK n \in Int : n = edits + 1 /\ n \in Nat
    BY TheTab
  <1> DEFINE new == [x EXCEPT !.spec = n, !.dirty = TRUE, !.status = "idle"]
             k   == [m EXCEPT !.spec = n]
  <1>3. tab' = [tab EXCEPT ![t] = new] /\ made' = [made EXCEPT ![t] = k]
    BY <1>1, <1>2 DEF SemanticEdit, Update
  <1>4. /\ new \in EditorStates /\ k \in MadeStates
        /\ new.spec = n /\ new.layout = x.layout /\ new.of = x.of /\ new.dirty
        /\ new.revision = x.revision /\ new.panel = x.panel /\ k.spec = n /\ k.layout = m.layout
        /\ k.overtaken = m.overtaken
    BY <1>2 DEF EditorStates, MadeStates
  <1> HIDE DEF new, k
  <1>5. TabGood(new, k)
    BY <1>1, <1>4 DEF TabGood
  <1>6. UNCHANGED <<sessionVars, draft, job>> /\ edits' \in Nat
    BY <1>2 DEF SemanticEdit, NewEdit
  <1> QED BY <1>1, <1>3, <1>4, <1>5, <1>6, OneTab

LEMMA MoveNodeKeeps ==
    ASSUME IInv, NEW t \in Tabs, MoveNode(t) PROVE IInv'
  <1>1. PICK x \in EditorStates, m \in MadeStates :
           x = tab[t] /\ m = made[t] /\ TabGood(x, m) /\ x.revision # 0
    BY TheTab DEF MoveNode, Ready
  <1>2. PICK n \in Int : n = edits + 1 /\ n \in Nat
    BY TheTab
  <1> DEFINE new == [x EXCEPT !.layout = n, !.dirty = TRUE, !.status = "idle"]
             k   == [m EXCEPT !.layout = n]
  <1>3. tab' = [tab EXCEPT ![t] = new] /\ made' = [made EXCEPT ![t] = k]
    BY <1>1, <1>2 DEF MoveNode, Update
  <1>4. /\ new \in EditorStates /\ k \in MadeStates
        /\ new.layout = n /\ new.spec = x.spec /\ new.of = x.of /\ new.dirty
        /\ new.revision = x.revision /\ new.panel = x.panel /\ k.layout = n /\ k.spec = m.spec
        /\ k.overtaken = m.overtaken
    BY <1>2 DEF EditorStates, MadeStates
  <1> HIDE DEF new, k
  <1>5. TabGood(new, k)
    BY <1>1, <1>4 DEF TabGood
  <1>6. UNCHANGED <<sessionVars, draft, job>> /\ edits' \in Nat
    BY <1>2 DEF MoveNode, NewEdit
  <1> QED BY <1>1, <1>3, <1>4, <1>5, <1>6, OneTab

\* A candidate is typed: whatever was previewed is forgotten.
LEMMA TypeCandidateKeeps ==
    ASSUME IInv, NEW t \in Tabs, TypeCandidate(t) PROVE IInv'
  <1>1. PICK x \in EditorStates, m \in MadeStates :
           x = tab[t] /\ m = made[t] /\ TabGood(x, m)
    BY TheTab
  <1>2. PICK n \in Int : n = edits + 1 /\ n \in Nat
    BY TheTab
  <1>3. PICK p \in Panels : p = x.panel
    BY DEF EditorStates
  <1>4. PICK z \in Int, d \in Diffs : z = None /\ d = NoDiff
    BY Nothing
  <1> DEFINE q   == [p EXCEPT !.text = n, !.candidate = z, !.diff = d]
             new == [x EXCEPT !.panel = q]
  <1>5. q \in Panels /\ q.diff = NoDiff
    BY <1>2, <1>4 DEF Panels
  <1>6. tab' = [tab EXCEPT ![t] = new]
    BY <1>1, <1>2, <1>3, <1>4 DEF TypeCandidate, Update
  <1> HIDE DEF q
  <1>7. /\ new \in EditorStates /\ new.panel = q /\ new.spec = x.spec /\ new.layout = x.layout
        /\ new.of = x.of /\ new.revision = x.revision /\ new.dirty = x.dirty
    BY <1>5 DEF EditorStates
  <1> HIDE DEF new
  <1>8. TabGood(new, m)
    BY <1>1, <1>5, <1>7 DEF TabGood
  <1>9. UNCHANGED <<sessionVars, draft, job>> /\ edits' \in Nat
    BY <1>2 DEF TypeCandidate, NewEdit
  <1>10. made' = [made EXCEPT ![t] = m]
    BY <1>1, TheTab DEF TypeCandidate
  <1> QED BY <1>5, <1>6, <1>7, <1>8, <1>9, <1>10, OneTab

-----------------------------------------------------------------------------
(* The requests of a tab.                                                  *)

\* One request of a tab goes on and the tab changes, the draft does not.
LEMMA OneOfTab ==
    ASSUME IInv, SessionInv', NEW c \in EditorClients, NEW t \in Tabs, t = c[1],
           NEW r, NEW j \in Jobs, NEW new \in EditorStates, NEW m,
           UNCHANGED <<owners, setups, draft, edits>>,
           Set(c, r), job' = [job EXCEPT ![c] = j],
           tab' = [tab EXCEPT ![t] = new], made' = [made EXCEPT ![t] = m],
           RequestGood(r, j), TabGood(new, m), r \in RequestRecords,
           r.work = "preview" => c[2] = "preview" /\ new.panel.diff = NoDiff,
           new.panel.diff \in {tab[t].panel.diff, NoDiff} \/ c[2] = "preview"
    PROVE  IInv'
  <1>1. SessionInv /\ DraftGood /\ TabsGood /\ RequestsGood
    BY InvInParts
  <1>2. DraftMoves /\ DraftGood'
    BY <1>1, DraftStays DEF DraftGood
  <1>3. TabGood(new, m)' /\ RequestGood(r, j)'
    BY <1>1, <1>2, TabStays, RequestStays
  <1>4. TabsGood'
    BY <1>1, <1>2, <1>3, TabUpdated
  <1>5. /\ req' = [req EXCEPT ![c] = r] /\ req \in [Clients -> RequestRecords] /\ c \in Clients
        /\ EditorClients \subseteq Clients /\ tab \in [Tabs -> EditorStates]
    BY <1>1, EditorAssumption DEF Set, SessionInv, SessionTypeOK, TabsGood
  <1>6. ASSUME NEW d \in EditorClients, req'[d].work = "preview"
        PROVE  d[2] = "preview" /\ tab'[d[1]].panel.diff = NoDiff
    <2>1. /\ d \in Tabs \X {"save", "again", "preview"}
          /\ c \in Tabs \X {"save", "again", "preview"}
      BY EditorAssumption
    <2>2. CASE d = c
      <3>1. req'[d] = r /\ d[1] = t /\ tab'[t] = new
        BY <1>5, <2>2
      <3> QED BY <1>6, <2>2, <3>1
    <2>3. CASE d # c
      <3>1. req'[d] = req[d]
        BY <1>5, <2>3
      <3>2. d[2] = "preview" /\ tab[d[1]].panel.diff = NoDiff
        BY <1>1, <1>6, <3>1 DEF RequestsGood, Previews
      <3>3. CASE d[1] # t
        BY <1>5, <2>1, <3>2, <3>3
      <3>4. CASE d[1] = t
        <4>1. c[2] # "preview"
          BY <2>1, <2>3, <3>2, <3>4
        <4>2. new.panel.diff = NoDiff
          BY <3>2, <3>4, <4>1
        <4> QED BY <1>5, <3>2, <3>4, <4>2
      <3> QED BY <3>3, <3>4
    <2> QED BY <2>2, <2>3
  <1>7. \A d \in EditorClients : Previews(d)'
    BY <1>6 DEF Previews
  <1>8. RequestsGood'
    BY <1>1, <1>2, <1>3, <1>7, RequestUpdated
  <1> QED BY <1>2, <1>4, <1>8, InvInParts, PTL

\* What is known of a request of a tab.
LEMMA TheRequest ==
    ASSUME IInv, NEW c \in EditorClients
    PROVE  /\ SessionInv /\ c \in Clients /\ c[1] \in Tabs
           /\ req[c] \in RequestRecords /\ job[c] \in Jobs
           /\ RequestGood(req[c], job[c]) /\ Previews(c)
           /\ c[2] \in {"save", "again", "preview"}
  <1>1. SessionInv /\ RequestsGood
    BY InvInParts
  <1>2. c \in Clients /\ c[1] \in Tabs /\ c[2] \in {"save", "again", "preview"}
    BY EditorAssumption
  <1> QED BY <1>1, <1>2 DEF RequestsGood, SessionInv, SessionTypeOK

\* A tab sends a request.
LEMMA Asks ==
    ASSUME IInv, NEW c \in EditorClients, NEW t \in Tabs, t = c[1],
           NEW work \in {"save", "preview"}, NEW j \in Jobs, NEW new \in EditorStates,
           Ask(c, work), UNCHANGED <<auth, losses, draft, made, edits>>,
           job' = [job EXCEPT ![c] = j], tab' = [tab EXCEPT ![t] = new],
           j.diff # NoDiff => j.diff = [against |-> j.base, of |-> j.spec],
           TabGood(new, made[t]), new.panel.diff \in {tab[t].panel.diff, NoDiff},
           work = "preview" => c[2] = "preview" /\ new.panel.diff = NoDiff
    PROVE  IInv'
  <1> DEFINE r == Request(work, "session", cookie, 0, "none")
  <1>1. SessionInv /\ c \in Clients
    BY TheRequest
  <1>2. work \in Kinds
    BY DEF Kinds
  <1>3. SessionInv'
    BY <1>1, <1>2, AskKeepsSessions
  <1>4. r \in RequestRecords /\ r.work = work /\ r.at = "session"
    BY <1>1, <1>2 DEF SessionInv, SessionTypeOK, Request, RequestRecords, Places, Codes
  <1>5. Set(c, r)
    BY DEF Ask
  <1> HIDE DEF r
  <1>6. RequestGood(r, j)
    BY <1>4 DEF RequestGood
  <1>7. PICK m : m = made[t] /\ TabGood(new, m) /\ made' = [made EXCEPT ![t] = m]
    BY TheTab
  <1>8. UNCHANGED <<owners, setups, draft, edits>>
    BY DEF auth
  <1> QED BY <1>3, <1>4, <1>5, <1>6, <1>7, <1>8, OneOfTab

LEMMA ClickSaveKeeps ==
    ASSUME IInv, NEW c \in EditorClients, ClickSave(c) PROVE IInv'
  <1>1. PICK t \in Tabs : t = c[1]
    BY TheRequest
  <1>2. PICK x \in EditorStates, m \in MadeStates :
            x = tab[t] /\ m = made[t] /\ TabGood(x, m)
    BY TheTab
  <1> DEFINE j   == Job(x.revision, x.spec, x.spec, x.layout, FALSE, NoDiff)
             new == [x EXCEPT !.status = "saving"]
  <1>3. /\ Ask(c, "save") /\ UNCHANGED <<auth, losses, draft, made, edits>>
        /\ job' = [job EXCEPT ![c] = j] /\ tab' = [tab EXCEPT ![t] = new]
    BY <1>1, <1>2 DEF ClickSave, Submit, Update
  <1>4. j \in Jobs /\ j.diff = NoDiff
    BY Nothing DEF Job, Jobs, EditorStates
  <1>5. /\ new \in EditorStates /\ new.panel = x.panel /\ new.spec = x.spec
        /\ new.layout = x.layout /\ new.of = x.of /\ new.revision = x.revision
        /\ new.dirty = x.dirty
    BY DEF EditorStates
  <1> HIDE DEF j, new
  <1>6. TabGood(new, m)
    BY <1>2, <1>5 DEF TabGood
  <1>7. TabGood(new, made[t]) /\ new.panel.diff \in {tab[t].panel.diff, NoDiff}
    BY <1>2, <1>5, <1>6
  <1> QED BY <1>1, <1>3, <1>4, <1>5, <1>7, Asks

LEMMA ClickApplyKeeps ==
    ASSUME IInv, NEW c \in EditorClients, ClickApply(c) PROVE IInv'
  <1>1. PICK t \in Tabs : t = c[1]
    BY TheRequest
  <1>2. PICK x \in EditorStates, m \in MadeStates :
            x = tab[t] /\ m = made[t] /\ TabGood(x, m)
    BY TheTab
  <1>3. PICK p \in Panels : p = x.panel
    BY DEF EditorStates
  <1> DEFINE j   == Job(x.revision, x.spec, p.candidate, x.layout, TRUE, p.diff)
             q   == [p EXCEPT !.busy = "apply"]
             new == [x EXCEPT !.panel = q, !.status = "saving"]
  <1>4. /\ Ask(c, "save") /\ UNCHANGED <<auth, losses, draft, made, edits>>
        /\ job' = [job EXCEPT ![c] = j] /\ tab' = [tab EXCEPT ![t] = new]
    BY <1>1, <1>2, <1>3 DEF ClickApply, Submit, Update
  <1>5. /\ j \in Jobs /\ j.diff = p.diff /\ j.base = x.revision /\ j.spec = p.candidate
    BY DEF Job, Jobs, EditorStates, Panels
  <1>6. q \in Panels /\ q.diff = p.diff /\ q.candidate = p.candidate
    BY DEF Panels
  <1> HIDE DEF q, j
  <1>7. /\ new \in EditorStates /\ new.panel = q /\ new.spec = x.spec
        /\ new.layout = x.layout /\ new.of = x.of /\ new.revision = x.revision
        /\ new.dirty = x.dirty
    BY <1>6 DEF EditorStates
  <1> HIDE DEF new
  <1>8. TabGood(new, m)
    BY <1>2, <1>3, <1>6, <1>7 DEF TabGood
  <1>9. TabGood(new, made[t]) /\ new.panel.diff \in {tab[t].panel.diff, NoDiff}
    BY <1>2, <1>3, <1>6, <1>7, <1>8
  <1>10. j.diff # NoDiff => j.diff = [against |-> j.base, of |-> j.spec]
    BY <1>2, <1>3, <1>5 DEF TabGood
  <1> QED BY <1>1, <1>4, <1>5, <1>7, <1>9, <1>10, Asks

LEMMA ClickPreviewKeeps ==
    ASSUME IInv, NEW c \in EditorClients, ClickPreview(c) PROVE IInv'
  <1>1. PICK t \in Tabs : t = c[1]
    BY TheRequest
  <1>2. PICK x \in EditorStates, m \in MadeStates :
            x = tab[t] /\ m = made[t] /\ TabGood(x, m)
    BY TheTab
  <1>3. PICK p \in Panels : p = x.panel
    BY DEF EditorStates
  <1>4. PICK d \in Diffs : d = NoDiff
    BY Nothing
  <1> DEFINE j   == Job(x.revision, x.spec, IF p.text = None THEN x.spec ELSE p.text, 0, FALSE, d)
             q   == [p EXCEPT !.busy = "preview", !.diff = d]
             new == [x EXCEPT !.panel = q]
  <1>5. /\ Ask(c, "preview") /\ UNCHANGED <<auth, losses, draft, made, edits>>
        /\ job' = [job EXCEPT ![c] = j] /\ tab' = [tab EXCEPT ![t] = new]
        /\ c[2] = "preview"
    BY <1>1, <1>2, <1>3, <1>4 DEF ClickPreview, Update
  <1>6. j \in Jobs /\ j.diff = d
    BY DEF Job, Jobs, EditorStates, Panels
  <1>7. q \in Panels /\ q.diff = d
    BY DEF Panels
  <1> HIDE DEF q, j
  <1>8. /\ new \in EditorStates /\ new.panel = q /\ new.spec = x.spec
        /\ new.layout = x.layout /\ new.of = x.of /\ new.revision = x.revision
        /\ new.dirty = x.dirty
    BY <1>7 DEF EditorStates
  <1> HIDE DEF new
  <1>9. TabGood(new, m)
    BY <1>2, <1>4, <1>7, <1>8 DEF TabGood
  <1>10. TabGood(new, made[t]) /\ new.panel.diff = NoDiff
    BY <1>2, <1>4, <1>7, <1>8, <1>9
  <1> QED BY <1>1, <1>4, <1>5, <1>6, <1>8, <1>10, Asks

-----------------------------------------------------------------------------
(* The server, and what the tab makes of its answer.                       *)

\* An answer of any code keeps what the request was.
LEMMA Answered ==
    ASSUME SessionInv, NEW c \in Clients, NEW code \in Codes, Answer(c, code),
           UNCHANGED <<auth, losses>>
    PROVE  /\ SessionInv'
           /\ \E r \in RequestRecords :
                 /\ Set(c, r) /\ r.at = "answered" /\ r.code = code
                 /\ r.work = req[c].work /\ r.owner = req[c].owner
  <1>1. losses' \in Nat
    BY DEF SessionInv, SessionTypeOK
  <1>2. SessionInv'
    BY <1>1, Answers
  <1> DEFINE r == [req[c] EXCEPT !.at = "answered", !.code = code]
  <1>3. r \in RequestRecords /\ r.at = "answered" /\ r.code = code
        /\ r.work = req[c].work /\ r.owner = req[c].owner
    BY MovesOfRequests DEF RequestRecords
  <1>4. Set(c, r)
    BY DEF Answer
  <1> HIDE DEF r
  <1> QED BY <1>2, <1>3, <1>4

LEMMA Refusals == ASSUME NEW c PROVE Refusal(c) \in Codes
  BY DEF Refusal, Invalidity, RowRefusal, Codes

\* A refusal, or the answer to a preview: nothing changes but the request.
LEMMA RefusalKeeps ==
    ASSUME IInv, NEW c \in EditorClients, NEW code \in Codes, Answer(c, code),
           req[c].work = "preview" \/ code # "ok",
           UNCHANGED <<auth, losses, draft, tab, job, made, edits>>
    PROVE  IInv'
  <1>1. SessionInv /\ c \in Clients /\ RequestGood(req[c], job[c])
        /\ req[c] \in RequestRecords
    BY TheRequest
  <1>2. PICK r \in RequestRecords :
                 /\ Set(c, r) /\ r.at = "answered" /\ r.code = code
                 /\ r.work = req[c].work /\ r.owner = req[c].owner
    BY <1>1, Answered
  <1>3. SessionInv'
    BY <1>1, Answered
  <1>4. UNCHANGED <<owners, setups>>
    BY DEF auth
  <1>5. /\ r.at \notin {"current", "revoke", "create"}
        /\ r.at = "answered" => r.code # "ok" \/ r.work = "preview"
    BY <1>2
  <1>6. PICK t \in Tabs : t = c[1]
    BY TheRequest
  <1>7. PICK j \in Jobs : j = job[c] /\ job' = [job EXCEPT ![c] = j]
    BY TheRequest, InvInParts DEF RequestsGood
  <1>8. PICK new \in EditorStates, m \in MadeStates :
            /\ new = tab[t] /\ m = made[t] /\ TabGood(new, m)
            /\ tab' = [tab EXCEPT ![t] = new] /\ made' = [made EXCEPT ![t] = m]
    BY TheTab
  <1>9. RequestGood(r, j)
    BY <1>1, <1>2, <1>5, <1>7 DEF RequestGood
  <1>10. r.work = "preview" => c[2] = "preview" /\ new.panel.diff = NoDiff
    BY <1>2, <1>6, <1>8, TheRequest DEF Previews
  <1> QED BY <1>2, <1>3, <1>4, <1>6, <1>7, <1>8, <1>9, <1>10, OneOfTab

LEMMA PreviewDiffKeeps ==
    ASSUME IInv, NEW c \in EditorClients, PreviewDiff(c) PROVE IInv'
  BY Refusals, RefusalKeeps DEF PreviewDiff, Works

\* The draft of the owner gets one more revision.
LEMMA PutDraftKeeps ==
    ASSUME IInv, NEW c \in EditorClients, PutDraft(c) PROVE IInv'
  <1>1. /\ SessionInv /\ DraftGood /\ TabsGood /\ RequestsGood
        /\ c \in Clients /\ RequestGood(req[c], job[c]) /\ req[c] \in RequestRecords
    BY TheRequest, InvInParts
  <1>2. CASE Refusal(c) # "ok"
    BY <1>2, Refusals, RefusalKeeps DEF PutDraft
  <1>3. CASE Refusal(c) = "ok"
    <2>1. PICK j \in Jobs, o \in Nat, n \in Nat :
             j = job[c] /\ o = req[c].owner /\ n = Revision
      BY <1>1, TheRequest DEF RequestRecords, DraftGood, Revision
    <2>2. /\ draft.owner = o /\ o # 0 /\ j.base = n
          /\ draft' = [draft EXCEPT !.rows = Append(@, Row(j.spec, j.layout, o, j.diff))]
          /\ job' = [job EXCEPT ![c].saved = n + 1]
          /\ UNCHANGED <<auth, losses, tab, made, edits>>
          /\ Answer(c, "ok") /\ req[c].work = "save"
      BY <1>1, <1>3, <2>1 DEF PutDraft, Refusal, Invalidity, RowRefusal, Works, At, SessionInv, SessionsExist
    <2>3. "ok" \in Codes
      BY DEF Codes
    <2>4. PICK r \in RequestRecords :
                 /\ Set(c, r) /\ r.at = "answered" /\ r.code = "ok"
                 /\ r.work = "save" /\ r.owner = o
      BY <1>1, <2>1, <2>2, <2>3, Answered
    <2>5. SessionInv'
      BY <1>1, <2>2, <2>3, Answered
    <2> DEFINE row == Row(j.spec, j.layout, o, j.diff)
               k   == [j EXCEPT !.saved = n + 1]
    <2>6. row \in Rows /\ row.spec = j.spec /\ row.layout = j.layout /\ row.diff = j.diff
      BY DEF Row, Rows, Jobs
    <2>7. k \in Jobs /\ k.saved = n + 1 /\ k.spec = j.spec /\ k.layout = j.layout
          /\ k.diff = j.diff /\ k.base = j.base
      BY DEF Jobs
    <2>8. job' = [job EXCEPT ![c] = k]
      BY <1>1, <2>1, <2>2 DEF RequestsGood
    <2>9. /\ draft.rows \in Seq(Rows) /\ Len(draft.rows) = n /\ draft.owner \in Nat
          /\ draft \in [owner : Nat, rows : Seq(Rows)]
      BY <1>1, <2>1 DEF DraftGood, Revision
    <2>10. draft'.owner = o /\ draft'.rows = Append(draft.rows, row)
           /\ draft' \in [owner : Nat, rows : Seq(Rows)]
      <3>1. Append(draft.rows, row) \in Seq(Rows)
        BY <2>6, <2>9
      <3> HIDE DEF row
      <3> QED BY <2>2, <2>9, <3>1 DEF row
    <2> HIDE DEF row, k
    <2>11. /\ Revision' = n + 1 /\ draft'.rows[n + 1] = row
           /\ \A x \in 1 .. n : draft'.rows[x] = draft.rows[x]
           /\ DOMAIN draft'.rows = 1 .. n + 1
      BY <2>6, <2>9, <2>10 DEF Revision
    <2>12. o \in owners /\ o \in 1 .. setups
      BY <1>1, <2>2 DEF DraftGood, DraftIsOwned, NoDraft, SessionInv, OwnersAreFresh
    <2>13. UNCHANGED <<owners, setups>>
      BY <2>2 DEF auth
    <2>14. DraftMoves
      BY <2>1, <2>2, <2>10, <2>11, <2>13 DEF DraftMoves, Known
    <2>15. DraftIsOwned'
      BY <2>1, <2>10, <2>11, <2>12, <2>13 DEF DraftIsOwned
    <2>16. AppliedWasPreviewed'
      <3> SUFFICES ASSUME NEW x \in 1 .. n + 1, draft'.rows[x].diff # NoDiff
                   PROVE  draft'.rows[x].diff = [against |-> x - 1, of |-> draft'.rows[x].spec]
        BY <2>11 DEF AppliedWasPreviewed
      <3>1. CASE x = n + 1
        <4>1. j.diff = [against |-> j.base, of |-> j.spec]
          BY <1>1, <2>1, <2>6, <2>11, <3>1 DEF RequestGood
        <4>2. j.base = x - 1
          BY <2>1, <2>2, <3>1
        <4> QED BY <2>6, <2>11, <3>1, <4>1, <4>2
      <3>2. CASE x # n + 1
        <4>1. x \in 1 .. n /\ x \in DOMAIN draft.rows
          BY <2>1, <2>9, <3>2
        <4> QED BY <1>1, <2>11, <4>1 DEF DraftGood, AppliedWasPreviewed
      <3> QED BY <3>1, <3>2
    <2>17. DraftGood'
      BY <1>1, <2>2, <2>10, <2>15, <2>16 DEF DraftGood
    <2>18. TabsGood'
      BY <1>1, <2>2, <2>14, <2>17, TabsStay
    <2>19. RequestGood(r, k)'
      <3>1. Known(o)'
        BY <2>10, <2>12, <2>13 DEF Known
      <3>2. k.saved \in 1 .. Revision'
        BY <2>1, <2>7, <2>11
      <3>3. k.diff # NoDiff => k.diff = [against |-> k.base, of |-> k.spec]
        BY <1>1, <2>1, <2>7 DEF RequestGood
      <3> QED BY <2>4, <2>6, <2>7, <2>11, <3>1, <3>2, <3>3 DEF RequestGood
    <2>20. \A d \in EditorClients : Previews(d)'
      <3>1. /\ req \in [Clients -> RequestRecords] /\ EditorClients \subseteq Clients
            /\ req' = [req EXCEPT ![c] = r]
        BY <1>1, <2>4, EditorAssumption DEF SessionInv, SessionTypeOK, Set
      <3>2. \A d \in EditorClients : req'[d].work \in {req[d].work, "none", "save"}
        BY <2>4, <3>1
      <3> QED BY <1>1, <2>2, <3>2, PreviewsStay
    <2>21. RequestsGood'
      BY <1>1, <2>4, <2>7, <2>8, <2>14, <2>17, <2>19, <2>20, RequestUpdated
    <2> QED BY <2>5, <2>17, <2>18, <2>21, InvInParts, PTL
  <1> QED BY <1>2, <1>3

\* The tab has looked at the answer: nothing is asked for any more.
LEMMA Settled ==
    ASSUME IInv, NEW c \in EditorClients, NEW t \in Tabs, t = c[1],
           NEW new \in EditorStates, NEW m, TabGood(new, m),
           Set(c, NoRequest), job' = [job EXCEPT ![c] = NoJob],
           tab' = [tab EXCEPT ![t] = new], made' = [made EXCEPT ![t] = m],
           UNCHANGED <<auth, losses, draft, edits>>,
           new.panel.diff \in {tab[t].panel.diff, NoDiff} \/ c[2] = "preview"
    PROVE  IInv'
  <1>1. /\ NoRequest \in RequestRecords /\ NoRequest.session = 0 /\ NoRequest.at = "idle"
        /\ NoRequest.work = "none"
    BY DEF NoRequest, Request, RequestRecords, Kinds, Places, Codes
  <1>2. SessionInv /\ c \in Clients /\ 0 <= Len(sessions) /\ losses' \in Nat
    BY TheRequest DEF SessionInv, SessionTypeOK
  <1>3. SessionInv'
    BY <1>1, <1>2, RequestMoves
  <1>4. NoJob \in Jobs /\ NoJob.diff = NoDiff
    BY Nothing DEF NoJob, Job, Jobs
  <1>5. RequestGood(NoRequest, NoJob)
    BY <1>1, <1>4 DEF RequestGood
  <1>6. PICK r \in RequestRecords, j \in Jobs :
           r = NoRequest /\ j = NoJob
    BY <1>1, <1>4
  <1>7. /\ Set(c, r) /\ job' = [job EXCEPT ![c] = j] /\ RequestGood(r, j) /\ r.work = "none"
    BY <1>1, <1>5, <1>6
  <1>8. UNCHANGED <<owners, setups, draft, edits>>
    BY DEF auth
  <1> QED BY <1>3, <1>7, <1>8, OneOfTab

LEMMA EmptyPanel == NewPanel \in Panels /\ NewPanel.diff = NoDiff
  BY Nothing DEF NewPanel, Panels

\* What the user has made when a save of his is answered.
MadeAfter(t, j) ==
    IF ~ j.replace THEN made[t]
    ELSE IF EditedSince(t, j) THEN [made[t] EXCEPT !.overtaken = TRUE]
    ELSE Made(j.spec, j.layout)

\* What is in the editor after a save: the user's own, or what was saved.
LEMMA SavedIsGood ==
    ASSUME IInv, NEW c \in EditorClients, NEW t \in Tabs, t = c[1], SaveDone(c),
           NEW j \in Jobs, j = job[c]
    PROVE  /\ Saved(t, c) \in EditorStates /\ TabGood(Saved(t, c), MadeAfter(t, j))
           /\ Saved(t, c).panel.diff = NoDiff
  <1>1. PICK x \in EditorStates, q \in Panels, o \in Nat, k \in MadeStates :
           /\ x = tab[t] /\ q = NewPanel /\ o = req[c].owner /\ k = made[t]
           /\ ~ k.overtaken => x.spec = k.spec /\ x.layout = k.layout
    <2>1. tab[t] \in EditorStates /\ made[t] \in MadeStates /\ NewPanel \in Panels
      BY TheTab, EmptyPanel
    <2>2. ~ made[t].overtaken => tab[t].spec = made[t].spec /\ tab[t].layout = made[t].layout
      BY TheTab DEF TabGood
    <2>3. req[c].owner \in Nat
      BY TheRequest DEF RequestRecords
    <2> QED BY <2>1, <2>2, <2>3
  <1>2. /\ Known(o)
        /\ o = draft.owner =>
              /\ j.saved \in 1 .. Revision
              /\ draft.rows[j.saved].spec = j.spec
              /\ draft.rows[j.saved].layout = j.layout
    BY <1>1, TheRequest DEF RequestGood, SaveDone, At
  <1>3. Revision \in Nat
    BY InvInParts DEF DraftGood, Revision
  <1> DEFINE new == [x EXCEPT !.of = o, !.revision = j.saved, !.panel = q]
             kept == [new EXCEPT !.dirty = TRUE, !.status = "idle"]
             taken == [new EXCEPT !.spec = j.spec, !.layout = j.layout, !.dirty = FALSE,
                                  !.status = "saved"]
  <1>4. q.diff = NoDiff
    BY <1>1, EmptyPanel
  <1>5. /\ kept \in EditorStates /\ kept.of = o /\ kept.revision = j.saved /\ kept.panel = q
        /\ kept.spec = x.spec /\ kept.layout = x.layout /\ kept.dirty
    BY DEF EditorStates, Jobs
  <1>6. /\ taken \in EditorStates /\ taken.of = o /\ taken.revision = j.saved
        /\ taken.panel = q /\ taken.spec = j.spec /\ taken.layout = j.layout
    BY DEF EditorStates, Jobs
  <1>7. Saved(t, c) = IF ~ j.replace /\ (x.spec # j.spec \/ x.layout # j.layout)
                        THEN kept ELSE taken
    BY <1>1 DEF Saved, MovedOn, Panel
  <1> HIDE DEF new, kept, taken
  <1>8. CASE ~ j.replace /\ (x.spec # j.spec \/ x.layout # j.layout)
    <2>1. TabGood(kept, k)
      BY <1>1, <1>2, <1>4, <1>5 DEF TabGood
    <2>2. MadeAfter(t, j) = k
      BY <1>1, <1>8 DEF MadeAfter
    <2> QED BY <1>4, <1>5, <1>7, <1>8, <2>1, <2>2
  <1>9. CASE ~ j.replace /\ x.spec = j.spec /\ x.layout = j.layout
    <2>1. TabGood(taken, k)
      BY <1>1, <1>2, <1>3, <1>4, <1>6, <1>9 DEF TabGood
    <2>2. MadeAfter(t, j) = k
      BY <1>1, <1>9 DEF MadeAfter
    <2> QED BY <1>4, <1>6, <1>7, <1>9, <2>1, <2>2
  <1>10. CASE j.replace
    <2>1. PICK m \in MadeStates :
             m = MadeAfter(t, j) /\ (m.overtaken \/ (m.spec = j.spec /\ m.layout = j.layout))
      <3>1. CASE EditedSince(t, j)
        <4>1. [k EXCEPT !.overtaken = TRUE] \in MadeStates
              /\ [k EXCEPT !.overtaken = TRUE].overtaken
          BY DEF MadeStates
        <4>2. MadeAfter(t, j) = [k EXCEPT !.overtaken = TRUE]
          BY <1>1, <1>10, <3>1 DEF MadeAfter
        <4> QED BY <4>1, <4>2
      <3>2. CASE ~ EditedSince(t, j)
        <4>1. Made(j.spec, j.layout) \in MadeStates
          BY DEF Made, MadeStates, Jobs
        <4>2. Made(j.spec, j.layout).spec = j.spec /\ Made(j.spec, j.layout).layout = j.layout
          BY DEF Made
        <4>3. MadeAfter(t, j) = Made(j.spec, j.layout)
          BY <1>10, <3>2 DEF MadeAfter
        <4> QED BY <4>1, <4>2, <4>3
      <3> QED BY <3>1, <3>2
    <2>2. TabGood(taken, m)
      BY <1>2, <1>3, <1>4, <1>6, <2>1 DEF TabGood
    <2> QED BY <1>4, <1>6, <1>7, <1>10, <2>1, <2>2
  <1> QED BY <1>8, <1>9, <1>10

LEMMA FailedIsGood ==
    ASSUME IInv, NEW c \in EditorClients, NEW t \in Tabs, t = c[1]
    PROVE  /\ Failed(t, c) \in EditorStates /\ TabGood(Failed(t, c), made[t])
           /\ Failed(t, c).panel.diff \in {tab[t].panel.diff, NoDiff}
  <1>1. PICK x \in EditorStates, m \in MadeStates :
           x = tab[t] /\ m = made[t] /\ TabGood(x, m)
    BY TheTab
  <1>2. PICK p \in Panels : p = x.panel
    BY DEF EditorStates
  <1>3. PICK z \in Int, d \in Diffs : z = None /\ d = NoDiff
    BY Nothing
  <1>4. PICK status \in {"conflict", "error"} :
           status = IF req[c].code = "agent_draft_revision_conflict" THEN "conflict" ELSE "error"
    OBVIOUS
  <1>5. PICK q \in Panels :
           /\ q = p \/ q = [p EXCEPT !.candidate = z, !.diff = d, !.busy = "none"]
           /\ q = IF ~ job[c].replace \/ tab[t].revision # job[c].base THEN p
                  ELSE [p EXCEPT !.candidate = z, !.diff = d, !.busy = "none"]
    BY DEF Panels
  <1> DEFINE new == [x EXCEPT !.status = status, !.panel = q]
  <1>6. Failed(t, c) = new
    BY <1>1, <1>2, <1>3, <1>4, <1>5 DEF Failed
  <1>7. /\ new \in EditorStates /\ new.panel = q /\ new.spec = x.spec
        /\ new.layout = x.layout /\ new.of = x.of /\ new.revision = x.revision
        /\ new.dirty = x.dirty
    BY <1>5 DEF EditorStates
  <1>8. (q.diff = p.diff /\ q.candidate = p.candidate) \/ q.diff = NoDiff
    BY <1>3, <1>5 DEF Panels
  <1> HIDE DEF new
  <1>9. TabGood(new, m)
    BY <1>1, <1>2, <1>7, <1>8 DEF TabGood
  <1> QED BY <1>1, <1>2, <1>6, <1>7, <1>8, <1>9

LEMMA SaveAnsweredKeeps ==
    ASSUME IInv, NEW c \in EditorClients, SaveAnswered(c) PROVE IInv'
  <1>1. PICK t \in Tabs, j \in Jobs : t = c[1] /\ j = job[c]
    BY TheRequest
  <1>2. /\ Set(c, NoRequest) /\ job' = [job EXCEPT ![c] = NoJob]
        /\ UNCHANGED <<auth, losses, draft, edits>>
    BY DEF SaveAnswered
  <1>3. CASE req[c].code = "ok"
    <2>1. /\ tab' = [tab EXCEPT ![t] = Saved(t, c)] /\ SaveDone(c)
          /\ made' = IF j.replace THEN MadeByAnswer(t, j) ELSE made
      BY <1>1, <1>3 DEF SaveAnswered, Update, SaveDone
    <2>2. made' = [made EXCEPT ![t] = MadeAfter(t, j)]
      <3>1. CASE ~ j.replace
        BY <2>1, <3>1, TheTab DEF MadeAfter
      <3>2. CASE j.replace
        BY <2>1, <3>2 DEF MadeAfter, MadeByAnswer
      <3> QED BY <3>1, <3>2
    <2>3. /\ Saved(t, c) \in EditorStates /\ TabGood(Saved(t, c), MadeAfter(t, j))
          /\ Saved(t, c).panel.diff = NoDiff
      BY <1>1, <2>1, SavedIsGood
    <2>4. PICK new \in EditorStates, k \in MadeStates :
             new = Saved(t, c) /\ k = MadeAfter(t, j)
      BY <2>3 DEF TabGood
    <2>5. /\ tab' = [tab EXCEPT ![t] = new] /\ made' = [made EXCEPT ![t] = k]
          /\ TabGood(new, k) /\ new.panel.diff = NoDiff
      BY <2>1, <2>2, <2>3, <2>4
    <2> QED BY <1>1, <1>2, <2>5, Settled
  <1>4. CASE req[c].code # "ok"
    <2>1. tab' = [tab EXCEPT ![t] = Failed(t, c)] /\ made' = made
      BY <1>1, <1>4 DEF SaveAnswered, Update
    <2>2. PICK new \in EditorStates, m \in MadeStates :
             /\ new = Failed(t, c) /\ m = made[t] /\ made' = [made EXCEPT ![t] = m]
             /\ TabGood(new, m) /\ new.panel.diff \in {tab[t].panel.diff, NoDiff}
      BY <1>1, <2>1, FailedIsGood, TheTab
    <2>3. tab' = [tab EXCEPT ![t] = new]
      BY <2>1, <2>2
    <2> QED BY <1>1, <1>2, <2>2, <2>3, Settled
  <1> QED BY <1>3, <1>4

LEMMA PreviewAnsweredKeeps ==
    ASSUME IInv, NEW c \in EditorClients, PreviewAnswered(c) PROVE IInv'
  <1>1. PICK t \in Tabs, j \in Jobs : t = c[1] /\ j = job[c]
    BY TheRequest
  <1>2. /\ Set(c, NoRequest) /\ job' = [job EXCEPT ![c] = NoJob]
        /\ UNCHANGED <<auth, losses, draft, edits>> /\ made' = made
    BY DEF PreviewAnswered
  <1>3. c[2] = "preview" /\ tab[t].panel.diff = NoDiff
    BY <1>1, TheRequest DEF PreviewAnswered, Previews
  <1>4. PICK x \in EditorStates, m \in MadeStates :
           x = tab[t] /\ m = made[t] /\ TabGood(x, m) /\ made' = [made EXCEPT ![t] = m]
    BY <1>2, TheTab
  <1>5. PICK p \in Panels : p = x.panel /\ p.diff = NoDiff
    BY <1>3, <1>4 DEF EditorStates
  <1>6. PICK z \in Int, d \in Diffs : z = None /\ d = [against |-> j.base, of |-> j.spec]
    <2>1. j.base \in Int /\ j.spec \in Int
      BY DEF Jobs
    <2>2. [against |-> j.base, of |-> j.spec] \in Diffs
      BY <2>1 DEF Diffs
    <2> QED BY <2>2, Nothing
  <1> DEFINE failed == [p EXCEPT !.busy = "none", !.candidate = z]
             shown  == [p EXCEPT !.busy = "none", !.candidate = j.spec, !.diff = d]
  <1>7. /\ failed \in Panels /\ shown \in Panels
        /\ failed.diff = NoDiff /\ shown.diff = d /\ shown.candidate = j.spec
    BY <1>5 DEF Panels, Jobs
  <1>8. \/ tab' = [tab EXCEPT ![t] = x]
        \/ tab' = [tab EXCEPT ![t] = [x EXCEPT !.panel = failed]]
        \/ /\ tab' = [tab EXCEPT ![t] = [x EXCEPT !.panel = shown]]
           /\ x.revision = j.base
    BY <1>1, <1>4, <1>5, <1>6 DEF PreviewAnswered, Update
  <1> HIDE DEF failed, shown
  <1>9. ASSUME NEW q \in Panels, tab' = [tab EXCEPT ![t] = [x EXCEPT !.panel = q]],
               q.diff # NoDiff => q.diff = [against |-> x.revision, of |-> q.candidate]
        PROVE  IInv'
    <2> DEFINE new == [x EXCEPT !.panel = q]
    <2>1. /\ new \in EditorStates /\ new.panel = q /\ new.spec = x.spec
          /\ new.layout = x.layout /\ new.of = x.of /\ new.revision = x.revision
          /\ new.dirty = x.dirty
      BY DEF EditorStates
    <2>2. tab' = [tab EXCEPT ![t] = new]
      BY <1>9
    <2> HIDE DEF new
    <2>3. TabGood(new, m)
      BY <1>4, <1>9, <2>1 DEF TabGood
    <2> QED BY <1>1, <1>2, <1>3, <1>4, <2>1, <2>2, <2>3, Settled
  <1>10. CASE tab' = [tab EXCEPT ![t] = x]
    BY <1>1, <1>2, <1>3, <1>4, <1>10, Settled
  <1>11. CASE tab' = [tab EXCEPT ![t] = [x EXCEPT !.panel = failed]]
    BY <1>7, <1>9, <1>11
  <1>12. CASE tab' = [tab EXCEPT ![t] = [x EXCEPT !.panel = shown]] /\ x.revision = j.base
    <2>1. shown.diff = [against |-> x.revision, of |-> shown.candidate]
      BY <1>6, <1>7, <1>12
    <2> QED BY <1>7, <1>9, <1>12, <2>1
  <1> QED BY <1>8, <1>10, <1>11, <1>12

-----------------------------------------------------------------------------
(* The draft comes and goes.                                               *)

\* The draft of a new owner is nobody's whose draft was known.
LEMMA CreateDraftKeeps == ASSUME IInv, CreateDraft PROVE IInv'
  <1>1. /\ SessionInv /\ DraftGood /\ TabsGood /\ RequestsGood
    BY InvInParts
  <1>2. cookie \in Nat /\ cookie <= Len(sessions) /\ setups \in Nat
    BY <1>1 DEF SessionInv, SessionTypeOK, SessionsExist
  <1>3. PICK o \in Nat : o = sessions[cookie].owner /\ o \in owners /\ o \in 1 .. setups
    BY <1>1, <1>2, LiveIsOwned DEF CreateDraft
  <1> DEFINE row == Row(0, 0, o, NoDiff)
  <1>4. /\ o # draft.owner /\ draft' = [owner |-> o, rows |-> <<row>>]
        /\ UNCHANGED <<sessionVars, tab, job, made, edits>>
    BY <1>3 DEF CreateDraft
  <1>5. row \in Rows /\ row.diff = NoDiff
    BY Nothing DEF Row, Rows
  <1> HIDE DEF row
  <1>6. UNCHANGED <<owners, setups, sessions, cookie, req, losses>>
    BY <1>4 DEF sessionVars, auth
  <1>7. SessionInv'
    BY <1>1, <1>6 DEF SessionInv, SessionTypeOK, SessionsAreOwned, OwnersAreFresh, SessionsExist, At
  <1>8. /\ draft'.owner = o /\ draft'.rows = <<row>> /\ Len(draft'.rows) = 1
        /\ draft' \in [owner : Nat, rows : Seq(Rows)]
    BY <1>4, <1>5
  <1>9. DraftIsOwned'
    BY <1>3, <1>6, <1>8 DEF DraftIsOwned, Revision
  <1>10. AppliedWasPreviewed'
    BY <1>5, <1>8 DEF AppliedWasPreviewed
  <1>11. DraftGood'
    BY <1>1, <1>4, <1>8, <1>9, <1>10 DEF DraftGood
  <1>12. ASSUME NEW k \in Nat, Known(k) PROVE k # o /\ k \notin owners
    BY <1>1, <1>3, <1>4, <1>12 DEF Known, SessionInv, OwnersAreFresh
  <1>13. DraftMoves
    BY <1>6, <1>8, <1>12 DEF DraftMoves, Known
  <1>14. TabsGood'
    BY <1>1, <1>4, <1>11, <1>13, TabsStay
  <1>15. \A d \in EditorClients : Previews(d)'
    BY <1>1, <1>4, <1>6, PreviewsStay
  <1>16. RequestsGood'
    BY <1>1, <1>4, <1>6, <1>11, <1>13, <1>15, RequestsStay
  <1> QED BY <1>7, <1>11, <1>14, <1>16, InvInParts, PTL

LEMMA ReloadKeeps == ASSUME IInv, NEW t \in Tabs, Reload(t) PROVE IInv'
  <1>1. SessionInv /\ DraftGood
    BY InvInParts
  <1>2. cookie \in Nat /\ cookie <= Len(sessions) /\ setups \in Nat
    BY <1>1 DEF SessionInv, SessionTypeOK, SessionsExist
  <1>3. draft.owner \in owners /\ draft.owner \in 1 .. setups
    BY <1>1, <1>2, LiveIsOwned DEF Reload
  <1>4. PICK n \in Nat, o \in Nat : n = Revision /\ n >= 1 /\ o = draft.owner
    BY <1>1, <1>2, <1>3 DEF DraftGood, DraftIsOwned, NoDraft, Revision
  <1>5. PICK row \in Rows : row = draft.rows[n]
    BY <1>1, <1>4 DEF DraftGood, Revision
  <1>6. PICK q \in Panels : q = NewPanel /\ q.diff = NoDiff
    BY EmptyPanel
  <1> DEFINE new == [of |-> o, revision |-> n, spec |-> row.spec, layout |-> row.layout,
                     dirty |-> FALSE, status |-> "idle", panel |-> q]
             m   == Made(row.spec, row.layout)
  <1>7. /\ tab' = [tab EXCEPT ![t] = new] /\ made' = [made EXCEPT ![t] = m]
        /\ UNCHANGED <<sessionVars, draft, job>> /\ edits' \in Nat
    BY <1>4, <1>5, <1>6, TheTab DEF Reload, Update, NewTab
  <1>8. /\ new \in EditorStates /\ m \in MadeStates
        /\ new.of = o /\ new.revision = n /\ new.spec = row.spec /\ new.layout = row.layout
        /\ new.panel = q /\ m.spec = row.spec /\ m.layout = row.layout
    BY DEF EditorStates, Rows, Made, MadeStates
  <1> HIDE DEF new, m
  <1>9. Known(o)
    BY <1>3, <1>4 DEF Known
  <1>10. TabGood(new, m)
    BY <1>4, <1>5, <1>6, <1>8, <1>9 DEF TabGood
  <1> QED BY <1>6, <1>7, <1>8, <1>10, OneTab

\* The workspace is deleted: nobody has a draft whose draft was known.
LEMMA DeletionKeeps == ASSUME IInv, NEW c \in Pages, Deletion(c) PROVE IInv'
  <1>1. /\ SessionInv /\ DraftGood /\ TabsGood /\ RequestsGood /\ c \in Clients
        /\ c \notin EditorClients
    BY InvInParts, EditorAssumption
  <1>2. SessionInv'
    BY <1>1, DeleteWorkspaceKeeps DEF Deletion
  <1>3. PICK gone \in Nat : gone = req[c].owner
    BY <1>1, MovesOfRequests
  <1>4. /\ owners' = owners \ {gone} /\ setups' = setups
        /\ UNCHANGED <<tab, job, made, edits>>
        /\ draft' = IF draft.owner = gone THEN NoDraft ELSE draft
    BY <1>3 DEF Deletion, DeleteWorkspace
  <1>5. \E r : Set(c, r)
    BY DEF Deletion, DeleteWorkspace, Answer
  <1>6. \A d \in EditorClients : req'[d] = req[d]
    BY <1>1, <1>5, NotOfTabs
  <1>7. NoDraft \in [owner : Nat, rows : Seq(Rows)] /\ NoDraft.owner = 0 /\ NoDraft.rows = <<>>
    BY DEF NoDraft
  <1>8. DraftIsOwned'
    <2>1. CASE draft.owner = gone
      BY <1>4, <2>1 DEF DraftIsOwned
    <2>2. CASE draft.owner # gone
      BY <1>1, <1>4, <2>2 DEF DraftGood, DraftIsOwned, Revision
    <2> QED BY <2>1, <2>2
  <1>9. AppliedWasPreviewed'
    <2>1. CASE draft' = NoDraft
      BY <1>7, <2>1 DEF AppliedWasPreviewed
    <2>2. CASE draft' = draft
      BY <1>1, <2>2 DEF DraftGood, AppliedWasPreviewed
    <2> QED BY <1>4, <2>1, <2>2
  <1>10. DraftGood'
    BY <1>1, <1>4, <1>7, <1>8, <1>9 DEF DraftGood
  <1>11. DraftMoves
    <2> SUFFICES ASSUME NEW o \in Nat, Known(o)
                 PROVE  /\ Known(o)'
                        /\ o = draft'.owner =>
                              /\ o = draft.owner
                              /\ Revision <= Revision'
                              /\ \A r \in 1 .. Revision : draft'.rows[r] = draft.rows[r]
      BY DEF DraftMoves
    <2>1. o \in 1 .. setups /\ setups \in Nat /\ o # 0
      BY <1>1 DEF Known, SessionInv, SessionTypeOK
    <2>2. CASE draft.owner = gone
      BY <1>4, <1>7, <2>1, <2>2 DEF Known
    <2>3. CASE draft.owner # gone
      <3>1. draft' = draft
        BY <1>4, <2>3
      <3>2. Revision \in Nat /\ Revision' = Revision
        BY <1>1, <3>1 DEF DraftGood, Revision
      <3> QED BY <1>4, <2>1, <3>1, <3>2 DEF Known
    <2> QED BY <2>2, <2>3
  <1>12. TabsGood'
    BY <1>1, <1>4, <1>10, <1>11, TabsStay
  <1>13. \A d \in EditorClients : Previews(d)'
    BY <1>1, <1>4, <1>6, PreviewsStay
  <1>14. RequestsGood'
    BY <1>1, <1>4, <1>6, <1>10, <1>11, <1>13, RequestsStay
  <1> QED BY <1>2, <1>10, <1>12, <1>14, InvInParts, PTL

-----------------------------------------------------------------------------
(* The studio.                                                             *)

LEMMA InvBegins == Init => IInv
  <1> SUFFICES ASSUME Init PROVE IInv
    OBVIOUS
  <1>1. SessionInv
    BY SessionInvBegins DEF Init
  <1>2. DraftGood
    BY DEF Init, NoDraft, DraftGood, DraftIsOwned, AppliedWasPreviewed
  <1>3. PICK q \in Panels : q = NewPanel /\ q.diff = NoDiff
    BY EmptyPanel
  <1> DEFINE x == [of |-> 0, revision |-> 0, spec |-> 0, layout |-> 0,
                   dirty |-> FALSE, status |-> "idle", panel |-> q]
             m == Made(0, 0)
  <1>4. tab = [t \in Tabs |-> x] /\ made = [t \in Tabs |-> m]
    BY <1>3 DEF Init, NewTab, Row
  <1>5. /\ x \in EditorStates /\ m \in MadeStates
        /\ x.revision = 0 /\ x.spec = 0 /\ x.layout = 0 /\ x.panel = q
        /\ m.spec = 0 /\ m.layout = 0
    BY DEF EditorStates, Made, MadeStates
  <1> HIDE DEF x, m
  <1>6. TabGood(x, m)
    BY <1>3, <1>5 DEF TabGood
  <1>7. TabsGood
    BY <1>4, <1>5, <1>6 DEF TabsGood
  <1>8. NoJob \in Jobs /\ NoJob.diff = NoDiff
    BY Nothing DEF NoJob, Job, Jobs
  <1>9. NoRequest.work = "none" /\ NoRequest.at = "idle"
    BY DEF NoRequest, Request
  <1>10. /\ req = [c \in Clients |-> NoRequest] /\ job = [c \in EditorClients |-> NoJob]
         /\ EditorClients \subseteq Clients
    BY EditorAssumption DEF Init, SessionInit
  <1>11. RequestGood(NoRequest, NoJob)
    BY <1>8, <1>9 DEF RequestGood
  <1>12. RequestsGood
    BY <1>8, <1>9, <1>10, <1>11 DEF RequestsGood, Previews
  <1> QED BY <1>1, <1>2, <1>7, <1>12, InvInParts

LEMMA StutterKeeps == ASSUME IInv, UNCHANGED vars PROVE IInv'
  <1>1. SessionInv /\ DraftGood
    BY InvInParts
  <1>2. UNCHANGED <<draft, tab, job, made, edits>>
        /\ UNCHANGED <<owners, setups, sessions, cookie, req, losses>>
    BY DEF vars, sessionVars, auth
  <1>3. SessionInv'
    BY <1>1, <1>2 DEF SessionInv, SessionTypeOK, SessionsAreOwned, OwnersAreFresh, SessionsExist, At
  <1>4. setups \in Nat
    BY <1>1 DEF SessionInv, SessionTypeOK
  <1> QED BY <1>2, <1>3, <1>4, PagesKeep

LEMMA NextKeeps == IInv /\ [Next]_vars => IInv'
  <1> SUFFICES ASSUME IInv, [Next]_vars PROVE IInv'
    OBVIOUS
  <1>1. ASSUME UserStep PROVE IInv'
    <2>1. ASSUME NEW t \in Tabs, SemanticEdit(t) \/ MoveNode(t) \/ TypeCandidate(t) \/ Reload(t)
          PROVE  IInv'
      BY <2>1, SemanticEditKeeps, MoveNodeKeeps, TypeCandidateKeeps, ReloadKeeps
    <2>2. ASSUME NEW c \in EditorClients, ClickSave(c) \/ ClickApply(c) \/ ClickPreview(c)
          PROVE  IInv'
      BY <2>2, ClickSaveKeeps, ClickApplyKeeps, ClickPreviewKeeps
    <2>3. ASSUME NEW c \in Pages,
                 \/ Bootstrap(c) \/ Login(c)
                 \/ \E work \in {"logout", "delete"} : Ask(c, work) /\ UNCHANGED <<auth, losses>>,
                 UNCHANGED <<draft, tab, job, made, edits>>
          PROVE  IInv'
      BY <2>3, LogsIn
    <2> QED BY <1>1, <2>1, <2>2, <2>3 DEF UserStep
  <1>2. ASSUME NEW c \in EditorClients, Served(c) PROVE IInv'
    BY <1>2, PutDraftKeeps, PreviewDiffKeeps, SaveAnsweredKeeps, PreviewAnsweredKeeps DEF Served
  <1> QED BY <1>1, <1>2, CreateDraftKeeps, SessionStepKeeps, DeletionKeeps, StutterKeeps DEF Next

\* The inductive invariant of the studio.
THEOREM StudioInvariant == Spec => []IInv
  BY InvBegins, NextKeeps, PTL DEF Spec

\* However bootstraps, logins and deletions overlap, there is one owner, and
\* every session is of an owner that exists (auth/service.py).
THEOREM SessionsStayOwned == Spec => []SessionsAreOwned
  <1>1. IInv => SessionsAreOwned
    BY DEF IInv, SessionInv
  <1> QED BY <1>1, StudioInvariant, PTL

\* What the user has made stays in his editor, until a bulk change is answered
\* that he has edited beside, which replaces the editor; and a clean editor
\* shows what the server has at its revision, always (editor-state.ts).
THEOREM EditorsKeepWork == Spec => []EditorKeepsWork
  <1>1. IInv => EditorKeepsWork
    BY DEF IInv
  <1> QED BY <1>1, StudioInvariant, PTL

\* A bulk change is saved over the revision its diff was shown against, and is
\* what was shown (draft_service.py, BulkDiffPanel.tsx).
THEOREM BulkChangesWerePreviewed == Spec => []AppliedWasPreviewed
  <1>1. IInv => AppliedWasPreviewed
    BY DEF IInv
  <1> QED BY <1>1, StudioInvariant, PTL

=============================================================================
