------------------------------ MODULE Sessions ------------------------------
(***************************************************************************)
(* The owner of the workspace, his sessions and CSRF tokens                *)
(* (auth/service.py, auth/store.py), as the pages of one browser use them. *)
(* The pages share the session cookie.  Every write of the studio asks for *)
(* a CSRF token first, which replaces the one before (client.ts), so that  *)
(* it takes two requests and each of them two transactions; between any    *)
(* two of these, other pages go on.                                        *)
(***************************************************************************)
EXTENDS Integers, Sequences, FiniteSets

CONSTANTS
    Clients,        \* what sends requests: a page, or a part of one
    MaxSessions,    \* bound: sessions in all
    MaxExpired,     \* bound: how many of them expire
    MaxOwners,      \* bound: how often the workspace is set up
    MaxLosses       \* bound: requests whose answer is lost

VARIABLES
    owners,         \* the rows of owners (and of their workspaces)
    setups,         \* how many owners there have been
    sessions,       \* all sessions there have been
    cookie,         \* the session in the browser's cookie, 0 without one
    req,            \* req[c]: the request of a client
    losses

\* csrf holds the client whose token it is, once one has asked for a token.
Session(owner) ==
    [owner |-> owner, csrf |-> {}, there |-> TRUE, revoked |-> FALSE, expired |-> FALSE]

\* work     what the client wants done
\* at       where the request is: of the two requests of a write, the first is
\*          at "session" and "rotate", the second at "write" and "work"
\* session, owner   what it was sent with, and whom that was found to be
Request(work, at, session, owner, code) ==
    [work |-> work, at |-> at, session |-> session, owner |-> owner, code |-> code]
NoRequest == Request("none", "idle", 0, 0, "none")

auth == <<owners, setups, sessions, cookie>>
sessionVars == <<auth, req, losses>>

Set(c, r)       == req' = [req EXCEPT ![c] = r]
At(c, place)    == req[c].at = place
Move(c, place)  == Set(c, [req[c] EXCEPT !.at = place])
Answer(c, code) == Set(c, [req[c] EXCEPT !.at = "answered", !.code = code])
Works(c, work)  == At(c, "work") /\ req[c].work = work

Live(s) ==
    s # 0 /\ sessions[s].there /\ ~ sessions[s].revoked /\ ~ sessions[s].expired

SessionInit ==
    /\ owners = {}
    /\ setups = 0
    /\ sessions = <<>>
    /\ cookie = 0
    /\ req = [c \in Clients |-> NoRequest]
    /\ losses = 0

-----------------------------------------------------------------------------
(* A write: getSession, then the request itself.                           *)

Ask(c, work) ==
    /\ At(c, "idle")
    /\ Set(c, Request(work, "session", cookie, 0, "none"))

\* authenticate, of the request for a token.
AuthenticateSession(c) ==
    /\ At(c, "session")
    /\ IF Live(req[c].session) THEN Move(c, "rotate")
                               ELSE Answer(c, "authentication_failed")
    /\ UNCHANGED <<auth, losses>>

\* rotate_csrf: the token is replaced, also in a session revoked meanwhile.
RotateCsrf(c) ==
    LET s == req[c].session
    IN  /\ At(c, "rotate")
        /\ \/ /\ ~ sessions[s].there
              /\ Answer(c, "session_not_found")
              /\ UNCHANGED sessions
           \/ /\ sessions[s].there
              /\ sessions' = [sessions EXCEPT ![s].csrf = {c}]
              /\ IF sessions[s].revoked THEN Answer(c, "authentication_failed")
                                        ELSE Move(c, "send")
        /\ UNCHANGED <<owners, setups, cookie, losses>>

\* The second request goes out with the cookie of now.
Send(c) ==
    /\ At(c, "send")
    /\ Set(c, [req[c] EXCEPT !.at = "write", !.session = cookie])
    /\ UNCHANGED <<auth, losses>>

\* authenticate and require_csrf: both look at the session as it is read here.
AuthenticateWrite(c) ==
    LET s == req[c].session
    IN  /\ At(c, "write")
        /\ IF ~ Live(s) THEN Answer(c, "authentication_failed")
           ELSE IF c \notin sessions[s].csrf THEN Answer(c, "csrf_validation_failed")
           ELSE Set(c, [req[c] EXCEPT !.at = "work", !.owner = sessions[s].owner])
        /\ UNCHANGED <<auth, losses>>

\* The network fails: on the way to the server, or on the way back, when the
\* server has done what it was asked for.
LoseRequest(c) ==
    /\ losses < MaxLosses
    /\ losses' = losses + 1
    /\ req[c].at \in {"session", "send", "write", "answered"}
    /\ Answer(c, "network_error")
    /\ UNCHANGED auth

-----------------------------------------------------------------------------
(* The owner.                                                              *)

\* bootstrap_owner, under its advisory lock.
Bootstrap(c) ==
    /\ At(c, "idle")
    /\ setups < MaxOwners
    /\ \/ /\ owners # {}
          /\ Set(c, Request("login", "answered", 0, 0, "bootstrap_already_completed"))
          /\ UNCHANGED <<owners, setups>>
       \/ /\ owners = {}
          /\ setups' = setups + 1
          /\ owners' = {setups + 1}
          /\ Set(c, Request("login", "create", 0, setups + 1, "none"))
    /\ UNCHANGED <<sessions, cookie, losses>>

\* login: the password is checked against the owner as he was read.
Login(c) ==
    /\ At(c, "idle")
    /\ Len(sessions) < MaxSessions
    /\ \/ owners = {} /\ Set(c, Request("login", "answered", cookie, 0, "authentication_failed"))
       \/ \E o \in owners : Set(c, Request("login", "current", cookie, o, "none"))
    /\ UNCHANGED <<auth, losses>>

LoginCurrent(c) ==
    /\ At(c, "current")
    /\ Move(c, IF Live(req[c].session) THEN "revoke" ELSE "create")
    /\ UNCHANGED <<auth, losses>>

Revoked(s) == [sessions EXCEPT ![s].revoked = TRUE]

LoginRevoke(c) ==
    /\ At(c, "revoke")
    /\ sessions' = Revoked(req[c].session)
    /\ Move(c, "create")
    /\ UNCHANGED <<owners, setups, cookie, losses>>

\* _new_session: the row refers to its owner.
M_Refers(o) == TRUE                             \* no foreign key
Refers(o) == o \in owners
CreateSession(c) ==
    LET o == req[c].owner
    IN  /\ At(c, "create")
        /\ Len(sessions) < MaxSessions
        /\ \/ /\ ~ Refers(o)
              /\ Answer(c, "integrity_error")
              /\ UNCHANGED sessions
           \/ /\ Refers(o)
              /\ sessions' = Append(sessions, Session(o))
              /\ Set(c, [req[c] EXCEPT !.at = "answered", !.code = "ok",
                                       !.session = Len(sessions) + 1])
        /\ UNCHANGED <<owners, setups, cookie, losses>>

LogOut(c) ==
    /\ Works(c, "logout")
    /\ sessions' = Revoked(req[c].session)
    /\ Answer(c, "ok")
    /\ UNCHANGED <<owners, setups, cookie, losses>>

\* delete_workspace: everything that refers to the workspace goes with it.
DeleteWorkspace(c) ==
    /\ Works(c, "delete")
    /\ owners' = owners \ {req[c].owner}
    /\ sessions' = [s \in DOMAIN sessions |->
                      [sessions[s] EXCEPT !.there = @ /\ sessions[s].owner # req[c].owner]]
    /\ Answer(c, "ok")
    /\ UNCHANGED <<setups, cookie, losses>>

\* The answer sets or clears the cookie.
SetCookie(c) ==
    /\ At(c, "answered")
    /\ req[c].work \in {"login", "logout", "delete"}
    /\ cookie' = IF req[c].code # "ok" THEN cookie
                 ELSE IF req[c].work = "login" THEN req[c].session ELSE 0
    /\ Set(c, NoRequest)
    /\ UNCHANGED <<owners, setups, sessions, losses>>

Expire(s) ==
    /\ Live(s) /\ Cardinality({e \in DOMAIN sessions : sessions[e].expired}) < MaxExpired
    /\ sessions' = [sessions EXCEPT ![s].expired = TRUE]
    /\ UNCHANGED <<owners, setups, cookie, req, losses>>

-----------------------------------------------------------------------------
RequestGoes(c) ==
    AuthenticateSession(c) \/ RotateCsrf(c) \/ Send(c) \/ AuthenticateWrite(c)

LoginGoes(c) == LoginCurrent(c) \/ LoginRevoke(c) \/ CreateSession(c) \/ LogOut(c) \/ SetCookie(c)

\* All that happens to sessions but for the deletion of the workspace.
SessionStep ==
    \/ \E c \in Clients : RequestGoes(c) \/ LoginGoes(c) \/ LoseRequest(c)
    \/ \E s \in DOMAIN sessions : Expire(s)

-----------------------------------------------------------------------------
SessionRows == [owner : Nat, csrf : SUBSET Clients,
                there : BOOLEAN, revoked : BOOLEAN, expired : BOOLEAN]
\* A client that takes no part in a story is "closed".
Kinds  == {"none", "login", "logout", "delete", "save", "preview"}
Places == {"idle", "session", "rotate", "send", "write", "work", "current", "revoke",
           "create", "answered", "closed"}
Codes  == {"none", "ok", "network_error", "authentication_failed", "session_not_found",
           "csrf_validation_failed", "bootstrap_already_completed", "integrity_error",
           "agent_spec_invalid", "agent_draft_not_found", "agent_draft_revision_conflict"}
RequestRecords == [work : Kinds, at : Places, session : Nat, owner : Nat, code : Codes]

SessionTypeOK ==
    /\ owners \subseteq Nat /\ setups \in Nat
    /\ sessions \in Seq(SessionRows)
    /\ cookie \in Nat
    /\ req \in [Clients -> RequestRecords]
    /\ losses \in Nat

\* However bootstraps, logins and deletions overlap, there is one owner, and
\* every session is of an owner that exists: a login that has checked the
\* password of a workspace deleted meanwhile opens nothing in its successor.
SessionsAreOwned ==
    /\ Cardinality(owners) <= 1
    /\ \A s \in DOMAIN sessions : sessions[s].there => sessions[s].owner \in owners

\* What it rests on, and what the handlers may rely on: nobody is set up twice
\* under one number, a session that is named exists, and a request at work is
\* somebody's.
OwnersAreFresh ==
    /\ owners \subseteq 1 .. setups
    /\ \A o, p \in owners : o = p

SessionsExist ==
    /\ cookie <= Len(sessions)
    /\ \A c \in Clients :
          /\ req[c].session <= Len(sessions)
          /\ At(c, "work") => req[c].owner # 0

SessionInv == SessionTypeOK /\ SessionsAreOwned /\ OwnersAreFresh /\ SessionsExist

=============================================================================
