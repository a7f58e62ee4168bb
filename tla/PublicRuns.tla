----------------------------- MODULE PublicRuns ------------------------------
(***************************************************************************)
(* The public API: calls of visitors of a published app and of holders of  *)
(* API keys, from the request guards over the resolution of the agent and  *)
(* the authentication of the caller to the run that is created, reused or  *)
(* shown (public_service.py, principals.py, the idempotent creation of     *)
(* runs/service.py).                                                       *)
(*                                                                         *)
(* A call is a sequence of transactions.  Between two of them traffic may  *)
(* move, keys may be revoked or expire, other calls may use the same       *)
(* idempotency key, and the run goes on.  Runs are those of RunLifecycle,  *)
(* reduced to what a call sees of them: their status, and whether their    *)
(* execution was started.                                                  *)
(***************************************************************************)
EXTENDS RequestGuards, FiniteSets

CONSTANTS
    Agents,         \* rows of agents
    AgentKey,       \* AgentKey[a]: agents.agent_key, the name in public paths
    Project,        \* Project[a]: the project (and workspace) of the agent
    Keys,           \* API keys
    KeyAgent,       \* KeyAgent[k]: the agent the key was created for
    KeyScopes,      \* KeyScopes[k]: its scopes
    KeyLife,        \* KeyLife[k]: seconds it is valid, 0 if it does not expire
    Calls,          \* the calls that are made, numbered as they begin
    Requests,       \* Requests[c]: what call c may ask for
    Refuses,        \* pairs of a version and an input that its schema refuses
    CapabilityTTL,  \* settings.public_capability_ttl_seconds
    SyncWait,       \* settings.public_sync_wait_seconds
    MaxVersions,    \* MaxVersions[a], bound: versions of an agent
    MaxMoves,       \* bound: what owners do in all, with traffic and with keys
    MaxNow          \* bound: seconds in which calls begin

\* A capability lives at least 60 seconds, a synchronous call at most 30
\* (the bounds of both settings); a project has one agent of a name; only the
\* reading calls name a run, and only get_agent takes no bearer.
ASSUME PublicAssumption ==
    /\ Calls \subseteq Nat \ {0}
    /\ Keys \cap (Calls \cup {0}) = {} /\ "web" \notin Keys
    /\ {"create", "invoke"} \subseteq Buckets
    /\ CapabilityTTL \in Nat /\ SyncWait \in Nat /\ CapabilityTTL > SyncWait
    /\ \A a, b \in Agents : AgentKey[a] = AgentKey[b] /\ Project[a] = Project[b] => a = b
    /\ KeyAgent \in [Keys -> Agents] /\ KeyLife \in [Keys -> Nat]
    /\ \A c \in Calls : \A q \in Requests[c] :
          /\ q.bearer \in Keys \cup Calls \cup {0}
          /\ \/ q.kind \in {"create", "invoke"} /\ q.of = 0
             \/ q.kind = "agent" /\ q.of = 0 /\ q.bearer = 0
             \/ q.kind \in {"run", "events"} /\ q.of \in Calls

VARIABLES
    traffic,        \* traffic[a]: number of the active version, 0 without one
    latest,         \* latest[a]: number of the last version
    ledger,         \* agents with a row in agent_publication_events
    keys,           \* keys[k]: [state, until]
    runs,           \* the runs rows
    requests,       \* the run_requests rows
    calls,          \* calls[c]
    moves           \* what owners have done so far (for the bound)

owned == <<traffic, latest, ledger, keys, moves>>
vars  == <<guards, owned, runs, requests, calls>>

\* To a call, a run that was executed and failed or was cancelled is like one
\* that completed: it is over.
TerminalStatuses == {"completed", "failed"}

-----------------------------------------------------------------------------
(* Calls.  A request has a kind ("create", "invoke": POST; "agent", "run", *)
(* "events": GET), the agent's name in its path, a bearer (a key, the      *)
(* capability that another call was given, or none), an idempotency key,   *)
(* an input, and, to read, the call whose run it asks for.                 *)

NoOne == 0
NoRequest == [kind |-> "none", path |-> "none", bearer |-> NoOne,
              idem |-> "none", input |-> "none", of |-> NoOne]

\* at     where the call is; "answered" has a code
\* agent, version   what it resolved
\* run    the run it was given, 0 without one
\* seen   the status of the run as it was last read
\* exp    when the capability it was given expires
\* made   it created its run;  dead   it came with a bearer that was dead
NoCall == [at |-> "idle", req |-> NoRequest, agent |-> "none", version |-> 0,
           run |-> 0, seen |-> "none", exp |-> 0, deadline |-> 0,
           code |-> 0, made |-> FALSE, dead |-> FALSE]

Go(c, state) == calls' = [calls EXCEPT ![c] = state]
Answer(c, state, code) ==
    Go(c, [state EXCEPT !.at = "answered", !.code = code, !.deadline = 0])
At(c, place) == calls[c].at = place
Answered(c) == At(c, "answered")
Given(c) == Answered(c) /\ calls[c].code \in {200, 202}

-----------------------------------------------------------------------------
(* Bearers.                                                                *)

Expired_(k) == keys[k].until # 0 /\ keys[k].until <= now
Live(k) == keys[k].state = "live" /\ ~ Expired_(k)

\* _authenticate_api_key: the answer to a bearer that is refused, 0 otherwise.
\* Anything but an API key has the wrong form.
M_KeyVerdict(bearer, path, scope) ==            \* revoked keys are let in
    IF bearer \notin Keys THEN 401
    ELSE IF Expired_(bearer) \/ AgentKey[KeyAgent[bearer]] # path THEN 401
    ELSE IF scope \notin KeyScopes[bearer] THEN 403 ELSE 0
KeyVerdict(bearer, path, scope) ==
    IF bearer \notin Keys THEN 401
    ELSE IF ~ Live(bearer) \/ AgentKey[KeyAgent[bearer]] # path THEN 401
    ELSE IF scope \notin KeyScopes[bearer] THEN 403 ELSE 0

\* verify_run_capability, for the capability that call d was given.
CapabilityVerdict(d, path, run) ==
    IF calls[d].req.path = path /\ calls[d].run = run /\ now < calls[d].exp
    THEN 0 ELSE 401

\* _read_principal, and the project its principal may read in.
ReadVerdict(bearer, path, run, scope) ==
    IF bearer \in Calls THEN CapabilityVerdict(bearer, path, run)
                        ELSE KeyVerdict(bearer, path, scope)
Tenant(bearer) ==
    Project[IF bearer \in Calls THEN calls[bearer].agent ELSE KeyAgent[bearer]]

\* A bearer that nobody will accept any more.
Dead(bearer) ==
    \/ bearer \in Keys /\ ~ Live(bearer)
    \/ bearer \in Calls /\ now >= calls[bearer].exp

Init ==
    /\ GuardInit
    /\ traffic = [a \in Agents |-> 0]
    /\ latest = [a \in Agents |-> 0]
    /\ ledger = {}
    /\ moves = 0
    /\ keys = [k \in Keys |-> [state |-> "none", until |-> 0]]
    /\ runs = <<>>
    /\ requests = {}
    /\ calls = [c \in Calls |-> NoCall]

-----------------------------------------------------------------------------
(* What owners do meanwhile, as far as a call can tell (see Publishing).   *)

\* Nothing is explored once all calls are answered.
Unanswered == \E c \in Calls : ~ Answered(c)

Moved == Unanswered /\ moves < MaxMoves /\ moves' = moves + 1
OwnersAct == UNCHANGED <<guards, runs, requests, calls>>

\* publish_draft claims the public name of the agent.
Publish(a) ==
    /\ Moved
    /\ latest[a] < MaxVersions[a]
    /\ \A b \in ledger : AgentKey[b] = AgentKey[a] => b = a
    /\ latest' = [latest EXCEPT ![a] = @ + 1]
    /\ traffic' = [traffic EXCEPT ![a] = latest[a] + 1]
    /\ ledger' = ledger \cup {a}
    /\ UNCHANGED keys /\ OwnersAct

\* An imported version is activated; once published, an agent is not.
Activate(a) ==
    /\ Moved
    /\ a \notin ledger
    /\ latest[a] < MaxVersions[a]
    /\ latest' = [latest EXCEPT ![a] = @ + 1]
    /\ traffic' = [traffic EXCEPT ![a] = latest[a] + 1]
    /\ UNCHANGED <<ledger, keys>> /\ OwnersAct

\* rollback asks for no claim.
Rollback(a) ==
    /\ Moved
    /\ \E v \in 1 .. latest[a] :
          v # traffic[a] /\ traffic' = [traffic EXCEPT ![a] = v]
    /\ ledger' = ledger \cup {a}
    /\ UNCHANGED <<latest, keys>> /\ OwnersAct

CreateKey(k) ==
    /\ Moved
    /\ keys[k].state = "none"
    /\ keys' = [keys EXCEPT ![k] =
                  [state |-> "live", until |-> IF KeyLife[k] = 0 THEN 0 ELSE now + KeyLife[k]]]
    /\ UNCHANGED <<traffic, latest, ledger>> /\ OwnersAct

RevokeKey(k) ==
    /\ Moved
    /\ keys[k].state = "live"
    /\ keys' = [keys EXCEPT ![k].state = "revoked"]
    /\ UNCHANGED <<traffic, latest, ledger>> /\ OwnersAct

-----------------------------------------------------------------------------
(* Runs, as RunLifecycle lets them go on.                                  *)

RunGoes ==
    /\ Unanswered
    /\ \E r \in DOMAIN runs :
          /\ runs[r].started
          /\ \/ runs[r].status = "queued" /\ runs' = [runs EXCEPT ![r].status = "running"]
             \/ runs[r].status = "running" /\ runs' = [runs EXCEPT ![r].status = "completed"]
    /\ UNCHANGED <<guards, owned, requests, calls>>

-----------------------------------------------------------------------------
CallGoes == UNCHANGED <<guards, owned, runs, requests>>

\* The request has what it names: a key that was created, a capability or a
\* run that some call was answered with.
Sendable(q) ==
    /\ q.bearer \in Keys => keys[q.bearer].state # "none"
    /\ q.bearer \in Calls => Given(q.bearer) /\ calls[q.bearer].exp # 0
    /\ q.of # NoOne => Given(q.of) /\ calls[q.of].run # 0

Asked(q, place) ==
    [NoCall EXCEPT !.at = place, !.req = q, !.dead = Dead(q.bearer),
                   !.run = IF q.of = NoOne THEN 0 ELSE calls[q.of].run]

\* invoke authenticates a bearer for reading before anything else; the
\* published app sends none.
M_Entry(q) == "resolve"                         \* creates first, reads later
Entry(q) == IF q.kind = "invoke" /\ q.bearer # NoOne THEN "authenticate" ELSE "resolve"

\* The guards, then the handler.
Arrive(c, q) ==
    /\ At(c, "idle")
    /\ \A d \in Calls : d < c => ~ At(d, "idle")
    /\ now <= MaxNow
    /\ Sendable(q)
    /\ \/ /\ q.kind \in {"create", "invoke"}
          /\ Admit(q.kind)
          /\ Go(c, Asked(q, Entry(q)))
       \/ /\ q.kind \in {"create", "invoke"}
          /\ TurnAway(q.kind)
          /\ Answer(c, Asked(q, "idle"), 429)
       \/ /\ q.kind \in {"run", "events"}
          /\ Go(c, Asked(q, "authenticate"))
          /\ UNCHANGED guards
       \/ /\ q.kind = "agent"
          /\ Go(c, Asked(q, "resolve"))
          /\ UNCHANGED guards
    /\ UNCHANGED <<owned, runs, requests>>

\* The first transaction of invoke, get_run and authorize_events.
Authenticate(c) ==
    LET q == calls[c].req
        scope == IF q.kind = "events" THEN "events:read" ELSE "runs:read"
        verdict == IF q.kind = "invoke" THEN KeyVerdict(q.bearer, q.path, scope)
                   ELSE ReadVerdict(q.bearer, q.path, calls[c].run, scope)
    IN  /\ At(c, "authenticate")
        /\ IF verdict # 0 THEN Answer(c, calls[c], verdict)
           ELSE Go(c, [calls[c] EXCEPT !.at = IF q.kind = "invoke" THEN "resolve" ELSE "read"])
        /\ CallGoes

\* _resolve_agent: the one published agent of this name.
Routed(path) == {a \in ledger : AgentKey[a] = path /\ traffic[a] # 0}
Resolve(c) ==
    LET found == Routed(calls[c].req.path)
    IN  /\ At(c, "resolve")
        /\ IF Cardinality(found) # 1 THEN Answer(c, calls[c], 404)
           ELSE \E a \in found :
                   LET seen == [calls[c] EXCEPT !.agent = a, !.version = traffic[a]]
                   IN  IF seen.req.kind = "agent" THEN Answer(c, seen, 200)
                       ELSE Go(c, [seen EXCEPT !.at = "principal"])
        /\ CallGoes

\* _create_principal, and the idempotency key that an API key needs.
Foreign(c) == Project[KeyAgent[calls[c].req.bearer]] # Project[calls[c].agent]
Principal(c) ==
    LET q == calls[c].req
        verdict == KeyVerdict(q.bearer, q.path, "runs:create")
    IN  /\ At(c, "principal")
        /\ \/ /\ q.bearer = NoOne
              /\ Go(c, [calls[c] EXCEPT !.at = "row"])
           \/ /\ q.bearer # NoOne /\ verdict # 0
              /\ Answer(c, calls[c], verdict)
           \/ /\ q.bearer # NoOne /\ verdict = 0
              /\ IF Foreign(c) THEN Answer(c, calls[c], 401)
                 ELSE IF q.idem = "none" THEN Answer(c, calls[c], 422)
                 ELSE Go(c, [calls[c] EXCEPT !.at = "row"])
        /\ CallGoes

\* The durable key: of the API key and the client's key, or a fresh one.
DurableKey(c) ==
    IF calls[c].req.bearer = NoOne THEN <<"web", c>>
    ELSE <<calls[c].req.bearer, calls[c].req.idem>>

\* create_resolved_run up to its first commit (create_idempotent, under the
\* advisory lock of project and durable key).  The digest of a request covers
\* the version that was resolved for it.
M_Existing(c) == {}                             \* the lookup finds nothing
Existing(c) ==
    {r \in requests : r.project = Project[calls[c].agent] /\ r.key = DurableKey(c)}
SameRequest(r, c) == r.input = calls[c].req.input /\ r.version = calls[c].version

CreateRow(c) ==
    LET q == calls[c].req
        next(r) == IF runs[r].status = "queued" /\ ~ runs[r].durable THEN "start" ELSE "view"
    IN  /\ At(c, "row")
        /\ \/ /\ <<calls[c].version, q.input>> \in Refuses
              /\ Answer(c, calls[c], 422)
              /\ UNCHANGED <<runs, requests>>
           \/ /\ <<calls[c].version, q.input>> \notin Refuses
              /\ \E r \in Existing(c) :
                    IF SameRequest(r, c)
                    THEN Go(c, [calls[c] EXCEPT !.at = next(r.run), !.run = r.run])
                    ELSE Answer(c, calls[c], 409)
              /\ UNCHANGED <<runs, requests>>
           \/ /\ <<calls[c].version, q.input>> \notin Refuses
              /\ Existing(c) = {}
              /\ runs' = Append(runs, [agent |-> calls[c].agent, version |-> calls[c].version,
                                       input |-> q.input, status |-> "queued",
                                       started |-> FALSE, durable |-> FALSE])
              /\ requests' = requests \cup
                    {[project |-> Project[calls[c].agent], key |-> DurableKey(c),
                      version |-> calls[c].version, input |-> q.input, run |-> Len(runs) + 1]}
              /\ Go(c, [calls[c] EXCEPT !.at = "start", !.run = Len(runs) + 1, !.made = TRUE])
        /\ UNCHANGED <<guards, owned>>

\* The rest of create_resolved_run, whose steps are those of RunLifecycle: the
\* execution is started and marked; or marking it fails; or start_run raises,
\* with or without having started it, and finalize_start_failure settles a run
\* that has no events yet, or meets them.
StartExecution(c) ==
    LET r == calls[c].run
    IN  /\ At(c, "start")
        /\ \/ /\ runs' = [runs EXCEPT ![r].started = TRUE, ![r].durable = TRUE]
              /\ Go(c, [calls[c] EXCEPT !.at = "view"])
           \/ /\ runs' = [runs EXCEPT ![r].started = TRUE]
              /\ Answer(c, calls[c], 503)
           \/ /\ runs[r].status = "queued"
              /\ runs' = [runs EXCEPT ![r].status = "failed"]
              /\ Answer(c, calls[c], 503)
           \/ /\ runs[r].status # "queued"
              /\ UNCHANGED runs
              /\ Answer(c, calls[c], 500)
        /\ UNCHANGED <<guards, owned, requests>>

\* The run is read again for the answer; a visitor gets a capability for it.
View(c) ==
    LET q == calls[c].req
        seen == [calls[c] EXCEPT !.seen = runs[calls[c].run].status,
                                 !.exp = IF q.bearer = NoOne THEN now + CapabilityTTL ELSE 0,
                                 !.deadline = now + SyncWait]
    IN  /\ At(c, "view")
        /\ IF q.kind = "create" THEN Answer(c, seen, 202)
           ELSE Go(c, [seen EXCEPT !.at = "poll"])
        /\ CallGoes

M_TimeIsUp(c) == FALSE                          \* waits for the end of the run
TimeIsUp(c) == now >= calls[c].deadline

\* The loop of invoke: give up at the deadline, or authenticate and read again.
Poll(c) ==
    LET q == calls[c].req
        verdict == IF q.bearer = NoOne THEN CapabilityVerdict(c, q.path, calls[c].run)
                   ELSE KeyVerdict(q.bearer, q.path, "runs:read")
    IN  /\ At(c, "poll")
        /\ \/ /\ calls[c].seen \in TerminalStatuses
              /\ Answer(c, calls[c], 200)
           \/ /\ calls[c].seen \notin TerminalStatuses /\ TimeIsUp(c)
              /\ Answer(c, calls[c], 202)
           \/ /\ calls[c].seen \notin TerminalStatuses /\ ~ TimeIsUp(c)
              /\ IF verdict # 0 THEN Answer(c, calls[c], verdict)
                 ELSE Go(c, [calls[c] EXCEPT !.at = "pollRead"])
        /\ CallGoes

PollRead(c) ==
    /\ At(c, "pollRead")
    /\ Go(c, [calls[c] EXCEPT !.at = "poll", !.seen = runs[calls[c].run].status])
    /\ CallGoes

\* get_run and authorize_events, once the bearer is accepted.
M_Readable(c) ==                                \* the agent of the run is not compared
    Project[runs[calls[c].run].agent] = Tenant(calls[c].req.bearer)
Readable(c) ==
    LET a == runs[calls[c].run].agent
    IN  Project[a] = Tenant(calls[c].req.bearer) /\ AgentKey[a] = calls[c].req.path
ReadRun(c) ==
    /\ At(c, "read")
    /\ IF Readable(c)
       THEN Answer(c, [calls[c] EXCEPT !.seen = runs[calls[c].run].status], 200)
       ELSE Answer(c, calls[c], 404)
    /\ CallGoes

CallStep(c) ==
    \/ Authenticate(c) \/ Resolve(c) \/ Principal(c) \/ CreateRow(c)
    \/ StartExecution(c) \/ View(c) \/ Poll(c) \/ PollRead(c) \/ ReadRun(c)

\* Time passes while calls may begin, and for those that wait.
Tick ==
    /\ now < MaxNow \/ \E c \in Calls : now < calls[c].deadline
    /\ PassTime
    /\ UNCHANGED <<owned, runs, requests, calls>>

Next ==
    \/ \E a \in Agents : Publish(a) \/ Activate(a) \/ Rollback(a)
    \/ \E k \in Keys : CreateKey(k) \/ RevokeKey(k)
    \/ RunGoes
    \/ \E c \in Calls : CallStep(c) \/ \E q \in Requests[c] : Arrive(c, q)
    \/ Tick

Spec == Init /\ [][Next]_vars

\* Handlers go on and time passes.  Nobody has to call, and no run has to end.
Fairness == WF_vars(Tick) /\ \A c \in Calls : WF_vars(CallStep(c))
FairSpec == Spec /\ Fairness

-----------------------------------------------------------------------------
(* Safety.                                                                 *)

\* However calls with one API key and one idempotency key race, repeat and
\* change their input, those that are given a run are given one and the same,
\* and it is a run of what each of them asked for (create_idempotent).
OneRunPerKey ==
    /\ \A c, d \in Calls :
          /\ Given(c) /\ Given(d)
          /\ {calls[c].req.kind, calls[d].req.kind} \subseteq {"create", "invoke"}
          /\ calls[c].req.bearer # NoOne
          /\ calls[c].req.bearer = calls[d].req.bearer
          /\ calls[c].req.idem = calls[d].req.idem
          => calls[c].run = calls[d].run
    /\ \A c \in Calls : Given(c) /\ calls[c].req.kind \in {"create", "invoke"} =>
          /\ runs[calls[c].run].input = calls[c].req.input
          /\ runs[calls[c].run].version = calls[c].version

\* Whoever is given a run may see it: it is of the agent named in the path, of
\* the very agent its API key was created for, or the one run of its
\* capability; and a final status is that of the run, also in an answer that
\* waited for it (_authenticate_api_key, _create_principal, _read_principal,
\* _run_belongs_to_agent).
GivenIsOwn ==
    \A c \in Calls : Given(c) /\ calls[c].run # 0 =>
        LET q == calls[c].req
            r == runs[calls[c].run]
        IN  /\ AgentKey[r.agent] = q.path
            /\ q.bearer \in Keys => r.agent = KeyAgent[q.bearer]
            /\ q.bearer \in Calls => calls[c].run = calls[q.bearer].run
            /\ calls[c].seen \in TerminalStatuses => r.status = calls[c].seen

\* A call that comes with a key that is revoked or expired, or with a
\* capability that has expired, gets nothing and leaves nothing, whichever of
\* its transactions looks at the bearer.
DeadBearerOpensNothing ==
    \A c \in Calls : calls[c].dead => ~ Given(c) /\ ~ calls[c].made

\* A client that is refused has no run it does not know of, except when the
\* bearer died while invoke was waiting for the run.
RefusedLeavesNoRun ==
    \A c \in Calls :
        Answered(c) /\ calls[c].code \in {401, 403, 404, 409, 422, 429} /\ calls[c].made
            => Dead(calls[c].req.bearer)

-----------------------------------------------------------------------------
(* The invariant behind them: what a call that has come so far has passed, *)
(* and what it may rely on while other calls, owners and runs go on.       *)

Places == {"idle", "authenticate", "resolve", "principal", "row", "start",
           "view", "poll", "pollRead", "read", "answered"}
Statuses == {"queued", "running"} \cup TerminalStatuses
AllRequests == {NoRequest} \cup UNION {Requests[c] : c \in Calls}
RunRows == [agent : Agents, version : Nat, input : {q.input : q \in AllRequests},
            status : Statuses, started : BOOLEAN, durable : BOOLEAN]
CallStates == [at : Places, req : AllRequests, agent : Agents \cup {"none"}, version : Nat,
               run : Nat, seen : Statuses \cup {"none"}, exp : Nat, deadline : Nat,
               code : Nat, made : BOOLEAN, dead : BOOLEAN]

PublicTypeOK ==
    /\ now \in Nat
    /\ traffic \in [Agents -> Nat] /\ latest \in [Agents -> Nat]
    /\ ledger \subseteq Agents
    /\ keys \in [Keys -> [state : {"none", "live", "revoked"}, until : Nat]]
    /\ runs \in Seq(RunRows)
    /\ calls \in [Calls -> CallStates]

\* A request names a run of what it asked for, in its project and, if a key
\* made it, of the agent of the key; and a durable key names one request.
RequestsAgree ==
    /\ \A r \in requests :
          /\ r.run \in DOMAIN runs
          /\ r.input = runs[r.run].input /\ r.version = runs[r.run].version
          /\ \A k \in Keys : r.key[1] = k => runs[r.run].agent = KeyAgent[k]
          /\ \A c \in Calls : r.key = <<"web", c>> => calls[c].made
    /\ \A r, s \in requests : r.project = s.project /\ r.key = s.key => r = s

CreatesRun(c) == calls[c].req.kind \in {"create", "invoke"}
ReadsRun(c)   == calls[c].req.kind \in {"run", "events"}

\* It is where such a request goes, and asks what it may ask.
Placed(c) ==
    /\ ~ At(c, "idle") => calls[c].req \in Requests[c]
    /\ At(c, "idle") => calls[c] = NoCall
    /\ At(c, "authenticate") => ReadsRun(c) \/ calls[c].req.kind = "invoke"
    /\ At(c, "resolve") => ~ ReadsRun(c)
    /\ calls[c].at \in {"principal", "row", "start", "view", "poll", "pollRead"} => CreatesRun(c)
    /\ calls[c].at \in {"poll", "pollRead"} => calls[c].req.kind = "invoke"
    /\ At(c, "read") => ReadsRun(c)
    /\ calls[c].req.bearer \in Calls => Given(calls[c].req.bearer)
    /\ calls[c].req.bearer \in Keys => keys[calls[c].req.bearer].state # "none"

\* It has resolved its agent, and a key it came with is one of this agent.
Resolved(c) ==
    /\ calls[c].at \in {"principal", "row", "start", "view", "poll", "pollRead"} =>
          calls[c].agent \in Agents /\ AgentKey[calls[c].agent] = calls[c].req.path
    /\ calls[c].at \in {"row", "start", "view", "poll", "pollRead"} =>
          \/ calls[c].req.bearer = NoOne
          \/ calls[c].req.bearer \in Keys /\ KeyAgent[calls[c].req.bearer] = calls[c].agent
    /\ /\ calls[c].req.kind = "invoke" /\ calls[c].req.bearer # NoOne
       /\ calls[c].at \in {"resolve", "principal", "row", "start", "view", "poll", "pollRead"}
       => calls[c].req.bearer \in Keys /\ "runs:read" \in KeyScopes[calls[c].req.bearer]

\* Its run is the one its request names.
HasRun(c) ==
    CreatesRun(c) /\ (calls[c].at \in {"start", "view", "poll", "pollRead"} \/ Given(c)) =>
        LET q == calls[c].req
            r == runs[calls[c].run]
        IN  /\ calls[c].run \in DOMAIN runs /\ calls[c].agent \in Agents
            /\ r.agent = calls[c].agent /\ AgentKey[r.agent] = q.path
            /\ q.bearer # NoOne => q.bearer \in Keys /\ r.agent = KeyAgent[q.bearer]
            /\ \E s \in requests :
                  /\ s.project = Project[calls[c].agent] /\ s.key = DurableKey(c)
                  /\ s.run = calls[c].run
                  /\ s.input = q.input /\ s.version = calls[c].version

\* A reading call looks at one run all the time, which its bearer is for.
MayRead(c) ==
    /\ ReadsRun(c) /\ ~ At(c, "idle") => calls[c].run \in DOMAIN runs
    /\ At(c, "read") \/ (ReadsRun(c) /\ Given(c)) =>
        LET q == calls[c].req
        IN  /\ q.bearer \in Keys => AgentKey[KeyAgent[q.bearer]] = q.path
            /\ q.bearer \in Calls => calls[c].run = calls[q.bearer].run
    /\ ReadsRun(c) /\ Given(c) =>
        LET q == calls[c].req
            r == runs[calls[c].run]
        IN  AgentKey[r.agent] = q.path /\ (q.bearer \in Keys => r.agent = KeyAgent[q.bearer])

\* A final status it has seen is that of its run.
SawTheRun(c) ==
    /\ calls[c].seen \in TerminalStatuses =>
          calls[c].run \in DOMAIN runs /\ runs[calls[c].run].status = calls[c].seen
    /\ calls[c].at \in {"authenticate", "resolve", "principal", "row"} => calls[c].seen = "none"
    /\ calls[c].req.kind = "agent" => calls[c].run = 0

\* A dead bearer stays dead and does not come far; a run is left behind only
\* when the bearer died, and a capability outlives the wait.
Bearers(c) ==
    /\ calls[c].dead =>
          /\ Dead(calls[c].req.bearer)
          /\ calls[c].at \in {"authenticate", "resolve", "principal", "answered"}
          /\ calls[c].code \notin {200, 202} /\ ~ calls[c].made
    /\ calls[c].made =>
          /\ CreatesRun(c)
          /\ calls[c].at \in {"start", "view", "poll", "pollRead", "answered"}
          /\ Answered(c) /\ calls[c].code \in {401, 403, 404, 409, 422, 429} =>
                Dead(calls[c].req.bearer)
    /\ calls[c].at \in {"poll", "pollRead"} /\ calls[c].req.bearer = NoOne =>
          calls[c].deadline < calls[c].exp

CallOK(c) ==
    Placed(c) /\ Resolved(c) /\ HasRun(c) /\ MayRead(c) /\ SawTheRun(c) /\ Bearers(c)

CallsInv == PublicTypeOK /\ RequestsAgree /\ \A c \in Calls : CallOK(c)

-----------------------------------------------------------------------------
(* Liveness.                                                               *)

\* Every call is answered, also if its run never ends: a synchronous call by
\* its deadline.
CallsAreAnswered == \A c \in Calls : ~ At(c, "idle") ~> Answered(c)

=============================================================================
