---------------------------- MODULE WebhookOutbox ----------------------------
(***************************************************************************)
(* The webhook outbox: subscriptions, the deliveries that settled runs     *)
(* enqueue for them, and the dispatchers (one in every runtime worker)     *)
(* that claim due deliveries under a lease, send them one after another    *)
(* and record what came of it.                                             *)
(*                                                                         *)
(* Time is relative.  A row keeps the seconds left until next_attempt_at   *)
(* (0: it is due), a dispatcher the seconds since the claim whose time     *)
(* stamp it uses for its whole batch; Tick lets one second pass for all.   *)
(***************************************************************************)
EXTENDS Integers, FiniteSets

CONSTANTS
    Subscriptions, Runs,
    Dispatchers,
    Events,             \* the terminal event types each subscription listens to
    AllowedOrigins,     \* subscriptions whose origin the operator still allows
    BatchSize,          \* deliveries claimed at once (20)
    MaxAttempts,        \* webhook_max_attempts (5)
    Lease,              \* lease_seconds (30)
    MaxClaims,          \* bound: claims of one delivery explored
    MaxMishaps          \* bound: crashes and lapsed leases explored

TerminalEvents == {"run.completed", "run.failed", "run.cancelled"}

ASSUME OutboxAssumption ==
    /\ Events \in [Subscriptions -> SUBSET TerminalEvents]
    /\ AllowedOrigins \subseteq Subscriptions
    /\ BatchSize \in Nat \ {0}
    /\ MaxAttempts \in Nat \ {0}
    /\ Lease \in Nat \ {0}
    /\ MaxClaims \in Nat \ {0}
    /\ MaxMishaps \in Nat

Deliveries == Subscriptions \X Runs
Claims     == [id : Deliveries, attempt : 1 .. MaxClaims]
Settled    == {"delivered", "failed", "cancelled"}

VARIABLES
    sub,        \* webhook_subscriptions: none, active, revoked
    ended,      \* runs that have been settled
    row,        \* webhook_deliveries
    disp,       \* what each dispatcher is doing
    requests,   \* history: the attempts that reached the receiver, and its answer
    mishaps     \* crashes and lapsed leases so far

vars == <<sub, ended, row, disp, requests, mishaps>>

Row(state, attempts, due) == [state |-> state, attempts |-> attempts, due |-> due]
NoRow == Row("absent", 0, 0)

\* Seconds left of a delay that started age seconds ago.
Left(delay, age) == IF delay > age THEN delay - age ELSE 0

\* The delay after attempt n fails transiently: 2 ** min(n, 6) seconds.
Powers == <<2, 4, 8, 16, 32, 64>>
Backoff(n) == Powers[IF n < 6 THEN n ELSE 6]

\* No delay lasts longer than this, so times beyond it need not be told apart.
Horizon == IF Backoff(MaxAttempts) > Lease THEN Backoff(MaxAttempts) ELSE Lease

\* A dispatcher: what is left of its batch, the seconds since the batch was
\* claimed, and the delivery it has sent but not yet recorded.
NoClaim == [id |-> <<"none", "none">>, attempt |-> 0]
Polling == [batch |-> {}, age |-> 0, cur |-> NoClaim, outcome |-> "none"]

Rows == [state : {"absent", "pending", "delivering"} \cup Settled,
         attempts : 0 .. MaxClaims,
         due : Nat]
Work == [batch : SUBSET Claims,
         age : Nat,
         cur : Claims \cup {NoClaim},
         outcome : {"none", "delivered", "failed", "transient"}]

TypeOK ==
    /\ sub \in [Subscriptions -> {"none", "active", "revoked"}]
    /\ ended \subseteq Runs
    /\ row \in [Deliveries -> Rows]
    /\ disp \in [Dispatchers -> Work]
    /\ requests \subseteq [claim : Claims, outcome : {"delivered", "failed", "transient"}]
    /\ mishaps \in 0 .. MaxMishaps

Init ==
    /\ sub = [s \in Subscriptions |-> "none"]
    /\ ended = {}
    /\ row = [d \in Deliveries |-> NoRow]
    /\ disp = [w \in Dispatchers |-> Polling]
    /\ requests = {}
    /\ mishaps = 0

-----------------------------------------------------------------------------
(* The owner and the runs.                                                 *)

Create(s) ==
    /\ sub[s] = "none"
    /\ sub' = [sub EXCEPT ![s] = "active"]
    /\ UNCHANGED <<ended, row, disp, requests, mishaps>>

Revoke(s) ==
    /\ sub[s] = "active"
    /\ sub' = [sub EXCEPT ![s] = "revoked"]
    /\ UNCHANGED <<ended, row, disp, requests, mishaps>>

\* enqueue_terminal, in the transaction that settles the run.
Wants(s, type) == sub[s] = "active" /\ type \in Events[s]

EnqueueTerminal(r) ==
    /\ r \notin ended
    /\ ended' = ended \cup {r}
    /\ \E type \in TerminalEvents :
          row' = [d \in Deliveries |->
                    IF d[2] = r /\ Wants(d[1], type) THEN Row("pending", 0, 0) ELSE row[d]]
    /\ UNCHANGED <<sub, disp, requests, mishaps>>

-----------------------------------------------------------------------------
(* The dispatchers.                                                        *)

M_DuePending ==                         \* a lapsed lease is not noticed
    {d \in Deliveries : row[d].state = "pending" /\ row[d].due = 0 /\ row[d].attempts < MaxClaims}
M_DueUnleased ==                        \* a lease is not respected
    {d \in Deliveries : row[d].state \in {"pending", "delivering"} /\ row[d].attempts < MaxClaims}
Due == {d \in Deliveries :
          /\ row[d].state \in {"pending", "delivering"}
          /\ row[d].due = 0
          /\ row[d].attempts < MaxClaims}

\* claim_due: up to BatchSize due deliveries, in one transaction.  A delivery
\* of a revoked subscription is cancelled instead of claimed.  A delivery
\* that is still "delivering" when its lease is over is claimed again.
ClaimDue(w) ==
    /\ disp[w].batch = {}
    /\ \E B \in SUBSET Due :
        /\ B # {}
        /\ Cardinality(B) <= BatchSize
        /\ B = Due \/ Cardinality(B) = BatchSize
        /\ LET live == {d \in B : sub[d[1]] = "active"}
           IN  /\ row' = [d \in Deliveries |->
                            IF d \in live
                            THEN Row("delivering", row[d].attempts + 1, Lease)
                            ELSE IF d \in B THEN [row[d] EXCEPT !.state = "cancelled"]
                            ELSE row[d]]
               /\ disp' = [disp EXCEPT ![w].batch =
                             {[id |-> d, attempt |-> row[d].attempts + 1] : d \in live}]
    /\ UNCHANGED <<sub, ended, requests, mishaps>>

\* What _deliver makes of one claim, up to the call of finish: nothing is sent
\* to an origin that is no longer allowed; a request may be lost on its way, or
\* reach the receiver, whose answer may be lost too.
Deliver(w, c, outcome) ==
    /\ c \in disp[w].batch
    /\ disp[w].cur = NoClaim
    /\ disp' = [disp EXCEPT ![w].cur = c, ![w].outcome = outcome]
    /\ UNCHANGED <<sub, ended, row, mishaps>>

RefuseOrigin(w, c) ==
    /\ c.id[1] \notin AllowedOrigins
    /\ Deliver(w, c, "failed")
    /\ UNCHANGED requests

Send(w, c) ==
    /\ c.id[1] \in AllowedOrigins
    /\ \E outcome \in {"delivered", "failed", "transient"} :
        /\ Deliver(w, c, outcome)
        /\ requests' = requests \cup {[claim |-> c, outcome |-> outcome]}

RequestLost(w, c) ==
    /\ c.id[1] \in AllowedOrigins
    /\ Deliver(w, c, "transient")
    /\ UNCHANGED requests

\* finish, fenced by the state and the attempt count of the claim.  A transient
\* failure is due again after a back-off counted from the claim, or is final.
M_FencedByState(c) == row[c.id].state = "delivering"
M_Unfenced(c) == TRUE
Fenced(c) == row[c.id].state = "delivering" /\ row[c.id].attempts = c.attempt

M_AfterTransient(c, age) ==              \* one attempt too many
    IF c.attempt > MaxAttempts THEN [row[c.id] EXCEPT !.state = "failed"]
    ELSE Row("pending", c.attempt, Left(Backoff(c.attempt), age))
AfterTransient(c, age) ==
    IF c.attempt >= MaxAttempts THEN [row[c.id] EXCEPT !.state = "failed"]
    ELSE Row("pending", c.attempt, Left(Backoff(c.attempt), age))

Finish(w) ==
    /\ disp[w].cur # NoClaim
    /\ LET c == disp[w].cur
           rest == disp[w].batch \ {c}
       IN  /\ row' = IF ~Fenced(c) THEN row
                     ELSE [row EXCEPT ![c.id] =
                             IF disp[w].outcome = "transient"
                             THEN AfterTransient(c, disp[w].age)
                             ELSE [row[c.id] EXCEPT !.state = disp[w].outcome]]
           /\ disp' = [disp EXCEPT ![w] =
                         IF rest = {} THEN Polling
                         ELSE [Polling EXCEPT !.batch = rest, !.age = disp[w].age]]
    /\ UNCHANGED <<sub, ended, requests, mishaps>>

\* The worker dies, with whatever its dispatcher had claimed: nothing but the
\* lease remembers the batch.
Crash(w) ==
    /\ mishaps < MaxMishaps
    /\ disp[w].batch # {}
    /\ mishaps' = mishaps + 1
    /\ disp' = [disp EXCEPT ![w] = Polling]
    /\ UNCHANGED <<sub, ended, row, requests>>

\* Time passes; for a dispatcher at the end of its lease, only as often as
\* lapses are explored.
Lapses == \E w \in Dispatchers : disp[w].batch # {} /\ disp[w].age = Lease - 1

Tick ==
    /\ Lapses => mishaps < MaxMishaps
    /\ mishaps' = IF Lapses THEN mishaps + 1 ELSE mishaps
    /\ row' = [d \in Deliveries |-> [row[d] EXCEPT !.due = Left(@, 1)]]
    /\ disp' = [w \in Dispatchers |->
                  [disp[w] EXCEPT !.age = IF disp[w].batch # {} /\ @ < Horizon THEN @ + 1 ELSE @]]
    /\ UNCHANGED <<sub, ended, requests>>

DispatchOnce(w) ==
    \/ ClaimDue(w)
    \/ \E c \in disp[w].batch : RefuseOrigin(w, c) \/ Send(w, c) \/ RequestLost(w, c)
    \/ Finish(w)

Next ==
    \/ \E s \in Subscriptions : Create(s) \/ Revoke(s)
    \/ \E r \in Runs : EnqueueTerminal(r)
    \/ \E w \in Dispatchers : DispatchOnce(w) \/ Crash(w)
    \/ Tick

Spec == Init /\ [][Next]_vars

\* The dispatcher loop goes on until the worker stops, and so does time.
FairSpec ==
    /\ Spec
    /\ WF_vars(Tick)
    /\ \A w \in Dispatchers : WF_vars(DispatchOnce(w))

-----------------------------------------------------------------------------
(* Safety.                                                                 *)

\* Two dispatchers never work at the same attempt, and both work at one
\* delivery only once the older claim's lease is over: the lease is the only
\* mutual exclusion between workers (claim_due, finish).
LeaseExcludes ==
    \A w1, w2 \in Dispatchers : \A c1 \in disp[w1].batch, c2 \in disp[w2].batch :
        w1 # w2 /\ c1.id = c2.id =>
            /\ c1.attempt # c2.attempt
            /\ c1.attempt < c2.attempt => disp[w1].age >= Lease

\* A delivery counts as delivered only if the receiver accepted the very
\* attempt that the row counts, and as failed only if its origin is no longer
\* allowed, the receiver refused that attempt, or the attempts are used up;
\* answers to lapsed claims never decide it.
SettledForAReason ==
    \A d \in Deliveries :
        LET claim == [id |-> d, attempt |-> row[d].attempts]
        IN  /\ row[d].state = "delivered" => [claim |-> claim, outcome |-> "delivered"] \in requests
            /\ row[d].state = "failed" =>
                  \/ d[1] \notin AllowedOrigins
                  \/ row[d].attempts >= MaxAttempts
                  \/ [claim |-> claim, outcome |-> "failed"] \in requests
            /\ row[d].state = "cancelled" => sub[d[1]] = "revoked"

\* The limit on attempts is kept where an answer is recorded, not where an
\* attempt is counted: an attempt beyond it is paid for by a claim whose answer
\* came too late or never (claim_due, _finish_transient).
AttemptsArePaid == \A d \in Deliveries : row[d].attempts <= MaxAttempts + mishaps

\* What a dispatcher holds: the row's latest attempt while the lease lasts, or
\* an attempt whose lease is over; and the answer it is about to record.
Held(w, c) ==
    /\ row[c.id].state # "absent"
    /\ c.attempt <= row[c.id].attempts
    /\ c.attempt < row[c.id].attempts => disp[w].age >= Lease
    /\ c.attempt = row[c.id].attempts =>
          /\ row[c.id].state \in {"delivering", "cancelled"}
          /\ row[c.id].due + disp[w].age >= Lease

Answered(w) ==
    disp[w].cur # NoClaim =>
        /\ disp[w].cur \in disp[w].batch
        /\ disp[w].outcome # "none"
        /\ disp[w].outcome # "transient" =>
              \/ [claim |-> disp[w].cur, outcome |-> disp[w].outcome] \in requests
              \/ disp[w].outcome = "failed" /\ disp[w].cur.id[1] \notin AllowedOrigins

ClaimsHeld ==
    \A w \in Dispatchers : Answered(w) /\ \A c \in disp[w].batch : Held(w, c)

\* Only the end of its run brings a delivery into being, and only for a
\* subscription that exists.
EnqueuedByRun ==
    \A d \in Deliveries : row[d].state # "absent" => d[2] \in ended /\ sub[d[1]] # "none"

IInv == TypeOK /\ LeaseExcludes /\ ClaimsHeld /\ SettledForAReason /\ EnqueuedByRun

\* Why attempts are paid: one that may be repeated is below the limit, or its
\* dispatcher still has time to record it, and does or has a mishap.
InTime(d) ==
    \E w \in Dispatchers : \E c \in disp[w].batch :
        c.id = d /\ c.attempt = row[d].attempts /\ disp[w].age < Lease

PaidInv ==
    /\ AttemptsArePaid
    /\ \A d \in Deliveries :
          /\ row[d].state = "pending" => row[d].attempts < MaxAttempts
          /\ row[d].state = "delivering" =>
                row[d].attempts < MaxAttempts + mishaps \/ InTime(d)
    /\ \A w \in Dispatchers : disp[w].batch = {} => disp[w].age = 0

\* A settled delivery is never touched again, however late a dispatcher whose
\* lease is over comes back with its answer.
SettledIsFinal ==
    [][\A d \in Deliveries : (row[d].state \in Settled) =>
          (row'[d].state = row[d].state /\ row'[d].attempts = row[d].attempts)]_vars

-----------------------------------------------------------------------------
(* Liveness.                                                               *)

\* Every delivery is settled in the end, whatever the receiver answers and
\* whenever its subscription is revoked, if workers crash or outlive their
\* leases finitely often.
EveryDeliverySettles ==
    \A d \in Deliveries : (row[d].state # "absent") ~> (row[d].state \in Settled)

=============================================================================
