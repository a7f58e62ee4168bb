--------------------------- MODULE RequestGuards ----------------------------
(***************************************************************************)
(* RequestGuardsMiddleware (main.py): what stands before every handler of  *)
(* the control API.  A request is turned away for its announced size, its  *)
(* origin, the number of attempts of its bucket, or its real size, in this *)
(* order; only one that passes the limiter is counted, whatever the        *)
(* handler answers.  A bucket is a client host with a rate path.           *)
(*                                                                         *)
(* The deque of a bucket is the part of `admitted` that begins at `head`:  *)
(* append adds to the end, popleft moves the head.  What lies before the   *)
(* head is history.                                                        *)
(***************************************************************************)
EXTENDS Integers, Sequences

CONSTANTS
    Buckets,        \* (client host, rate path)
    Limit,          \* settings.auth_rate_limit
    Window          \* settings.auth_rate_window_seconds

ASSUME GuardsAssumption ==
    Limit \in Nat \ {0} /\ Window \in Nat \ {0} /\ "none" \notin Buckets

VARIABLES
    now,            \* time.monotonic()
    admitted,       \* admitted[b]: the times of all attempts that were let through
    head            \* head[b]: where the deque of the bucket begins

guards == <<now, admitted, head>>

\* What the middleware looks at.  Requests whose method changes nothing skip
\* all but the first check; those of an unlimited path have no bucket.
GuardedRequests ==
    [mutating : BOOLEAN, public : BOOLEAN, bucket : Buckets \cup {"none"},
     announced : {"nothing", "fits", "large"}, body : {"fits", "large"},
     origin : {"none", "allowed", "foreign"}]

GuardInit ==
    /\ now = 0
    /\ admitted = [b \in Buckets |-> <<>>]
    /\ head = [b \in Buckets |-> 1]

\* "while attempts and attempts[0] <= cutoff: attempts.popleft()".
Expired(b, i) == admitted[b][i] <= now - Window

Front(b) ==
    CHOOSE k \in head[b] .. Len(admitted[b]) + 1 :
        /\ \A i \in head[b] .. k - 1 : Expired(b, i)
        /\ k <= Len(admitted[b]) => ~ Expired(b, k)

M_Full(b) == Len(admitted[b]) + 1 - Front(b) > Limit    \* off by one
Full(b) == Len(admitted[b]) + 1 - Front(b) >= Limit

\* _rate_limited: both ways drop the attempts that have left the window.
Admit(b) ==
    /\ ~ Full(b)
    /\ admitted' = [admitted EXCEPT ![b] = Append(@, now)]
    /\ head' = [head EXCEPT ![b] = Front(b)]
    /\ UNCHANGED now

TurnAway(b) ==
    /\ Full(b)
    /\ head' = [head EXCEPT ![b] = Front(b)]
    /\ UNCHANGED <<now, admitted>>

\* A foreign origin is refused everywhere, a missing one outside the public API.
OriginRefused(q) ==
    q.origin = "foreign" \/ (q.origin = "none" /\ ~ q.public)

\* dispatch.  The second disjunct is the request that reaches the limiter,
\* be its body too large or not.
Dispatch(q) ==
    \/ /\ \/ q.announced = "large"
          \/ ~ q.mutating
          \/ OriginRefused(q)
          \/ q.bucket = "none"
       /\ UNCHANGED guards
    \/ /\ q.announced # "large"
       /\ q.mutating
       /\ ~ OriginRefused(q)
       /\ q.bucket # "none"
       /\ Admit(q.bucket) \/ TurnAway(q.bucket)

PassTime == now' = now + 1 /\ UNCHANGED <<admitted, head>>

GuardSpec ==
    GuardInit /\ [][PassTime \/ \E q \in GuardedRequests : Dispatch(q)]_guards

-----------------------------------------------------------------------------
\* However requests and refusals are mixed, a bucket never lets more than
\* Limit requests through in a window, wherever the window begins: of any
\* Limit + 1 successive ones the last comes at least Window after the first.
WindowHolds ==
    \A b \in Buckets : \A i \in DOMAIN admitted[b] :
        i + Limit \in DOMAIN admitted[b] =>
            admitted[b][i + Limit] - admitted[b][i] >= Window

-----------------------------------------------------------------------------
(* The inductive invariant behind it.                                      *)

GuardTypeOK ==
    /\ now \in Nat
    /\ admitted \in [Buckets -> Seq(Nat)]
    /\ head \in [Buckets -> Nat \ {0}]

\* Times do not go back, and what the deque has dropped has left the window.
DequeIsRecent ==
    \A b \in Buckets :
        /\ head[b] <= Len(admitted[b]) + 1
        /\ \A i \in DOMAIN admitted[b] :
              /\ admitted[b][i] <= now
              /\ i < head[b] => admitted[b][i] <= now - Window

GuardInv == GuardTypeOK /\ DequeIsRecent /\ WindowHolds

=============================================================================
