-------------------------- MODULE PublicRunsProofs ---------------------------
(***************************************************************************)
(* Proofs about RequestGuards and PublicRuns.                              *)
(*                                                                         *)
(* The rate limiter is proved by itself, for any requests; PublicRuns then *)
(* takes only steps of the limiter or none.  The rest rests on CallsInv:   *)
(* what a call that has come so far has passed (CallOK), and what it may   *)
(* rely on while other calls, owners and runs go on.  Grown says what the  *)
(* others never take back, so that each action has to be looked at only    *)
(* for the call it moves.                                                  *)
(***************************************************************************)
EXTENDS PublicRuns, TLAPS, WellFoundedInduction

-----------------------------------------------------------------------------
(* The rate limiter.                                                       *)

GuardStep == PassTime \/ \E b \in Buckets : Admit(b) \/ TurnAway(b)

\* Front is where the deque begins when it has been cleaned: there is such a
\* place, since of the attempts that have not expired one is the first.
LEMMA FrontIsThere ==
    ASSUME GuardTypeOK, NEW b \in Buckets, head[b] <= Len(admitted[b]) + 1
    PROVE  /\ Front(b) \in head[b] .. Len(admitted[b]) + 1
           /\ \A i \in head[b] .. Front(b) - 1 : Expired(b, i)
  <1> DEFINE Last == Len(admitted[b]) + 1
             Stay == {k \in head[b] .. Last : k <= Len(admitted[b]) => ~ Expired(b, k)}
             Good(k) == /\ \A i \in head[b] .. k - 1 : Expired(b, i)
                        /\ k <= Len(admitted[b]) => ~ Expired(b, k)
  <1>1. head[b] \in Nat \ {0} /\ Len(admitted[b]) \in Nat
    BY DEF GuardTypeOK
  <1>2. Last \in Stay
    BY <1>1
  <1>3. Stay \subseteq Nat /\ Stay # {}
    BY <1>1, <1>2
  <1>4. PICK k \in Stay : \A y \in Stay : ~ (y < k)
    <2> HIDE DEF Stay
    <2>1. \E k \in Stay : \A y \in Stay : ~ (<<y, k>> \in OpToRel(<, Nat))
      BY <1>3, WFMin, NatLessThanWellFounded, Zenon
    <2> QED BY <1>3, <2>1, Zenon DEF OpToRel
  <1>5. \A i \in head[b] .. k - 1 : Expired(b, i)
    <2> TAKE i \in head[b] .. k - 1
    <2>1. i \in head[b] .. Last /\ i <= Len(admitted[b]) /\ i < k
      BY <1>1, <1>4
    <2> QED BY <2>1, <1>4
  <1>6. k \in head[b] .. Last /\ Good(k)
    BY <1>4, <1>5
  <1>7. Front(b) = CHOOSE j \in head[b] .. Last : Good(j)
    BY DEF Front
  <1>8. Front(b) \in head[b] .. Last /\ Good(Front(b))
    <2> HIDE DEF Good, Last
    <2> QED BY <1>6, <1>7
  <1> QED BY <1>8

LEMMA GuardInvIsInductive ==
    ASSUME GuardInv, [GuardStep]_guards
    PROVE  GuardInv'
  <1> USE GuardsAssumption
  <1>1. CASE UNCHANGED guards
    BY <1>1 DEF GuardInv, GuardTypeOK, DequeIsRecent, WindowHolds, guards
  <1>2. CASE PassTime
    <2>1. now \in Nat /\ now' = now + 1 /\ UNCHANGED <<admitted, head>>
      BY <1>2 DEF PassTime, GuardInv, GuardTypeOK
    <2>2. GuardTypeOK' /\ WindowHolds'
      BY <2>1 DEF GuardInv, GuardTypeOK, WindowHolds
    <2>3. \A b \in Buckets : \A i \in DOMAIN admitted[b] : admitted[b][i] \in Nat
      BY DEF GuardInv, GuardTypeOK
    <2>4. DequeIsRecent'
      BY <2>1, <2>3 DEF GuardInv, DequeIsRecent
    <2> QED BY <2>2, <2>4 DEF GuardInv
  <1>3. ASSUME NEW b \in Buckets, Admit(b) \/ TurnAway(b)
        PROVE  GuardInv'
    <2> DEFINE n == Len(admitted[b])   f == Front(b)
    <2>1. /\ now \in Nat /\ admitted \in [Buckets -> Seq(Nat)] /\ head \in [Buckets -> Nat \ {0}]
          /\ n \in Nat /\ head[b] \in Nat \ {0} /\ head[b] <= n + 1
          /\ admitted[b] \in Seq(Nat)
      BY DEF GuardInv, GuardTypeOK, DequeIsRecent
    <2>2. f \in head[b] .. n + 1 /\ \A i \in head[b] .. f - 1 : Expired(b, i)
      BY <2>1, FrontIsThere DEF GuardInv
    <2>3. \A i \in DOMAIN admitted[b] : admitted[b][i] \in Nat /\ admitted[b][i] <= now
      BY <2>1 DEF GuardInv, DequeIsRecent
    <2>4. \A i \in DOMAIN admitted[b] : i < f => admitted[b][i] <= now - Window
      <3> SUFFICES ASSUME NEW i \in DOMAIN admitted[b], i < f
                   PROVE  admitted[b][i] <= now - Window
        OBVIOUS
      <3>1. CASE i < head[b]
        BY <3>1, <2>1 DEF GuardInv, DequeIsRecent
      <3>2. CASE ~ (i < head[b])
        <4>1. i \in head[b] .. f - 1
          BY <3>2, <2>1, <2>2
        <4> QED BY <4>1, <2>2 DEF Expired
      <3> QED BY <3>1, <3>2
    <2>5. now' = now /\ head' = [head EXCEPT ![b] = f]
      BY <1>3 DEF Admit, TurnAway
    <2>6. head' \in [Buckets -> Nat \ {0}] /\ head'[b] = f /\ f \in Nat \ {0}
      BY <2>1, <2>2, <2>5
    <2> HIDE DEF f
    <2>7. CASE TurnAway(b)
      <3>1. admitted' = admitted
        BY <2>7 DEF TurnAway
      <3>2. GuardTypeOK' /\ WindowHolds'
        BY <3>1, <2>1, <2>5, <2>6 DEF GuardInv, GuardTypeOK, WindowHolds
      <3>3. ASSUME NEW c \in Buckets
            PROVE  /\ head'[c] <= Len(admitted'[c]) + 1
                   /\ \A i \in DOMAIN admitted'[c] :
                        admitted'[c][i] <= now' /\ (i < head'[c] => admitted'[c][i] <= now' - Window)
        <4>1. CASE c = b
          BY <4>1, <3>1, <2>1, <2>2, <2>3, <2>4, <2>5, <2>6
        <4>2. CASE c # b
          BY <4>2, <3>1, <2>1, <2>5 DEF GuardInv, DequeIsRecent
        <4> QED BY <4>1, <4>2
      <3>4. DequeIsRecent'
        BY <3>3 DEF DequeIsRecent
      <3> QED BY <3>2, <3>4 DEF GuardInv
    <2>8. CASE Admit(b)
      <3>1. admitted' = [admitted EXCEPT ![b] = Append(admitted[b], now)] /\ ~ Full(b)
        BY <2>8 DEF Admit
      <3>2. /\ admitted'[b] = Append(admitted[b], now) /\ admitted'[b] \in Seq(Nat)
            /\ Len(admitted'[b]) = n + 1 /\ DOMAIN admitted'[b] = 1 .. n + 1
            /\ DOMAIN admitted[b] = 1 .. n
            /\ \A c \in Buckets : c # b => admitted'[c] = admitted[c]
        BY <3>1, <2>1
      <3>3. admitted'[b][n + 1] = now /\ \A i \in 1 .. n : admitted'[b][i] = admitted[b][i]
        BY <3>2, <2>1
      <3>4. admitted' \in [Buckets -> Seq(Nat)]
        BY <3>1, <3>2, <2>1
      <3>5. n + 1 - f < Limit
        BY <3>1, <2>1, <2>6 DEF Full, f
      <3>6. ASSUME NEW c \in Buckets
            PROVE  /\ head'[c] <= Len(admitted'[c]) + 1
                   /\ \A i \in DOMAIN admitted'[c] :
                        admitted'[c][i] <= now' /\ (i < head'[c] => admitted'[c][i] <= now' - Window)
        <4>1. CASE c = b
          <5>1. head'[b] <= Len(admitted'[b]) + 1
            BY <3>2, <2>1, <2>2, <2>6
          <5>2. ASSUME NEW i \in 1 .. n + 1
                PROVE  admitted'[b][i] <= now /\ (i < f => admitted'[b][i] <= now - Window)
            <6>1. CASE i = n + 1
              BY <6>1, <3>3, <2>1, <2>2, <2>6
            <6>2. CASE i # n + 1
              <7>1. i \in DOMAIN admitted[b]
                BY <6>2, <3>2, <2>1
              <7>2. admitted[b][i] <= now /\ (i < f => admitted[b][i] <= now - Window)
                BY <7>1, <2>3, <2>4
              <7> QED BY <7>1, <7>2, <3>2, <3>3
            <6> QED BY <6>1, <6>2
          <5> QED BY <4>1, <5>1, <5>2, <3>2, <2>5, <2>6
        <4>2. CASE c # b
          BY <4>2, <3>2, <2>1, <2>5 DEF GuardInv, DequeIsRecent
        <4> QED BY <4>1, <4>2
      <3>7. ASSUME NEW c \in Buckets, NEW i \in DOMAIN admitted'[c], i + Limit \in DOMAIN admitted'[c]
            PROVE  admitted'[c][i + Limit] - admitted'[c][i] >= Window
        <4>1. CASE c # b
          BY <4>1, <3>2, <3>7 DEF GuardInv, WindowHolds
        <4>2. CASE c = b /\ i + Limit # n + 1
          <5>1. i \in 1 .. n /\ i + Limit \in 1 .. n
            BY <4>2, <3>2, <3>7, <2>1
          <5> QED BY <5>1, <4>2, <3>2, <3>3 DEF GuardInv, WindowHolds
        <4>3. CASE c = b /\ i + Limit = n + 1
          <5>1. i \in 1 .. n /\ i < f
            BY <4>3, <3>2, <3>5, <3>7, <2>1, <2>6
          <5>2. admitted[b][i] \in Nat /\ admitted[b][i] <= now - Window
            BY <5>1, <3>2, <2>3, <2>4
          <5> QED BY <5>1, <5>2, <4>3, <3>3, <2>1
        <4> QED BY <4>1, <4>2, <4>3
      <3> QED BY <3>4, <3>6, <3>7, <2>5, <2>6, <2>1
              DEF GuardInv, GuardTypeOK, DequeIsRecent, WindowHolds
    <2> QED BY <1>3, <2>7, <2>8
  <1> QED BY <1>1, <1>2, <1>3 DEF GuardStep

LEMMA GuardInvBegins == GuardInit => GuardInv
  BY GuardsAssumption DEF GuardInit, GuardInv, GuardTypeOK, DequeIsRecent, WindowHolds

\* The limiter alone, for whatever requests arrive (dispatch): a bucket never
\* lets more than Limit requests through in a window.
THEOREM LimiterHolds == GuardSpec => []WindowHolds
  <1>1. ASSUME NEW q \in GuardedRequests, Dispatch(q)
        PROVE  [GuardStep]_guards
    <2>1. CASE UNCHANGED guards
      BY <2>1
    <2>2. CASE q.bucket # "none" /\ (Admit(q.bucket) \/ TurnAway(q.bucket))
      <3>1. q.bucket \in Buckets
        BY <2>2 DEF GuardedRequests
      <3> QED BY <2>2, <3>1 DEF GuardStep
    <2> QED BY <1>1, <2>1, <2>2 DEF Dispatch
  <1>2. GuardInv /\ [PassTime \/ \E q \in GuardedRequests : Dispatch(q)]_guards => GuardInv'
    BY <1>1, GuardInvIsInductive DEF GuardStep
  <1>3. GuardInv => WindowHolds
    BY DEF GuardInv
  <1> QED BY GuardInvBegins, <1>2, <1>3, PTL DEF GuardSpec

-----------------------------------------------------------------------------
(* PublicRuns takes steps of the limiter, or leaves it alone.              *)

LEMMA CallsStepTheLimiter ==
    ASSUME [Next]_vars
    PROVE  [GuardStep]_guards
  <1>1. CASE UNCHANGED vars
    BY <1>1 DEF vars
  <1>2. ASSUME NEW a \in Agents, Publish(a) \/ Activate(a) \/ Rollback(a)
        PROVE  UNCHANGED guards
    BY <1>2 DEF Publish, Activate, Rollback, OwnersAct
  <1>3. ASSUME NEW k \in Keys, CreateKey(k) \/ RevokeKey(k)
        PROVE  UNCHANGED guards
    BY <1>3 DEF CreateKey, RevokeKey, OwnersAct
  <1>4. ASSUME RunGoes PROVE UNCHANGED guards
    BY <1>4 DEF RunGoes
  <1>5. ASSUME NEW c \in Calls, CallStep(c)
        PROVE  UNCHANGED guards
    BY <1>5 DEF CallStep, Authenticate, Resolve, Principal, CreateRow, StartExecution,
                View, Poll, PollRead, ReadRun, CallGoes
  <1>6. ASSUME NEW c \in Calls, NEW q \in Requests[c], Arrive(c, q)
        PROVE  [GuardStep]_guards
    <2>1. CASE q.kind \in {"create", "invoke"} /\ (Admit(q.kind) \/ TurnAway(q.kind))
      <3>1. q.kind \in Buckets
        BY <2>1, PublicAssumption
      <3> QED BY <2>1, <3>1 DEF GuardStep
    <2>2. CASE UNCHANGED guards
      BY <2>2
    <2> QED BY <1>6, <2>1, <2>2 DEF Arrive
  <1>7. ASSUME Tick PROVE GuardStep
    BY <1>7 DEF Tick, GuardStep
  <1> QED BY <1>1, <1>2, <1>3, <1>4, <1>5, <1>6, <1>7 DEF Next

\* The same of the limiter under the public calls.
THEOREM CallsAreLimited == Spec => []WindowHolds
  <1>1. Init => GuardInv
    BY GuardInvBegins DEF Init
  <1>2. GuardInv /\ [Next]_vars => GuardInv'
    BY CallsStepTheLimiter, GuardInvIsInductive
  <1>3. GuardInv => WindowHolds
    BY DEF GuardInv
  <1> QED BY <1>1, <1>2, <1>3, PTL DEF Spec

-----------------------------------------------------------------------------
(* What a step never takes back from the calls it does not move.           *)

Grown ==
    /\ now' \in Nat /\ now <= now'
    /\ \A i \in DOMAIN runs :
          /\ i \in DOMAIN runs'
          /\ runs'[i].agent = runs[i].agent /\ runs'[i].version = runs[i].version
          /\ runs'[i].input = runs[i].input
          /\ runs[i].status \in TerminalStatuses => runs'[i].status = runs[i].status
    /\ requests \subseteq requests'
    /\ \A k \in Keys : keys[k].state # "none" =>
          keys'[k].state # "none" /\ (~ Live(k) => ~ Live(k)')
    /\ \A d \in Calls : Answered(d) => calls'[d] = calls[d]
    /\ \A d \in Calls : calls[d].made => calls'[d].made

\* The calls that do not move.
LEMMA OthersKeep ==
    ASSUME CallsInv, Grown, NEW d \in Calls, calls'[d] = calls[d]
    PROVE  CallOK(d)'
  <1> DEFINE q == calls[d].req
  <1>1. CallOK(d) /\ now \in Nat /\ keys \in [Keys -> [state : {"none", "live", "revoked"}, until : Nat]]
    BY DEF CallsInv, PublicTypeOK
  <1>2. \A e \in Calls : Given(e) => calls'[e] = calls[e] /\ Given(e)'
    BY DEF Grown, Given, Answered, At
  <1>3. Given(d)' = Given(d) /\ Answered(d)' = Answered(d) /\ \A p : At(d, p)' = At(d, p)
    BY DEF Given, Answered, At
  <1>4. Placed(d)'
    BY <1>1, <1>2, <1>3 DEF CallOK, Placed, Grown, ReadsRun, CreatesRun, At
  <1>5. Resolved(d)'
    BY <1>1 DEF CallOK, Resolved
  <1>6. HasRun(d)'
    <2> SUFFICES ASSUME CreatesRun(d), calls[d].at \in {"start", "view", "poll", "pollRead"} \/ Given(d)
                 PROVE  HasRun(d)'
      BY <1>3 DEF HasRun, CreatesRun
    <2>1. HasRun(d)
      BY <1>1 DEF CallOK
    <2>2. DurableKey(d)' = DurableKey(d)
      BY DEF DurableKey
    <2>3. calls[d].run \in DOMAIN runs' /\ runs'[calls[d].run].agent = runs[calls[d].run].agent
      BY <2>1 DEF HasRun, Grown
    <2> QED BY <2>1, <2>2, <2>3 DEF HasRun, Grown
  <1>7. MayRead(d)'
    <2>1. MayRead(d) /\ Placed(d)
      BY <1>1 DEF CallOK
    <2>2. ReadsRun(d)' = ReadsRun(d)
      BY DEF ReadsRun
    <2>3. q.bearer \in Calls => calls'[q.bearer] = calls[q.bearer]
      BY <1>2, <2>1 DEF Placed
    <2>4. ReadsRun(d) /\ ~ At(d, "idle") =>
             /\ calls[d].run \in DOMAIN runs /\ calls[d].run \in DOMAIN runs'
             /\ runs'[calls[d].run].agent = runs[calls[d].run].agent
      BY <2>1 DEF MayRead, Grown
    <2>5. Given(d) => ~ At(d, "idle")
      BY DEF Given, Answered, At
    <2> QED BY <1>3, <2>1, <2>2, <2>3, <2>4, <2>5 DEF MayRead
  <1>8. SawTheRun(d)'
    BY <1>1 DEF CallOK, SawTheRun, Grown
  <1>9. Bearers(d)'
    <2>1. Placed(d) /\ Bearers(d)
      BY <1>1 DEF CallOK
    <2>2. Dead(q.bearer) => Dead(q.bearer)'
      <3>1. CASE q.bearer \in Keys /\ ~ Live(q.bearer)
        BY <2>1, <3>1 DEF Grown, Placed, Dead
      <3>2. CASE q.bearer \in Calls /\ now >= calls[q.bearer].exp
        <4>1. calls'[q.bearer] = calls[q.bearer] /\ calls[q.bearer].exp \in Nat
          BY <1>2, <2>1, <3>2 DEF Placed, CallsInv, PublicTypeOK, CallStates
        <4>2. now' >= calls'[q.bearer].exp
          BY <1>1, <3>2, <4>1 DEF Grown
        <4> QED BY <3>2, <4>2 DEF Dead
      <3> QED BY <3>1, <3>2 DEF Dead
    <2>3. CreatesRun(d)' = CreatesRun(d)
      BY DEF CreatesRun
    <2> QED BY <1>3, <2>1, <2>2, <2>3 DEF Bearers
  <1> QED BY <1>4, <1>5, <1>6, <1>7, <1>8, <1>9 DEF CallOK

\* Requests that are kept agree with runs that only go on.
LEMMA RequestsKeep ==
    ASSUME CallsInv, Grown, requests' = requests
    PROVE  RequestsAgree'
  BY DEF CallsInv, RequestsAgree, Grown

LEMMA DeadStays ==
    ASSUME CallsInv, Grown, NEW b, b \in Keys => keys[b].state # "none",
           b \in Calls => Given(b), Dead(b)
    PROVE  Dead(b)'
  <1>1. CASE b \in Keys /\ ~ Live(b)
    BY <1>1 DEF Grown, Dead
  <1>2. CASE b \in Calls /\ now >= calls[b].exp
    <2>1. calls'[b] = calls[b] /\ calls[b].exp \in Nat /\ now \in Nat
      BY <1>2 DEF Grown, Given, CallsInv, PublicTypeOK, CallStates
    <2>2. now' >= calls'[b].exp
      BY <1>2, <2>1 DEF Grown
    <2> QED BY <1>2, <2>2 DEF Dead
  <1> QED BY <1>1, <1>2 DEF Dead

LEMMA NothingMoves ==
    ASSUME CallsInv, Grown, calls' = calls, requests' = requests, PublicTypeOK'
    PROVE  CallsInv'
  <1>1. \A d \in Calls : CallOK(d)'
    BY OthersKeep
  <1> QED BY <1>1, RequestsKeep DEF CallsInv

LEMMA OneCallMoves ==
    ASSUME CallsInv, Grown, NEW c \in Calls, NEW x,
           calls' = [calls EXCEPT ![c] = x], CallOK(c)', RequestsAgree', PublicTypeOK'
    PROVE  CallsInv'
  <1>1. \A d \in Calls : CallOK(d)'
    <2> TAKE d \in Calls
    <2>1. CASE d # c
      <3>1. calls'[d] = calls[d]
        BY <2>1 DEF CallsInv, PublicTypeOK
      <3> QED BY <3>1, OthersKeep
    <2> QED BY <2>1
  <1> QED BY <1>1 DEF CallsInv

\* A transaction that only moves its call.
LEMMA CallGrows ==
    ASSUME CallsInv, NEW c \in Calls, NEW x \in CallStates, ~ Answered(c), CallGoes,
           calls' = [calls EXCEPT ![c] = x], calls[c].made => x.made
    PROVE  Grown /\ RequestsAgree' /\ PublicTypeOK'
  <1>1. calls' \in [Calls -> CallStates] /\ calls'[c] = x
        /\ \A d \in Calls : d # c => calls'[d] = calls[d]
    BY DEF CallsInv, PublicTypeOK
  <1>2. /\ UNCHANGED <<now, traffic, latest, ledger, keys, runs, requests>>
        /\ now \in Nat
    BY DEF CallGoes, guards, owned, CallsInv, PublicTypeOK
  <1>3. PublicTypeOK'
    BY <1>1, <1>2 DEF CallsInv, PublicTypeOK
  <1>4. Grown
    BY <1>1, <1>2 DEF Grown, Live, Expired_
  <1> QED BY <1>2, <1>3, <1>4, RequestsKeep

LEMMA CallMoves ==
    ASSUME CallsInv, NEW c \in Calls, NEW x \in CallStates, ~ Answered(c), CallGoes,
           calls' = [calls EXCEPT ![c] = x], calls[c].made => x.made, CallOK(c)'
    PROVE  CallsInv'
  BY CallGrows, OneCallMoves

\* The states that a call goes through.
LEMMA AtFields ==
    ASSUME NEW s \in CallStates, NEW place \in Places
    PROVE  LET x == [s EXCEPT !.at = place]
           IN  /\ x \in CallStates
               /\ x.at = place /\ x.req = s.req /\ x.agent = s.agent
               /\ x.version = s.version /\ x.run = s.run /\ x.seen = s.seen
               /\ x.exp = s.exp /\ x.deadline = s.deadline /\ x.code = s.code
               /\ x.made = s.made /\ x.dead = s.dead
  BY DEF CallStates

LEMMA AnswerFields ==
    ASSUME NEW s \in CallStates, NEW code \in Nat
    PROVE  LET x == [s EXCEPT !.at = "answered", !.code = code, !.deadline = 0]
           IN  /\ x \in CallStates
               /\ x.at = "answered" /\ x.req = s.req /\ x.agent = s.agent
               /\ x.version = s.version /\ x.run = s.run /\ x.seen = s.seen
               /\ x.exp = s.exp /\ x.code = code /\ x.made = s.made /\ x.dead = s.dead
  BY DEF CallStates, Places

LEMMA AnswerIs ==
    ASSUME CallsInv, NEW c \in Calls, NEW code \in Nat, Answer(c, calls[c], code)
    PROVE  \E x \in CallStates :
              /\ Go(c, x)
              /\ x.at = "answered" /\ x.req = calls[c].req /\ x.agent = calls[c].agent
              /\ x.version = calls[c].version /\ x.run = calls[c].run
              /\ x.seen = calls[c].seen /\ x.exp = calls[c].exp /\ x.code = code
              /\ x.made = calls[c].made /\ x.dead = calls[c].dead
  <1> DEFINE x == [calls[c] EXCEPT !.at = "answered", !.code = code, !.deadline = 0]
  <1>1. calls[c] \in CallStates
    BY DEF CallsInv, PublicTypeOK
  <1>2. /\ x \in CallStates
        /\ x.at = "answered" /\ x.req = calls[c].req /\ x.agent = calls[c].agent
        /\ x.version = calls[c].version /\ x.run = calls[c].run
        /\ x.seen = calls[c].seen /\ x.exp = calls[c].exp /\ x.code = code
        /\ x.made = calls[c].made /\ x.dead = calls[c].dead
    BY <1>1, AnswerFields
  <1>3. Go(c, x)
    BY DEF Answer
  <1> HIDE DEF x
  <1> QED BY <1>2, <1>3

\* An answer that gives nothing.
LEMMA Refusal ==
    ASSUME CallsInv, Grown, NEW c \in Calls, ~ At(c, "idle"), ~ Answered(c),
           NEW code \in Nat \ {200, 202}, Answer(c, calls[c], code),
           calls[c].made /\ code \in {401, 403, 404, 409, 422, 429} =>
              Dead(calls[c].req.bearer)
    PROVE  CallOK(c)' /\ calls' \in [Calls -> CallStates]
  <1> DEFINE s == calls[c]
             x == [s EXCEPT !.at = "answered", !.code = code, !.deadline = 0]
  <1>0. PICK b : b = s.req.bearer
    OBVIOUS
  <1>1. s \in CallStates /\ CallOK(c) /\ calls \in [Calls -> CallStates]
    BY DEF CallsInv, PublicTypeOK
  <1>2. /\ x \in CallStates
        /\ x.at = "answered" /\ x.req = s.req /\ x.agent = s.agent
        /\ x.version = s.version /\ x.run = s.run /\ x.seen = s.seen
        /\ x.exp = s.exp /\ x.code = code /\ x.made = s.made /\ x.dead = s.dead
    BY <1>1, AnswerFields
  <1>3. calls' = [calls EXCEPT ![c] = x]
    BY DEF Answer, Go
  <1> HIDE DEF x
  <1>4. calls'[c] = x /\ calls' \in [Calls -> CallStates]
    BY <1>1, <1>2, <1>3
  <1>5. ~ Given(c)' /\ Answered(c)' /\ \A p : At(c, p)' => p = "answered"
    BY <1>2, <1>4 DEF Given, Answered, At
  <1>6. b \in Calls => Given(b) /\ calls'[b] = calls[b]
    BY <1>0, <1>1 DEF CallOK, Placed, Grown, Given
  <1>7. Placed(c)'
    BY <1>0, <1>1, <1>2, <1>4, <1>5, <1>6 DEF CallOK, Placed, Grown, Given, Answered, At
  <1>8. Resolved(c)' /\ HasRun(c)'
    BY <1>2, <1>4, <1>5 DEF Resolved, HasRun
  <1>9. MayRead(c)'
    <2>1. ReadsRun(c)' = ReadsRun(c)
      BY <1>2, <1>4 DEF ReadsRun
    <2> QED BY <1>1, <1>2, <1>4, <1>5, <2>1 DEF CallOK, MayRead, Grown, At
  <1>10. SawTheRun(c)'
    BY <1>1, <1>2, <1>4 DEF CallOK, SawTheRun, Grown
  <1>11. Bearers(c)'
    <2>1. CreatesRun(c)' = CreatesRun(c)
      BY <1>2, <1>4 DEF CreatesRun
    <2>2. Dead(b) => Dead(b)'
      BY <1>0, <1>1, <1>6, DeadStays DEF CallOK, Placed
    <2>3. Dead(b)' => Dead(calls[c].req.bearer)'
      BY <1>0, <1>2, <1>4 DEF Dead
    <2> QED BY <1>0, <1>1, <1>2, <1>4, <1>5, <2>1, <2>2, <2>3 DEF CallOK, Bearers
  <1> QED BY <1>4, <1>7, <1>8, <1>9, <1>10, <1>11 DEF CallOK

-----------------------------------------------------------------------------
(* Owners, runs and time.                                                  *)

LEMMA OwnersKeep ==
    ASSUME CallsInv,
           \/ \E a \in Agents : Publish(a) \/ Activate(a) \/ Rollback(a)
           \/ \E k \in Keys : CreateKey(k) \/ RevokeKey(k)
    PROVE  CallsInv'
  <1> USE PublicAssumption
  <1>1. UNCHANGED <<now, runs, requests, calls>> /\ now \in Nat
    BY DEF Publish, Activate, Rollback, CreateKey, RevokeKey, OwnersAct, guards,
           CallsInv, PublicTypeOK
  <1>2. ASSUME NEW k \in Keys
        PROVE  keys[k].state # "none" => keys'[k].state # "none" /\ (~ Live(k) => ~ Live(k)')
    <2> DEFINE KeyStays ==
          keys[k].state # "none" => keys'[k].state # "none" /\ (~ Live(k) => ~ Live(k)')
    <2>1. CASE keys' = keys
      BY <1>1, <2>1 DEF Live, Expired_
    <2>2. ASSUME NEW j \in Keys, CreateKey(j)
          PROVE  KeyStays
      <3>1. keys[k].state # "none" => keys'[k] = keys[k]
        BY <2>2 DEF CreateKey, CallsInv, PublicTypeOK
      <3> QED BY <1>1, <3>1 DEF Live, Expired_
    <2>3. ASSUME NEW j \in Keys, RevokeKey(j)
          PROVE  KeyStays
      <3>1. keys'[k] = keys[k] \/ keys'[k].state = "revoked"
        BY <2>3 DEF RevokeKey, CallsInv, PublicTypeOK
      <3> QED BY <1>1, <3>1 DEF Live, Expired_
    <2> QED BY <2>1, <2>2, <2>3 DEF Publish, Activate, Rollback
  <1>3. Grown
    BY <1>1, <1>2 DEF Grown
  <1>4. PublicTypeOK'
    <2> USE DEF PublicTypeOK
    <2>0. PublicTypeOK
      BY DEF CallsInv
    <2>1. ASSUME NEW a \in Agents, Publish(a) \/ Activate(a) \/ Rollback(a)
          PROVE  PublicTypeOK'
      <3>1. latest[a] \in Nat /\ latest[a] + 1 \in Nat /\ \A v \in 1 .. latest[a] : v \in Nat
        BY <2>0
      <3>2. \E v \in Nat : traffic' = [traffic EXCEPT ![a] = v]
        BY <2>1, <3>1 DEF Publish, Activate, Rollback
      <3>3. latest' = latest \/ latest' = [latest EXCEPT ![a] = latest[a] + 1]
        BY <2>1 DEF Publish, Activate, Rollback
      <3>4. (ledger' = ledger \/ ledger' = ledger \cup {a}) /\ keys' = keys
        BY <2>1 DEF Publish, Activate, Rollback
      <3> QED BY <1>1, <2>0, <3>1, <3>2, <3>3, <3>4
    <2>2. ASSUME NEW k \in Keys, CreateKey(k)
          PROVE  PublicTypeOK'
      <3>1. KeyLife[k] \in Nat
        OBVIOUS
      <3> DEFINE u == IF KeyLife[k] = 0 THEN 0 ELSE now + KeyLife[k]
      <3>2. u \in Nat /\ keys' = [keys EXCEPT ![k] = [state |-> "live", until |-> u]]
        BY <1>1, <2>2, <3>1 DEF CreateKey
      <3> HIDE DEF u
      <3>3. UNCHANGED <<traffic, latest, ledger>>
        BY <2>2 DEF CreateKey
      <3>4. keys' \in [Keys -> [state : {"none", "live", "revoked"}, until : Nat]]
        BY <2>0, <3>2
      <3> QED BY <1>1, <2>0, <3>3, <3>4
    <2>3. ASSUME NEW k \in Keys, RevokeKey(k)
          PROVE  PublicTypeOK'
      <3>1. keys' = [keys EXCEPT ![k].state = "revoked"] /\ UNCHANGED <<traffic, latest, ledger>>
        BY <2>3 DEF RevokeKey
      <3>2. keys' \in [Keys -> [state : {"none", "live", "revoked"}, until : Nat]]
        <4>1. keys' = [keys EXCEPT ![k] = [keys[k] EXCEPT !.state = "revoked"]]
          BY <3>1
        <4>2. ASSUME NEW x \in [state : {"none", "live", "revoked"}, until : Nat]
              PROVE  [x EXCEPT !.state = "revoked"]
                        \in [state : {"none", "live", "revoked"}, until : Nat]
          OBVIOUS
        <4>3. keys[k] \in [state : {"none", "live", "revoked"}, until : Nat]
          BY <2>0
        <4> QED BY <2>0, <4>1, <4>2, <4>3
      <3> QED BY <1>1, <2>0, <3>1, <3>2
    <2> QED BY <2>1, <2>2, <2>3
  <1> QED BY <1>1, <1>3, <1>4, NothingMoves

\* Runs that go on, or whose execution is started.
LEMMA RunsGoOn ==
    ASSUME NEW S, S \in Seq(RunRows), NEW r \in DOMAIN S, NEW row \in RunRows,
           row.agent = S[r].agent, row.version = S[r].version, row.input = S[r].input,
           S[r].status \in TerminalStatuses => row.status = S[r].status
    PROVE  LET T == [S EXCEPT ![r] = row]
           IN  /\ T \in Seq(RunRows) /\ DOMAIN T = DOMAIN S
               /\ \A i \in DOMAIN S :
                     /\ T[i].agent = S[i].agent /\ T[i].version = S[i].version
                     /\ T[i].input = S[i].input
                     /\ S[i].status \in TerminalStatuses => T[i].status = S[i].status
  <1> DEFINE T == [S EXCEPT ![r] = row]
  <1>1. DOMAIN T = DOMAIN S /\ \A i \in DOMAIN S : T[i] = IF i = r THEN row ELSE S[i]
    OBVIOUS
  <1>2. T \in Seq(RunRows)
    OBVIOUS
  <1> QED BY <1>1, <1>2

LEMMA RowFields ==
    ASSUME NEW s \in RunRows, NEW st \in Statuses
    PROVE  /\ LET x == [s EXCEPT !.status = st]
              IN  /\ x \in RunRows /\ x.status = st
                  /\ x.agent = s.agent /\ x.version = s.version /\ x.input = s.input
           /\ LET x == [s EXCEPT !.started = TRUE, !.durable = TRUE]
              IN  /\ x \in RunRows /\ x.status = s.status
                  /\ x.agent = s.agent /\ x.version = s.version /\ x.input = s.input
           /\ LET x == [s EXCEPT !.started = TRUE]
              IN  /\ x \in RunRows /\ x.status = s.status
                  /\ x.agent = s.agent /\ x.version = s.version /\ x.input = s.input
  BY DEF RunRows

LEMMA QueuedIsAStatus == "queued" \in Statuses /\ "failed" \in Statuses
  BY DEF Statuses, TerminalStatuses

LEMMA RunsKeep ==
    ASSUME CallsInv, RunGoes
    PROVE  CallsInv'
  <1>1. UNCHANGED <<guards, owned, requests, calls>> /\ runs \in Seq(RunRows) /\ now \in Nat
    BY DEF RunGoes, CallsInv, PublicTypeOK
  <1>2. PICK r \in DOMAIN runs : \E st \in {"running", "completed"} :
           runs[r].status \notin TerminalStatuses /\ runs' = [runs EXCEPT ![r].status = st]
    BY DEF RunGoes, TerminalStatuses
  <1>3. PICK st \in {"running", "completed"} :
           runs[r].status \notin TerminalStatuses /\ runs' = [runs EXCEPT ![r].status = st]
    BY <1>2
  <1> DEFINE row == [runs[r] EXCEPT !.status = st]
  <1>4. /\ row \in RunRows /\ row.status = st
        /\ row.agent = runs[r].agent /\ row.version = runs[r].version /\ row.input = runs[r].input
    <2>1. runs[r] \in RunRows /\ st \in Statuses
      BY <1>1 DEF Statuses, TerminalStatuses
    <2> QED BY <2>1, RowFields
  <1>5. runs' = [runs EXCEPT ![r] = row]
    BY <1>3
  <1> HIDE DEF row
  <1>6. runs' \in Seq(RunRows) /\ DOMAIN runs' = DOMAIN runs
        /\ \A i \in DOMAIN runs :
              /\ runs'[i].agent = runs[i].agent /\ runs'[i].version = runs[i].version
              /\ runs'[i].input = runs[i].input
              /\ runs[i].status \in TerminalStatuses => runs'[i].status = runs[i].status
    BY <1>1, <1>3, <1>4, <1>5, RunsGoOn
  <1>7. Grown
    BY <1>1, <1>6 DEF Grown, guards, owned, Live, Expired_
  <1>8. PublicTypeOK'
    BY <1>1, <1>6 DEF guards, owned, CallsInv, PublicTypeOK
  <1> QED BY <1>1, <1>7, <1>8, NothingMoves

LEMMA TimeKeeps ==
    ASSUME CallsInv, Tick
    PROVE  CallsInv'
  <1>1. /\ UNCHANGED <<owned, runs, requests, calls>> /\ now' = now + 1 /\ now \in Nat
        /\ keys \in [Keys -> [state : {"none", "live", "revoked"}, until : Nat]]
    BY DEF Tick, PassTime, CallsInv, PublicTypeOK
  <1>2. \A k \in Keys : ~ Live(k) => ~ Live(k)'
    BY <1>1 DEF Live, Expired_, owned
  <1>3. Grown
    BY <1>1, <1>2 DEF Grown, owned
  <1>4. PublicTypeOK'
    BY <1>1 DEF owned, CallsInv, PublicTypeOK
  <1> QED BY <1>1, <1>3, <1>4, NothingMoves

-----------------------------------------------------------------------------
(* The transactions of a call.                                             *)

LEMMA KeyVerdictFacts ==
    ASSUME NEW b, NEW path, NEW scope
    PROVE  /\ KeyVerdict(b, path, scope) \in {0, 401, 403}
           /\ KeyVerdict(b, path, scope) = 0 =>
                 /\ b \in Keys /\ Live(b) /\ scope \in KeyScopes[b]
                 /\ AgentKey[KeyAgent[b]] = path
           /\ /\ b \in Keys /\ Live(b) /\ scope \in KeyScopes[b]
              /\ AgentKey[KeyAgent[b]] = path
              => KeyVerdict(b, path, scope) = 0
  BY DEF KeyVerdict

LEMMA ReadVerdictFacts ==
    ASSUME NEW b, NEW path, NEW run, NEW scope
    PROVE  /\ ReadVerdict(b, path, run, scope) \in {0, 401, 403}
           /\ ReadVerdict(b, path, run, scope) = 0 =>
                 \/ b \in Calls /\ calls[b].run = run /\ now < calls[b].exp
                 \/ /\ b \notin Calls /\ b \in Keys /\ Live(b)
                    /\ AgentKey[KeyAgent[b]] = path
  BY KeyVerdictFacts DEF ReadVerdict, CapabilityVerdict

\* Who may still come far: not a call with a dead bearer.
LEMMA LiveIsNotDead ==
    ASSUME CallsInv, NEW b
    PROVE  /\ b \in Keys /\ Live(b) => ~ Dead(b)
           /\ b \in Calls /\ now < calls[b].exp => ~ Dead(b)
           /\ b = NoOne => ~ Dead(b)
  <1>1. b \in Calls => b \notin Keys /\ b # NoOne /\ calls[b].exp \in Nat /\ now \in Nat
    BY PublicAssumption DEF NoOne, CallsInv, PublicTypeOK, CallStates
  <1>2. NoOne \notin Keys /\ NoOne \notin Calls
    BY PublicAssumption DEF NoOne
  <1> QED BY <1>1, <1>2 DEF Dead

\* What the next place of a call needs.
LEMMA Goes ==
    ASSUME CallsInv, NEW c \in Calls, ~ At(c, "idle"), ~ Answered(c), CallGoes,
           NEW place \in Places, Go(c, [calls[c] EXCEPT !.at = place])
    PROVE  /\ Grown
           /\ UNCHANGED <<now, keys, runs, requests>>
           /\ \A d \in Calls : Given(d) => calls'[d] = calls[d] /\ Given(d)'
           /\ \A p : At(c, p)' <=> p = place
           /\ LET x == calls'[c]
                  s == calls[c]
              IN  /\ x.at = place /\ x.req = s.req /\ x.agent = s.agent
                  /\ x.version = s.version /\ x.run = s.run /\ x.seen = s.seen
                  /\ x.exp = s.exp /\ x.deadline = s.deadline /\ x.code = s.code
                  /\ x.made = s.made /\ x.dead = s.dead
           /\ CallOK(c)' => CallsInv'
  <1> DEFINE x == [calls[c] EXCEPT !.at = place]
  <1>1. calls[c] \in CallStates /\ calls \in [Calls -> CallStates]
    BY DEF CallsInv, PublicTypeOK
  <1>2. /\ x \in CallStates
        /\ x.at = place /\ x.req = calls[c].req /\ x.agent = calls[c].agent
        /\ x.version = calls[c].version /\ x.run = calls[c].run /\ x.seen = calls[c].seen
        /\ x.exp = calls[c].exp /\ x.deadline = calls[c].deadline /\ x.code = calls[c].code
        /\ x.made = calls[c].made /\ x.dead = calls[c].dead
    BY <1>1, AtFields
  <1>3. calls' = [calls EXCEPT ![c] = x]
    BY DEF Go
  <1> HIDE DEF x
  <1>4. calls'[c] = x
    BY <1>1, <1>3
  <1>5. Grown /\ RequestsAgree' /\ PublicTypeOK'
    BY <1>2, <1>3, CallGrows
  <1>6. CallOK(c)' => CallsInv'
    BY <1>3, <1>5, OneCallMoves
  <1>7. \A d \in Calls : Given(d) => calls'[d] = calls[d] /\ Given(d)'
    BY <1>5 DEF Grown, Given, Answered, At
  <1>8. UNCHANGED <<now, keys, runs, requests>>
    BY DEF CallGoes, guards, owned
  <1> QED BY <1>2, <1>4, <1>5, <1>6, <1>7, <1>8 DEF At

\* A refusal of a call that has no run of its own, or because its bearer died.
LEMMA Refused ==
    ASSUME CallsInv, NEW c \in Calls, ~ At(c, "idle"), ~ Answered(c), CallGoes,
           NEW code \in Nat \ {200, 202}, Answer(c, calls[c], code),
           calls[c].made /\ code \in {401, 403, 404, 409, 422, 429} =>
              Dead(calls[c].req.bearer)
    PROVE  CallsInv'
  <1> DEFINE x == [calls[c] EXCEPT !.at = "answered", !.code = code, !.deadline = 0]
  <1>1. x \in CallStates /\ x.made = calls[c].made
    <2>1. calls[c] \in CallStates
      BY DEF CallsInv, PublicTypeOK
    <2> QED BY <2>1, AnswerFields
  <1>2. calls' = [calls EXCEPT ![c] = x]
    BY DEF Answer, Go
  <1> HIDE DEF x
  <1>3. Grown /\ RequestsAgree' /\ PublicTypeOK'
    BY <1>1, <1>2, CallGrows
  <1>4. CallOK(c)'
    BY <1>3, Refusal
  <1> QED BY <1>2, <1>3, <1>4, OneCallMoves

LEMMA AuthenticateStep ==
    ASSUME CallsInv, NEW c \in Calls, Authenticate(c)
    PROVE  CallsInv'
  <1> DEFINE q == calls[c].req
             scope == IF q.kind = "events" THEN "events:read" ELSE "runs:read"
             verdict == IF q.kind = "invoke" THEN KeyVerdict(q.bearer, q.path, scope)
                        ELSE ReadVerdict(q.bearer, q.path, calls[c].run, scope)
             place == IF q.kind = "invoke" THEN "resolve" ELSE "read"
  <1>1. /\ calls[c].at = "authenticate" /\ ~ At(c, "idle") /\ ~ Answered(c) /\ CallGoes
        /\ IF verdict # 0 THEN Answer(c, calls[c], verdict)
           ELSE Go(c, [calls[c] EXCEPT !.at = place])
    BY DEF Authenticate, At, Answered
  <1>2. CallOK(c)
    BY DEF CallsInv
  <1>3. verdict \in {0, 401, 403}
    BY KeyVerdictFacts, ReadVerdictFacts
  <1>4. ~ calls[c].made
    BY <1>1, <1>2 DEF CallOK, Bearers
  <1>5. CASE verdict # 0
    <2> HIDE DEF verdict
    <2> QED BY <1>1, <1>3, <1>4, <1>5, Refused
  <1>6. CASE verdict = 0
    <2>1. place \in Places /\ Go(c, [calls[c] EXCEPT !.at = place])
      BY <1>1, <1>6 DEF Places
    <2>2. /\ q.kind = "invoke" => /\ q.bearer \in Keys /\ Live(q.bearer)
                                  /\ "runs:read" \in KeyScopes[q.bearer]
          /\ q.kind # "invoke" =>
                \/ /\ q.bearer \in Calls /\ q.bearer \notin Keys
                   /\ calls[q.bearer].run = calls[c].run /\ now < calls[q.bearer].exp
                \/ /\ q.bearer \notin Calls /\ q.bearer \in Keys /\ Live(q.bearer)
                   /\ AgentKey[KeyAgent[q.bearer]] = q.path
      BY <1>6, KeyVerdictFacts, ReadVerdictFacts, PublicAssumption
    <2>3. ~ Dead(q.bearer) /\ ~ calls[c].dead
      BY <1>2, <2>2, LiveIsNotDead DEF CallOK, Bearers
    <2>4. ReadsRun(c) <=> q.kind # "invoke"
      BY <1>1, <1>2 DEF CallOK, Placed, At, ReadsRun
    <2> HIDE DEF verdict
    <2>5. PICK p \in Places : p = place
      BY <2>1
    <2>6. /\ UNCHANGED <<now, keys, runs, requests>>
          /\ \A d \in Calls : Given(d) => calls'[d] = calls[d] /\ Given(d)'
          /\ \A r : At(c, r)' <=> r = p
          /\ calls'[c].at = p /\ calls'[c].req = q /\ calls'[c].run = calls[c].run
          /\ calls'[c].seen = calls[c].seen /\ calls'[c].made = calls[c].made
          /\ calls'[c].dead = calls[c].dead
          /\ CallOK(c)' => CallsInv'
      BY <1>1, <2>1, <2>5, Goes
    <2>7. p = IF q.kind = "invoke" THEN "resolve" ELSE "read"
      BY <2>5
    <2> HIDE DEF place
    <2>8. ReadsRun(c)' = ReadsRun(c) /\ CreatesRun(c)' = CreatesRun(c) /\ ~ Answered(c)' /\ ~ Given(c)'
      BY <2>6, <2>7 DEF ReadsRun, CreatesRun, Answered, Given
    <2>9. Placed(c)'
      BY <1>1, <1>2, <2>4, <2>6, <2>7, <2>8 DEF CallOK, Placed, At
    <2>10. Resolved(c)' /\ HasRun(c)'
      BY <2>2, <2>6, <2>7, <2>8 DEF Resolved, HasRun
    <2>11. MayRead(c)'
      <3>1. CASE q.kind = "invoke"
        BY <2>4, <2>6, <2>7, <2>8, <3>1 DEF MayRead
      <3>2. CASE q.kind # "invoke"
        <4>1. calls[c].run \in DOMAIN runs
          BY <1>1, <1>2, <2>4, <3>2 DEF CallOK, MayRead
        <4>2. q.bearer \in Calls => Given(q.bearer)
          BY <1>2 DEF CallOK, Placed
        <4> QED BY <2>2, <2>6, <2>8, <3>2, <4>1, <4>2 DEF MayRead
      <3> QED BY <3>1, <3>2
    <2>12. SawTheRun(c)'
      BY <1>1, <1>2, <2>6, <2>7 DEF CallOK, SawTheRun
    <2>13. Bearers(c)'
      BY <1>4, <2>3, <2>6, <2>7 DEF Bearers
    <2> QED BY <2>6, <2>9, <2>10, <2>11, <2>12, <2>13 DEF CallOK
  <1> QED BY <1>5, <1>6

\* The same for a state that differs in more than its place.
LEMMA Becomes ==
    ASSUME CallsInv, NEW c \in Calls, ~ Answered(c), CallGoes,
           NEW x \in CallStates, Go(c, x), calls[c].made => x.made
    PROVE  /\ UNCHANGED <<now, keys, runs, requests>>
           /\ \A d \in Calls : Given(d) => calls'[d] = calls[d] /\ Given(d)'
           /\ \A p : At(c, p)' <=> p = x.at
           /\ calls'[c] = x
           /\ CallOK(c)' => CallsInv'
  <1>1. calls' = [calls EXCEPT ![c] = x]
    BY DEF Go
  <1>2. calls'[c] = x
    BY <1>1 DEF CallsInv, PublicTypeOK
  <1>3. Grown /\ RequestsAgree' /\ PublicTypeOK'
    BY <1>1, CallGrows
  <1>4. CallOK(c)' => CallsInv'
    BY <1>1, <1>3, OneCallMoves
  <1>5. \A d \in Calls : Given(d) => calls'[d] = calls[d] /\ Given(d)'
    BY <1>3 DEF Grown, Given, Answered, At
  <1>6. UNCHANGED <<now, keys, runs, requests>>
    BY DEF CallGoes, guards, owned
  <1> QED BY <1>2, <1>4, <1>5, <1>6 DEF At

LEMMA ResolveStep ==
    ASSUME CallsInv, NEW c \in Calls, Resolve(c)
    PROVE  CallsInv'
  <1> DEFINE q == calls[c].req
             found == Routed(q.path)
  <1>1. /\ calls[c].at = "resolve" /\ ~ At(c, "idle") /\ ~ Answered(c) /\ CallGoes
        /\ calls[c] \in CallStates
    BY DEF Resolve, At, Answered, CallsInv, PublicTypeOK
  <1>2. CallOK(c)
    BY DEF CallsInv
  <1>3. ~ calls[c].made /\ ~ ReadsRun(c) /\ q \in Requests[c]
    BY <1>1, <1>2 DEF CallOK, Bearers, Placed, At
  <1>4. CASE Cardinality(found) # 1
    <2>1. Answer(c, calls[c], 404)
      BY <1>4 DEF Resolve
    <2> QED BY <1>1, <1>3, <2>1, Refused
  <1>5. CASE Cardinality(found) = 1
    <2>1. PICK a \in found :
             LET seen == [calls[c] EXCEPT !.agent = a, !.version = traffic[a]]
             IN  IF seen.req.kind = "agent" THEN Answer(c, seen, 200)
                 ELSE Go(c, [seen EXCEPT !.at = "principal"])
      BY <1>5 DEF Resolve
    <2>2. a \in Agents /\ AgentKey[a] = q.path /\ traffic[a] \in Nat
      BY DEF Routed, CallsInv, PublicTypeOK
    <2>3. PICK s : s = [calls[c] EXCEPT !.agent = a, !.version = traffic[a]]
      OBVIOUS
    <2>4. /\ s \in CallStates /\ s.req = q /\ s.agent = a /\ s.version = traffic[a]
          /\ s.run = calls[c].run /\ s.seen = calls[c].seen /\ s.exp = calls[c].exp
          /\ s.code = calls[c].code /\ s.made = calls[c].made /\ s.dead = calls[c].dead
      <3>0. PICK v \in Nat : v = traffic[a]
        BY <2>2
      <3>1. PICK z \in CallStates : z = calls[c]
        BY <1>1
      <3>2. a \in Agents
        BY <2>2
      <3> DEFINE y == [z EXCEPT !.agent = a, !.version = v]
      <3>3. /\ y \in CallStates /\ y.req = z.req /\ y.agent = a /\ y.version = v
            /\ y.run = z.run /\ y.seen = z.seen /\ y.exp = z.exp
            /\ y.code = z.code /\ y.made = z.made /\ y.dead = z.dead
        BY <3>2 DEF CallStates
      <3>4. s = y
        BY <2>3, <3>0, <3>1
      <3> HIDE DEF y
      <3> QED BY <3>0, <3>1, <3>3, <3>4
    <2>5. CASE q.kind = "agent"
      <3>1. PICK x : x = [s EXCEPT !.at = "answered", !.code = 200, !.deadline = 0]
        OBVIOUS
      <3>2. /\ x \in CallStates /\ x.at = "answered" /\ x.req = q
            /\ x.run = calls[c].run /\ x.seen = calls[c].seen
            /\ x.made = calls[c].made /\ x.dead = calls[c].dead
        <4>0. PICK code \in Nat : code = 200
          OBVIOUS
        <4> DEFINE y == [s EXCEPT !.at = "answered", !.code = code, !.deadline = 0]
        <4>1. /\ y \in CallStates /\ y.at = "answered" /\ y.req = s.req
              /\ y.run = s.run /\ y.seen = s.seen /\ y.made = s.made /\ y.dead = s.dead
          BY <2>4, AnswerFields
        <4>2. x = y
          BY <3>1, <4>0
        <4> HIDE DEF y
        <4> QED BY <2>4, <4>1, <4>2
      <3>3. Go(c, x)
        BY <2>1, <2>3, <2>4, <2>5, <3>1 DEF Answer
      <3>4. /\ UNCHANGED <<now, keys, runs, requests>>
            /\ \A d \in Calls : Given(d) => calls'[d] = calls[d] /\ Given(d)'
            /\ \A p : At(c, p)' <=> p = "answered"
            /\ calls'[c] = x
            /\ CallOK(c)' => CallsInv'
        BY <1>1, <3>2, <3>3, Becomes
      <3>5. q.bearer = NoOne
        BY <1>3, <2>5, PublicAssumption DEF NoOne
      <3>6. ~ x.dead
        BY <1>2, <3>2, <3>5, LiveIsNotDead DEF CallOK, Bearers
      <3>7. ~ CreatesRun(c)' /\ ~ ReadsRun(c)'
        BY <2>5, <3>2, <3>4 DEF CreatesRun, ReadsRun
      <3>8. Placed(c)'
        BY <1>2, <1>3, <3>2, <3>4 DEF CallOK, Placed, At
      <3>9. Resolved(c)' /\ HasRun(c)' /\ MayRead(c)'
        BY <3>2, <3>4, <3>7 DEF Resolved, HasRun, MayRead, At
      <3>10. SawTheRun(c)'
        BY <1>2, <3>2, <3>4 DEF CallOK, SawTheRun
      <3>11. Bearers(c)'
        BY <1>3, <3>2, <3>4, <3>6 DEF Bearers
      <3> QED BY <3>4, <3>8, <3>9, <3>10, <3>11 DEF CallOK
    <2>6. CASE q.kind # "agent"
      <3>1. PICK x : x = [s EXCEPT !.at = "principal"]
        OBVIOUS
      <3>2. /\ x \in CallStates /\ x.at = "principal" /\ x.req = q /\ x.agent = a
            /\ x.run = calls[c].run /\ x.seen = calls[c].seen /\ x.code = calls[c].code
            /\ x.made = calls[c].made /\ x.dead = calls[c].dead
        BY <2>4, <3>1, AtFields DEF Places
      <3>3. Go(c, x)
        BY <2>1, <2>3, <2>4, <2>6, <3>1
      <3>4. /\ UNCHANGED <<now, keys, runs, requests>>
            /\ \A d \in Calls : Given(d) => calls'[d] = calls[d] /\ Given(d)'
            /\ \A p : At(c, p)' <=> p = "principal"
            /\ calls'[c] = x
            /\ CallOK(c)' => CallsInv'
        BY <1>1, <3>2, <3>3, Becomes
      <3>5. CreatesRun(c)' /\ ~ ReadsRun(c)' /\ ~ Given(c)'
        <4>1. q.kind \in {"create", "invoke"}
          BY <1>3, <2>6, PublicAssumption DEF ReadsRun
        <4> QED BY <3>2, <3>4, <4>1 DEF CreatesRun, ReadsRun, Given, Answered
      <3>6. Placed(c)'
        BY <1>2, <1>3, <3>2, <3>4, <3>5 DEF CallOK, Placed, At
      <3>7. Resolved(c)'
        BY <1>1, <1>2, <2>2, <3>2, <3>4 DEF CallOK, Resolved
      <3>8. HasRun(c)' /\ MayRead(c)'
        BY <3>2, <3>4, <3>5 DEF HasRun, MayRead, At
      <3>9. SawTheRun(c)'
        BY <1>1, <1>2, <2>6, <3>2, <3>4 DEF CallOK, SawTheRun
      <3>10. Bearers(c)'
        <4>1. Dead(q.bearer) => Dead(calls[c].req.bearer)'
          <5>1. PICK b : b = q.bearer
            OBVIOUS
          <5>2. b \in Calls => calls'[b] = calls[b]
            BY <1>2, <3>4, <5>1 DEF CallOK, Placed
          <5>3. Dead(b) => Dead(b)'
            BY <3>4, <5>2 DEF Dead, Live, Expired_
          <5> QED BY <3>2, <3>4, <5>1, <5>3 DEF Dead
        <4> QED BY <1>2, <1>3, <3>2, <3>4, <4>1 DEF CallOK, Bearers
      <3> QED BY <3>4, <3>6, <3>7, <3>8, <3>9, <3>10 DEF CallOK
    <2> QED BY <2>5, <2>6
  <1> QED BY <1>4, <1>5

LEMMA PrincipalStep ==
    ASSUME CallsInv, NEW c \in Calls, Principal(c)
    PROVE  CallsInv'
  <1> DEFINE q == calls[c].req
             verdict == KeyVerdict(q.bearer, q.path, "runs:create")
  <1>1. /\ calls[c].at = "principal" /\ ~ At(c, "idle") /\ ~ Answered(c) /\ CallGoes
    BY DEF Principal, At, Answered
  <1>2. CallOK(c)
    BY DEF CallsInv
  <1>3. ~ calls[c].made /\ verdict \in {0, 401, 403}
    BY <1>1, <1>2, KeyVerdictFacts DEF CallOK, Bearers
  <1>4. ASSUME NEW code \in {401, 403, 422}, Answer(c, calls[c], code)
        PROVE  CallsInv'
    BY <1>1, <1>3, <1>4, Refused
  <1>5. ASSUME Go(c, [calls[c] EXCEPT !.at = "row"]),
               q.bearer = NoOne \/ (verdict = 0 /\ ~ Foreign(c))
        PROVE  CallsInv'
    <2>1. /\ UNCHANGED <<now, keys, runs, requests>>
          /\ \A d \in Calls : Given(d) => calls'[d] = calls[d] /\ Given(d)'
          /\ \A r : At(c, r)' <=> r = "row"
          /\ calls'[c].at = "row" /\ calls'[c].req = q /\ calls'[c].run = calls[c].run
          /\ calls'[c].agent = calls[c].agent
          /\ calls'[c].seen = calls[c].seen /\ calls'[c].made = calls[c].made
          /\ calls'[c].dead = calls[c].dead
          /\ CallOK(c)' => CallsInv'
      BY <1>1, <1>5, Goes DEF Places
    <2>2. calls[c].agent \in Agents /\ AgentKey[calls[c].agent] = q.path
      BY <1>1, <1>2 DEF CallOK, Resolved
    <2>3. \/ q.bearer = NoOne
          \/ /\ q.bearer \in Keys /\ Live(q.bearer)
             /\ KeyAgent[q.bearer] = calls[c].agent
      <3>1. CASE verdict = 0 /\ ~ Foreign(c)
        <4>1. q.bearer \in Keys /\ Live(q.bearer) /\ AgentKey[KeyAgent[q.bearer]] = q.path
          BY <3>1, KeyVerdictFacts
        <4>2. KeyAgent[q.bearer] \in Agents
          BY <4>1, PublicAssumption
        <4> QED BY <2>2, <3>1, <4>1, <4>2, PublicAssumption DEF Foreign
      <3> QED BY <1>5, <3>1
    <2>4. ~ calls[c].dead
      BY <1>2, <2>3, LiveIsNotDead DEF CallOK, Bearers
    <2> HIDE DEF verdict
    <2>5. CreatesRun(c)' /\ ~ ReadsRun(c)' /\ ~ Given(c)'
      BY <1>1, <1>2, <2>1 DEF CallOK, Placed, CreatesRun, ReadsRun, Given, Answered
    <2>6. Placed(c)'
      BY <1>1, <1>2, <2>1, <2>5 DEF CallOK, Placed, At
    <2>7. Resolved(c)'
      BY <1>1, <1>2, <2>1, <2>2, <2>3 DEF CallOK, Resolved
    <2>8. HasRun(c)' /\ MayRead(c)' /\ SawTheRun(c)'
      BY <1>1, <1>2, <2>1, <2>5 DEF CallOK, HasRun, MayRead, SawTheRun
    <2>9. Bearers(c)'
      BY <1>3, <2>1, <2>4 DEF Bearers
    <2> QED BY <2>1, <2>6, <2>7, <2>8, <2>9 DEF CallOK
  <1> QED BY <1>3, <1>4, <1>5 DEF Principal

LEMMA CreateRowStep ==
    ASSUME CallsInv, NEW c \in Calls, CreateRow(c)
    PROVE  CallsInv'
  <1> DEFINE q == calls[c].req
  <1>1. /\ calls[c].at = "row" /\ ~ At(c, "idle") /\ ~ Answered(c)
        /\ UNCHANGED <<guards, owned>> /\ calls[c] \in CallStates
        /\ runs \in Seq(RunRows) /\ RequestsAgree /\ calls \in [Calls -> CallStates]
    BY DEF CreateRow, At, Answered, CallsInv, PublicTypeOK
  <1>2. CallOK(c)
    BY DEF CallsInv
  <1>3. /\ ~ calls[c].made /\ ~ calls[c].dead /\ CreatesRun(c) /\ q \in Requests[c]
        /\ calls[c].agent \in Agents /\ AgentKey[calls[c].agent] = q.path
        /\ \/ q.bearer = NoOne
           \/ q.bearer \in Keys /\ KeyAgent[q.bearer] = calls[c].agent
    BY <1>1, <1>2 DEF CallOK, Bearers, Placed, Resolved, At
  <1>4. ASSUME NEW code \in {409, 422}, Answer(c, calls[c], code), UNCHANGED <<runs, requests>>
        PROVE  CallsInv'
    <2>1. CallGoes
      BY <1>1, <1>4 DEF CallGoes
    <2> QED BY <1>1, <1>3, <1>4, <2>1, Refused
  \* The call goes on with a run that a request of its key names.
  <1>5. ASSUME NEW r \in requests', NEW x \in CallStates, Go(c, x), Grown, RequestsAgree', PublicTypeOK',
               x.at \in {"start", "view"}, x.req = q, x.agent = calls[c].agent,
               x.version = calls[c].version, x.run = r.run, x.seen = "none",
               x.dead = calls[c].dead, UNCHANGED <<guards, owned>>,
               r.project = Project[x.agent], r.key = DurableKey(c),
               r.input = q.input, r.version = x.version,
               runs'[r.run].agent = x.agent
        PROVE  CallsInv'
    <2>1. calls' = [calls EXCEPT ![c] = x] /\ calls'[c] = x
      BY <1>1, <1>5 DEF Go
    <2>2. /\ \A p : At(c, p)' <=> p = x.at
          /\ ~ Given(c)' /\ ~ Answered(c)' /\ CreatesRun(c)' /\ ~ ReadsRun(c)'
          /\ DurableKey(c)' = DurableKey(c)
      BY <1>3, <1>5, <2>1 DEF At, Given, Answered, CreatesRun, ReadsRun, DurableKey
    <2>3. Placed(c)'
      <3>1. q.bearer \notin Calls
        BY <1>3, PublicAssumption DEF NoOne
      <3>2. q.bearer \in Keys => keys'[q.bearer].state # "none"
        BY <1>2, <1>5 DEF CallOK, Placed, Grown
      <3> QED BY <1>3, <1>5, <2>1, <2>2, <3>1, <3>2 DEF Placed
    <2>4. Resolved(c)'
      BY <1>1, <1>2, <1>3, <1>5, <2>1 DEF CallOK, Resolved
    <2>5. HasRun(c)'
      <3>1. r.run \in DOMAIN runs'
        BY <1>5 DEF RequestsAgree
      <3> QED BY <1>3, <1>5, <2>1, <2>2, <3>1 DEF HasRun
    <2>6. MayRead(c)' /\ SawTheRun(c)'
      <3>1. q.kind # "agent" /\ x.at \notin {"authenticate", "resolve", "principal", "row"}
        BY <1>3, <1>5 DEF CreatesRun
      <3> QED BY <1>5, <2>1, <2>2, <3>1 DEF MayRead, SawTheRun, TerminalStatuses
    <2>7. Bearers(c)'
      BY <1>3, <1>5, <2>1, <2>2 DEF Bearers
    <2>8. CallOK(c)'
      BY <2>3, <2>4, <2>5, <2>6, <2>7 DEF CallOK
    <2> QED BY <1>5, <2>1, <2>8, OneCallMoves
  <1>6. CASE <<calls[c].version, q.input>> \in Refuses
    <2>1. Answer(c, calls[c], 422) /\ UNCHANGED <<runs, requests>>
      BY <1>6 DEF CreateRow
    <2> QED BY <1>4, <2>1
  <1>7. ASSUME NEW r \in Existing(c), UNCHANGED <<runs, requests>>,
               \/ SameRequest(r, c) /\ \E place \in {"start", "view"} :
                     Go(c, [calls[c] EXCEPT !.at = place, !.run = r.run])
               \/ Answer(c, calls[c], 409)
        PROVE  CallsInv'
    <2>1. CASE Answer(c, calls[c], 409)
      BY <1>4, <1>7, <2>1
    <2>2. CASE SameRequest(r, c) /\ \E place \in {"start", "view"} :
                  Go(c, [calls[c] EXCEPT !.at = place, !.run = r.run])
      <3>1. PICK place \in {"start", "view"} : Go(c, [calls[c] EXCEPT !.at = place, !.run = r.run])
        BY <2>2
      <3>2. /\ r \in requests /\ r.project = Project[calls[c].agent] /\ r.key = DurableKey(c)
            /\ r.input = q.input /\ r.version = calls[c].version
        BY <2>2 DEF Existing, SameRequest
      <3>3. r.run \in DOMAIN runs /\ r.run \in Nat
        BY <1>1, <3>2 DEF RequestsAgree
      <3>4. runs[r.run].agent = calls[c].agent
        <4>1. CASE q.bearer = NoOne
          BY <1>1, <1>3, <3>2, <4>1 DEF DurableKey, RequestsAgree
        <4>2. CASE q.bearer # NoOne
          <5>1. r.key[1] = q.bearer
            BY <3>2, <4>2 DEF DurableKey
          <5> QED BY <1>1, <1>3, <3>2, <4>2, <5>1 DEF RequestsAgree
        <4> QED BY <4>1, <4>2
      <3>5. PICK z \in CallStates : z = calls[c]
        BY <1>1
      <3>6. PICK i \in Nat : i = r.run
        BY <3>3
      <3> DEFINE x == [z EXCEPT !.at = place, !.run = i]
      <3>7. /\ x \in CallStates /\ x.at = place /\ x.req = z.req /\ x.agent = z.agent
            /\ x.version = z.version /\ x.run = i /\ x.seen = z.seen
            /\ x.made = z.made /\ x.dead = z.dead
        BY DEF CallStates, Places
      <3>8. Go(c, x)
        BY <3>1, <3>5, <3>6
      <3> HIDE DEF x
      <3>9. CallGoes /\ x.made = calls[c].made /\ calls' = [calls EXCEPT ![c] = x]
        BY <1>1, <1>7, <3>5, <3>7, <3>8 DEF CallGoes, Go
      <3>10. Grown /\ RequestsAgree' /\ PublicTypeOK'
        BY <1>1, <3>7, <3>9, CallGrows
      <3>11. z.seen = "none"
        BY <1>1, <1>2, <3>5 DEF CallOK, SawTheRun
      <3> QED BY <1>1, <1>5, <1>7, <3>2, <3>4, <3>5, <3>6, <3>7, <3>8, <3>10, <3>11
    <2> QED BY <1>7, <2>1, <2>2
  <1>8. CASE /\ Existing(c) = {}
             /\ runs' = Append(runs, [agent |-> calls[c].agent, version |-> calls[c].version,
                                      input |-> q.input, status |-> "queued",
                                      started |-> FALSE, durable |-> FALSE])
             /\ requests' = requests \cup
                   {[project |-> Project[calls[c].agent], key |-> DurableKey(c),
                     version |-> calls[c].version, input |-> q.input, run |-> Len(runs) + 1]}
             /\ Go(c, [calls[c] EXCEPT !.at = "start", !.run = Len(runs) + 1, !.made = TRUE])
    <2> DEFINE row == [agent |-> calls[c].agent, version |-> calls[c].version,
                       input |-> q.input, status |-> "queued",
                       started |-> FALSE, durable |-> FALSE]
               n == Len(runs) + 1
               new == [project |-> Project[calls[c].agent], key |-> DurableKey(c),
                       version |-> calls[c].version, input |-> q.input, run |-> n]
    <2>1. row \in RunRows /\ row.agent = calls[c].agent /\ row.version = calls[c].version
          /\ row.input = q.input
      BY <1>1, <1>3 DEF RunRows, CallStates, Statuses, AllRequests
    <2>2. /\ new.project = Project[calls[c].agent] /\ new.key = DurableKey(c)
          /\ new.version = calls[c].version /\ new.input = q.input /\ new.run = n
          /\ requests' = requests \cup {new} /\ runs' = Append(runs, row)
      BY <1>8
    <2> HIDE DEF row, new
    <2>3. /\ n \in Nat /\ runs' \in Seq(RunRows) /\ n \in DOMAIN runs' /\ runs'[n] = row
          /\ \A i \in DOMAIN runs : i \in DOMAIN runs' /\ runs'[i] = runs[i]
      BY <1>1, <2>1, <2>2
    <2>4. PICK i \in Nat : i = n
      BY <2>3
    <2>5. PICK z \in CallStates : z = calls[c]
      BY <1>1
    <2> DEFINE x == [z EXCEPT !.at = "start", !.run = i, !.made = TRUE]
    <2>6. /\ x \in CallStates /\ x.at = "start" /\ x.req = z.req /\ x.agent = z.agent
          /\ x.version = z.version /\ x.run = i /\ x.seen = z.seen /\ x.made /\ x.dead = z.dead
      BY DEF CallStates, Places
    <2>7. Go(c, x)
      BY <1>8, <2>4, <2>5
    <2> HIDE DEF x, n
    <2>8. /\ calls' \in [Calls -> CallStates] /\ calls'[c] = x
          /\ \A d \in Calls : d # c => calls'[d] = calls[d]
      BY <1>1, <2>6, <2>7 DEF Go
    <2>9. Grown
      <3>1. now' = now /\ now \in Nat /\ keys' = keys
        BY <1>1 DEF guards, owned, CallsInv, PublicTypeOK
      <3>2. \A k \in Keys : Live(k)' = Live(k)
        BY <3>1 DEF Live, Expired_
      <3> QED BY <1>1, <2>2, <2>3, <2>6, <2>8, <3>1, <3>2 DEF Grown
    <2>10. PublicTypeOK'
      BY <1>1, <2>3, <2>8 DEF guards, owned, CallsInv, PublicTypeOK
    <2>11. RequestsAgree'
      <3>1. ASSUME NEW r \in requests'
            PROVE  /\ r.run \in DOMAIN runs'
                   /\ r.input = runs'[r.run].input /\ r.version = runs'[r.run].version
                   /\ \A k \in Keys : r.key[1] = k => runs'[r.run].agent = KeyAgent[k]
                   /\ \A d \in Calls : r.key = <<"web", d>> => calls'[d].made
        <4>1. CASE r \in requests
          BY <1>1, <2>3, <2>9, <4>1 DEF RequestsAgree, Grown
        <4>2. CASE r = new
          <5>1. \A k \in Keys : r.key[1] = k => k = q.bearer /\ q.bearer # NoOne
            BY <2>2, <4>2, PublicAssumption DEF DurableKey
          <5>2. \A d \in Calls : r.key = <<"web", d>> => d = c
            BY <1>3, <2>2, <4>2, PublicAssumption DEF DurableKey
          <5> QED BY <1>3, <2>1, <2>2, <2>3, <2>6, <2>8, <4>2, <5>1, <5>2
        <4> QED BY <2>2, <4>1, <4>2
      <3>2. \A r \in requests : ~ (r.project = new.project /\ r.key = new.key)
        BY <1>8, <2>2 DEF Existing
      <3>3. \A r, s \in requests' : r.project = s.project /\ r.key = s.key => r = s
        BY <1>1, <2>2, <3>2 DEF RequestsAgree
      <3> QED BY <3>1, <3>3 DEF RequestsAgree
    <2>12. z.seen = "none"
      BY <1>1, <1>2, <2>5 DEF CallOK, SawTheRun
    <2> QED BY <1>1, <1>5, <2>1, <2>2, <2>3, <2>4, <2>5, <2>6, <2>7, <2>9, <2>10, <2>11, <2>12
  <1>9. CASE <<calls[c].version, q.input>> \notin Refuses
    <2>1. CASE \E r \in Existing(c) :
                  /\ IF SameRequest(r, c)
                     THEN Go(c, [calls[c] EXCEPT
                                   !.at = IF runs[r.run].status = "queued" /\ ~ runs[r.run].durable
                                          THEN "start" ELSE "view", !.run = r.run])
                     ELSE Answer(c, calls[c], 409)
                  /\ UNCHANGED <<runs, requests>>
      <3>1. PICK r \in Existing(c) :
               /\ UNCHANGED <<runs, requests>>
               /\ \/ SameRequest(r, c) /\ \E place \in {"start", "view"} :
                        Go(c, [calls[c] EXCEPT !.at = place, !.run = r.run])
                  \/ Answer(c, calls[c], 409)
        BY <2>1
      <3> QED BY <1>7, <3>1
    <2> QED BY <1>8, <1>9, <2>1 DEF CreateRow
  <1> QED BY <1>6, <1>9

\* The run of a call at "start" goes on, or is started.
LEMMA StartExecutionStep ==
    ASSUME CallsInv, NEW c \in Calls, StartExecution(c)
    PROVE  CallsInv'
  <1> DEFINE q == calls[c].req
             r == calls[c].run
  <1>1. /\ calls[c].at = "start" /\ ~ At(c, "idle") /\ ~ Answered(c) /\ ~ Given(c)
        /\ UNCHANGED <<guards, owned, requests>> /\ calls[c] \in CallStates
        /\ runs \in Seq(RunRows) /\ calls \in [Calls -> CallStates]
    BY DEF StartExecution, At, Answered, Given, CallsInv, PublicTypeOK
  <1>2. CallOK(c) /\ now \in Nat
    BY DEF CallsInv, PublicTypeOK
  <1>3. /\ CreatesRun(c) /\ ~ ReadsRun(c) /\ ~ calls[c].dead /\ q \in Requests[c]
        /\ r \in DOMAIN runs /\ runs[r] \in RunRows
    BY <1>1, <1>2 DEF CallOK, Placed, HasRun, Bearers, At, CreatesRun, ReadsRun
  \* What happens to the run takes nothing back.
  <1>4. ASSUME NEW row \in RunRows, runs' = [runs EXCEPT ![r] = row],
               row.agent = runs[r].agent, row.version = runs[r].version,
               row.input = runs[r].input,
               runs[r].status \in TerminalStatuses => row.status = runs[r].status,
               NEW x \in CallStates, calls' = [calls EXCEPT ![c] = x],
               calls[c].made => x.made
        PROVE  Grown /\ RequestsAgree' /\ PublicTypeOK'
    <2>1. /\ runs' \in Seq(RunRows) /\ DOMAIN runs' = DOMAIN runs
          /\ \A i \in DOMAIN runs :
                /\ runs'[i].agent = runs[i].agent /\ runs'[i].version = runs[i].version
                /\ runs'[i].input = runs[i].input
                /\ runs[i].status \in TerminalStatuses => runs'[i].status = runs[i].status
      BY <1>1, <1>3, <1>4, RunsGoOn
    <2>2. calls' \in [Calls -> CallStates] /\ calls'[c] = x
          /\ \A d \in Calls : d # c => calls'[d] = calls[d]
      BY <1>1, <1>4
    <2>3. UNCHANGED <<now, traffic, latest, ledger, keys, requests>>
      BY <1>1 DEF guards, owned
    <2>6. \A k \in Keys : Live(k)' = Live(k)
      BY <2>3 DEF Live, Expired_
    <2>4. Grown
      BY <1>1, <1>2, <1>4, <2>1, <2>2, <2>3, <2>6 DEF Grown
    <2>5. PublicTypeOK'
      BY <2>1, <2>2, <2>3 DEF CallsInv, PublicTypeOK
    <2> QED BY <2>3, <2>4, <2>5, RequestsKeep
  <1>5. ASSUME NEW row \in RunRows, runs' = [runs EXCEPT ![r] = row],
               row.agent = runs[r].agent, row.version = runs[r].version,
               row.input = runs[r].input,
               runs[r].status \in TerminalStatuses => row.status = runs[r].status,
               NEW code \in {500, 503}, Answer(c, calls[c], code)
        PROVE  CallsInv'
    <2>1. PICK x \in CallStates : Go(c, x) /\ x.made = calls[c].made
      BY <1>5, AnswerIs
    <2>2. calls' = [calls EXCEPT ![c] = x]
      BY <2>1 DEF Go
    <2>3. Grown /\ RequestsAgree' /\ PublicTypeOK'
      BY <1>4, <1>5, <2>1, <2>2
    <2>4. CallOK(c)'
      BY <1>1, <1>5, <2>3, Refusal
    <2> QED BY <2>2, <2>3, <2>4, OneCallMoves
  <1>6. ASSUME NEW row \in RunRows, runs' = [runs EXCEPT ![r] = row],
               row.agent = runs[r].agent, row.version = runs[r].version,
               row.input = runs[r].input,
               runs[r].status \in TerminalStatuses => row.status = runs[r].status,
               Go(c, [calls[c] EXCEPT !.at = "view"])
        PROVE  CallsInv'
    <2> DEFINE x == [calls[c] EXCEPT !.at = "view"]
    <2>1. /\ x \in CallStates
          /\ x.at = "view" /\ x.req = q /\ x.agent = calls[c].agent
          /\ x.version = calls[c].version /\ x.run = r /\ x.seen = calls[c].seen
          /\ x.exp = calls[c].exp /\ x.made = calls[c].made /\ x.dead = calls[c].dead
      BY <1>1, AtFields DEF Places
    <2>2. calls' = [calls EXCEPT ![c] = x]
      BY <1>6 DEF Go
    <2> HIDE DEF x
    <2>3. Grown /\ RequestsAgree' /\ PublicTypeOK'
      BY <1>4, <1>6, <2>1, <2>2
    <2>4. /\ calls'[c] = x
          /\ \A p : At(c, p)' <=> p = "view"
          /\ ~ Given(c)' /\ ~ Answered(c)' /\ CreatesRun(c)' /\ ~ ReadsRun(c)'
          /\ DurableKey(c)' = DurableKey(c)
      BY <1>1, <1>3, <2>1, <2>2 DEF At, Given, Answered, CreatesRun, ReadsRun, DurableKey
    <2>5. Placed(c)'
      <3>1. q.bearer \notin Calls
        BY <1>1, <1>2, PublicAssumption DEF CallOK, Resolved, NoOne
      <3>2. q.bearer \in Keys => keys'[q.bearer].state # "none"
        BY <1>2, <2>3 DEF CallOK, Placed, Grown
      <3> QED BY <1>3, <2>1, <2>4, <3>1, <3>2 DEF Placed
    <2>6. Resolved(c)'
      BY <1>1, <1>2, <2>1, <2>4 DEF CallOK, Resolved
    <2>7. HasRun(c)'
      <3>1. HasRun(c)
        BY <1>2 DEF CallOK
      <3> QED BY <1>1, <1>3, <2>1, <2>3, <2>4, <3>1 DEF HasRun, Grown
    <2>8. MayRead(c)'
      BY <2>1, <2>4 DEF MayRead
    <2>9. SawTheRun(c)'
      <3>1. q.kind # "agent" /\ SawTheRun(c)
        BY <1>2, <1>3 DEF CreatesRun, CallOK
      <3> QED BY <2>1, <2>3, <2>4, <3>1 DEF SawTheRun, Grown
    <2>10. Bearers(c)'
      BY <1>3, <2>1, <2>4 DEF Bearers
    <2>11. CallOK(c)'
      BY <2>5, <2>6, <2>7, <2>8, <2>9, <2>10 DEF CallOK
    <2> QED BY <2>2, <2>3, <2>11, OneCallMoves
  <1>7. CASE runs' = [runs EXCEPT ![r].started = TRUE, ![r].durable = TRUE]
             /\ Go(c, [calls[c] EXCEPT !.at = "view"])
    <2> DEFINE row == [runs[r] EXCEPT !.started = TRUE, !.durable = TRUE]
    <2>1. row \in RunRows /\ row.status = runs[r].status
          /\ row.agent = runs[r].agent /\ row.version = runs[r].version /\ row.input = runs[r].input
      BY <1>3, RowFields, QueuedIsAStatus
    <2>2. runs' = [runs EXCEPT ![r] = row]
      BY <1>1, <1>3, <1>7
    <2> HIDE DEF row
    <2> QED BY <1>6, <1>7, <2>1, <2>2
  <1>8. CASE runs' = [runs EXCEPT ![r].started = TRUE] /\ Answer(c, calls[c], 503)
    <2> DEFINE row == [runs[r] EXCEPT !.started = TRUE]
    <2>1. row \in RunRows /\ row.status = runs[r].status
          /\ row.agent = runs[r].agent /\ row.version = runs[r].version /\ row.input = runs[r].input
      BY <1>3, RowFields, QueuedIsAStatus
    <2>2. runs' = [runs EXCEPT ![r] = row]
      BY <1>1, <1>3, <1>8
    <2> HIDE DEF row
    <2> QED BY <1>5, <1>8, <2>1, <2>2
  <1>9. CASE /\ runs[r].status = "queued"
             /\ runs' = [runs EXCEPT ![r].status = "failed"] /\ Answer(c, calls[c], 503)
    <2> DEFINE row == [runs[r] EXCEPT !.status = "failed"]
    <2>1. row \in RunRows
          /\ row.agent = runs[r].agent /\ row.version = runs[r].version /\ row.input = runs[r].input
      BY <1>3, RowFields, QueuedIsAStatus
    <2>2. runs' = [runs EXCEPT ![r] = row]
      BY <1>1, <1>3, <1>9
    <2>3. runs[r].status \notin TerminalStatuses
      BY <1>9 DEF TerminalStatuses
    <2> HIDE DEF row
    <2> QED BY <1>5, <1>9, <2>1, <2>2, <2>3
  <1>10. CASE runs' = runs /\ Answer(c, calls[c], 500)
    <2>1. runs' = [runs EXCEPT ![r] = runs[r]]
      BY <1>1, <1>3, <1>10
    <2> QED BY <1>3, <1>5, <1>10, <2>1
  <1> QED BY <1>7, <1>8, <1>9, <1>10 DEF StartExecution

\* A call that creates, past its row, becomes x: what is left to show of x.
LEMMA CreatorBecomes ==
    ASSUME CallsInv, NEW c \in Calls, CallGoes,
           calls[c].at \in {"view", "poll", "pollRead"},
           NEW x \in CallStates, Go(c, x),
           x.at \in {"poll", "pollRead", "answered"},
           x.at # "answered" => calls[c].req.kind = "invoke",
           x.req = calls[c].req, x.agent = calls[c].agent, x.version = calls[c].version,
           x.run = calls[c].run, x.made = calls[c].made, x.dead = calls[c].dead,
           x.at = "answered" => x.code \in {200, 202},
           x.seen \in TerminalStatuses => runs[x.run].status = x.seen,
           x.at # "answered" /\ x.req.bearer = NoOne => x.deadline < x.exp
    PROVE  CallsInv'
  <1> DEFINE q == calls[c].req
  <1>1. ~ At(c, "idle") /\ ~ Answered(c) /\ ~ Given(c)
    BY DEF At, Answered, Given
  <1>2. CallOK(c)
    BY DEF CallsInv
  <1>3. /\ CreatesRun(c) /\ ~ ReadsRun(c) /\ q.kind # "agent" /\ q \in Requests[c]
        /\ calls[c].run \in DOMAIN runs /\ ~ calls[c].dead
    BY <1>1, <1>2 DEF CallOK, Placed, HasRun, Bearers, At, CreatesRun, ReadsRun
  <1>4. /\ UNCHANGED <<now, keys, runs, requests>>
        /\ \A d \in Calls : Given(d) => calls'[d] = calls[d] /\ Given(d)'
        /\ \A p : At(c, p)' <=> p = x.at
        /\ calls'[c] = x
        /\ CallOK(c)' => CallsInv'
    BY <1>1, Becomes
  <1>5. /\ CreatesRun(c)' /\ ~ ReadsRun(c)'
        /\ DurableKey(c)' = DurableKey(c)
    BY <1>3, <1>4 DEF CreatesRun, ReadsRun, DurableKey
  <1>6. Placed(c)'
    <2>1. q.bearer \notin Calls
      BY <1>2, PublicAssumption DEF CallOK, Resolved, NoOne
    <2>2. q.bearer \in Keys => keys[q.bearer].state # "none"
      BY <1>2 DEF CallOK, Placed
    <2> QED BY <1>3, <1>4, <1>5, <2>1, <2>2 DEF Placed
  <1>7. Resolved(c)'
    BY <1>2, <1>4 DEF CallOK, Resolved
  <1>8. HasRun(c)'
    <2>1. HasRun(c)
      BY <1>2 DEF CallOK
    <2> QED BY <1>3, <1>4, <1>5, <2>1 DEF HasRun
  <1>9. MayRead(c)' /\ SawTheRun(c)'
    BY <1>3, <1>4, <1>5 DEF MayRead, SawTheRun
  <1>10. Bearers(c)'
    BY <1>3, <1>4, <1>5 DEF Bearers, Answered, At
  <1> QED BY <1>4, <1>6, <1>7, <1>8, <1>9, <1>10 DEF CallOK

LEMMA ViewStep ==
    ASSUME CallsInv, NEW c \in Calls, View(c)
    PROVE  CallsInv'
  <1> DEFINE q == calls[c].req
  <1>1. calls[c].at = "view" /\ CallGoes /\ calls[c] \in CallStates /\ now \in Nat
    BY DEF View, At, CallsInv, PublicTypeOK
  <1>2. calls[c].run \in DOMAIN runs /\ runs[calls[c].run].status \in Statuses
    <2>1. CallOK(c) /\ runs \in Seq(RunRows)
      BY DEF CallsInv, PublicTypeOK
    <2>2. calls[c].run \in DOMAIN runs
      BY <1>1, <2>1 DEF CallOK, Placed, HasRun, CreatesRun
    <2>3. runs[calls[c].run] \in RunRows
      BY <2>1, <2>2
    <2> QED BY <2>2, <2>3 DEF RunRows
  <1>3. CreatesRun(c)
    BY <1>1 DEF CallsInv, CallOK, Placed
  <1>4. PICK st \in Statuses : st = runs[calls[c].run].status
    BY <1>2
  <1>5. PICK e \in Nat : e = IF q.bearer = NoOne THEN now + CapabilityTTL ELSE 0
    BY <1>1, PublicAssumption
  <1>6. PICK d \in Nat : d = now + SyncWait
    BY <1>1, PublicAssumption
  <1>7. q.bearer = NoOne => d < e
    BY <1>1, <1>5, <1>6, PublicAssumption
  <1>8. PICK z \in CallStates : z = calls[c]
    BY <1>1
  <1> DEFINE seen == [z EXCEPT !.seen = st, !.exp = e, !.deadline = d]
  <1>9. IF q.kind = "create" THEN Answer(c, seen, 202)
        ELSE Go(c, [seen EXCEPT !.at = "poll"])
    BY <1>4, <1>5, <1>6, <1>8 DEF View
  <1>10. CASE q.kind = "create"
    <2>0. PICK k \in Nat : k = 202
      OBVIOUS
    <2> DEFINE x == [seen EXCEPT !.at = "answered", !.code = k, !.deadline = 0]
    <2>1. /\ seen \in CallStates /\ seen.req = z.req
          /\ seen.agent = z.agent /\ seen.version = z.version /\ seen.run = z.run
          /\ seen.seen = st /\ seen.made = z.made /\ seen.dead = z.dead
      BY DEF CallStates
    <2>2. Go(c, x)
      BY <1>9, <1>10, <2>0 DEF Answer
    <2> HIDE DEF seen
    <2>3. /\ x \in CallStates /\ x.at = "answered" /\ x.code = k /\ x.req = seen.req
          /\ x.agent = seen.agent /\ x.version = seen.version /\ x.run = seen.run
          /\ x.seen = seen.seen /\ x.made = seen.made /\ x.dead = seen.dead
      BY <2>1, AnswerFields
    <2> HIDE DEF x
    <2> QED BY <1>1, <1>4, <1>8, <2>0, <2>1, <2>2, <2>3, CreatorBecomes
  <1>11. CASE q.kind # "create"
    <2> DEFINE x == [seen EXCEPT !.at = "poll"]
    <2>1. /\ x \in CallStates /\ x.at = "poll" /\ x.req = z.req
          /\ x.agent = z.agent /\ x.version = z.version /\ x.run = z.run /\ x.seen = st
          /\ x.made = z.made /\ x.dead = z.dead /\ x.exp = e /\ x.deadline = d
      BY DEF CallStates, Places
    <2>2. Go(c, x)
      BY <1>9, <1>11
    <2> HIDE DEF x
    <2>3. q.kind = "invoke"
      BY <1>3, <1>11 DEF CreatesRun
    <2> QED BY <1>1, <1>4, <1>7, <1>8, <2>1, <2>2, <2>3, CreatorBecomes
  <1> QED BY <1>10, <1>11

LEMMA PollStep ==
    ASSUME CallsInv, NEW c \in Calls, Poll(c)
    PROVE  CallsInv'
  <1> DEFINE q == calls[c].req
             verdict == IF q.bearer = NoOne THEN CapabilityVerdict(c, q.path, calls[c].run)
                        ELSE KeyVerdict(q.bearer, q.path, "runs:read")
  <1>1. /\ calls[c].at = "poll" /\ CallGoes /\ calls[c] \in CallStates /\ now \in Nat
        /\ ~ At(c, "idle") /\ ~ Answered(c)
    BY DEF Poll, At, Answered, CallsInv, PublicTypeOK
  <1>2. CallOK(c)
    BY DEF CallsInv
  <1>3. q.kind = "invoke" /\ SawTheRun(c) /\ calls[c].deadline \in Nat /\ calls[c].exp \in Nat
    BY <1>1, <1>2 DEF CallOK, Placed, CallStates
  <1>4. PICK z \in CallStates : z = calls[c]
    BY <1>1
  <1>5. ASSUME NEW code \in {200, 202}, Answer(c, calls[c], code)
        PROVE  CallsInv'
    <2>1. code \in Nat
      OBVIOUS
    <2>2. PICK x \in CallStates :
             /\ Go(c, x)
             /\ x.at = "answered" /\ x.req = calls[c].req /\ x.agent = calls[c].agent
             /\ x.version = calls[c].version /\ x.run = calls[c].run
             /\ x.seen = calls[c].seen /\ x.code = code
             /\ x.made = calls[c].made /\ x.dead = calls[c].dead
      BY <1>5, <2>1, AnswerIs
    <2>4. x.seen \in TerminalStatuses => runs[x.run].status = x.seen
      BY <1>3, <2>2 DEF SawTheRun
    <2> QED BY <1>1, <1>5, <2>2, <2>4, CreatorBecomes
  \* A visitor's capability outlives the wait, so it is a key that is refused.
  <1>6. ASSUME ~ TimeIsUp(c), verdict # 0
        PROVE  q.bearer \in Keys /\ ~ Live(q.bearer) /\ verdict \in {401, 403}
    <2>1. q.bearer # NoOne
      <3> SUFFICES ASSUME q.bearer = NoOne PROVE FALSE
        OBVIOUS
      <3>1. now < calls[c].exp
        BY <1>1, <1>2, <1>3, <1>6 DEF TimeIsUp, CallOK, Bearers
      <3> QED BY <1>6, <3>1 DEF CapabilityVerdict
    <2>2. q.bearer \in Keys /\ "runs:read" \in KeyScopes[q.bearer]
          /\ AgentKey[KeyAgent[q.bearer]] = q.path
      BY <1>1, <1>2, <1>3, <2>1 DEF CallOK, Resolved
    <2> QED BY <1>6, <2>1, <2>2, KeyVerdictFacts
  <1>7. CASE /\ ~ TimeIsUp(c)
             /\ IF verdict # 0 THEN Answer(c, calls[c], verdict)
                ELSE Go(c, [calls[c] EXCEPT !.at = "pollRead"])
    <2>1. CASE verdict # 0
      <3>1. Dead(q.bearer) /\ verdict \in {401, 403} /\ Answer(c, calls[c], verdict)
        BY <1>6, <1>7, <2>1 DEF Dead
      <3> HIDE DEF verdict
      <3> QED BY <1>1, <3>1, Refused
    <2>2. CASE verdict = 0
      <3> DEFINE x == [z EXCEPT !.at = "pollRead"]
      <3>1. /\ x \in CallStates
            /\ x.at = "pollRead" /\ x.req = z.req /\ x.agent = z.agent
            /\ x.version = z.version /\ x.run = z.run /\ x.seen = z.seen
            /\ x.exp = z.exp /\ x.deadline = z.deadline /\ x.made = z.made /\ x.dead = z.dead
        BY AtFields DEF Places
      <3>2. Go(c, x)
        BY <1>4, <1>7, <2>2
      <3> HIDE DEF x
      <3>3. x.seen \in TerminalStatuses => runs[x.run].status = x.seen
        BY <1>3, <1>4, <3>1 DEF SawTheRun
      <3>4. x.req.bearer = NoOne => x.deadline < x.exp
        BY <1>1, <1>2, <1>4, <3>1 DEF CallOK, Bearers
      <3> QED BY <1>1, <1>3, <1>4, <3>1, <3>2, <3>3, <3>4, CreatorBecomes
    <2> QED BY <2>1, <2>2
  <1> QED BY <1>5, <1>7 DEF Poll

LEMMA PollReadStep ==
    ASSUME CallsInv, NEW c \in Calls, PollRead(c)
    PROVE  CallsInv'
  <1>1. calls[c].at = "pollRead" /\ CallGoes /\ calls[c] \in CallStates /\ CallOK(c)
        /\ runs \in Seq(RunRows)
    BY DEF PollRead, At, CallsInv, PublicTypeOK
  <1>2. /\ calls[c].run \in DOMAIN runs /\ calls[c].req.kind = "invoke"
        /\ calls[c].req.bearer = NoOne => calls[c].deadline < calls[c].exp
    BY <1>1 DEF CallOK, Placed, HasRun, Bearers, CreatesRun
  <1>3. PICK st \in Statuses : st = runs[calls[c].run].status
    <2>1. runs[calls[c].run] \in RunRows
      BY <1>1, <1>2
    <2> QED BY <2>1 DEF RunRows
  <1>4. PICK z \in CallStates : z = calls[c]
    BY <1>1
  <1> DEFINE x == [z EXCEPT !.at = "poll", !.seen = st]
  <1>5. /\ x \in CallStates /\ x.at = "poll" /\ x.req = z.req
        /\ x.agent = z.agent /\ x.version = z.version /\ x.run = z.run /\ x.seen = st
        /\ x.made = z.made /\ x.dead = z.dead /\ x.exp = z.exp /\ x.deadline = z.deadline
    BY DEF CallStates, Places
  <1>6. Go(c, x)
    BY <1>3, <1>4 DEF PollRead
  <1> HIDE DEF x
  <1> QED BY <1>1, <1>2, <1>3, <1>4, <1>5, <1>6, CreatorBecomes

LEMMA ReadRunStep ==
    ASSUME CallsInv, NEW c \in Calls, ReadRun(c)
    PROVE  CallsInv'
  <1> DEFINE q == calls[c].req
  <1>1. /\ calls[c].at = "read" /\ CallGoes /\ calls[c] \in CallStates /\ CallOK(c)
        /\ ~ At(c, "idle") /\ ~ Answered(c) /\ runs \in Seq(RunRows)
    BY DEF ReadRun, At, Answered, CallsInv, PublicTypeOK
  <1>2. /\ ReadsRun(c) /\ ~ CreatesRun(c) /\ q \in Requests[c] /\ q.kind # "agent"
        /\ ~ calls[c].made /\ ~ calls[c].dead /\ calls[c].run \in DOMAIN runs
    BY <1>1 DEF CallOK, Placed, MayRead, Bearers, At, ReadsRun, CreatesRun
  <1>3. CASE Answer(c, calls[c], 404)
    <2>1. PICK k \in Nat \ {200, 202} : k = 404
      OBVIOUS
    <2>2. Answer(c, calls[c], k) /\ ~ calls[c].made /\ CallGoes
          /\ ~ At(c, "idle") /\ ~ Answered(c)
      BY <1>1, <1>2, <1>3, <2>1
    <2> QED BY <2>2, Refused
  <1>4. CASE Readable(c) /\ Answer(c, [calls[c] EXCEPT !.seen = runs[calls[c].run].status], 200)
    <2>1. runs[calls[c].run] \in RunRows
      BY <1>1, <1>2
    <2>2. PICK st \in Statuses : st = runs[calls[c].run].status
      BY <2>1 DEF RunRows
    <2>3. PICK z \in CallStates : z = calls[c]
      BY <1>1
    <2>4. PICK k \in Nat : k = 200
      OBVIOUS
    <2> DEFINE y == [z EXCEPT !.seen = st]
               x == [y EXCEPT !.at = "answered", !.code = k, !.deadline = 0]
    <2>5. /\ y \in CallStates /\ y.req = z.req /\ y.agent = z.agent /\ y.version = z.version
          /\ y.run = z.run /\ y.seen = st /\ y.exp = z.exp /\ y.made = z.made /\ y.dead = z.dead
      BY DEF CallStates
    <2>6. Go(c, x)
      BY <1>4, <2>2, <2>3, <2>4 DEF Answer
    <2> HIDE DEF y
    <2>7. /\ x \in CallStates /\ x.at = "answered" /\ x.code = k /\ x.req = y.req
          /\ x.run = y.run /\ x.seen = y.seen /\ x.made = y.made /\ x.dead = y.dead
      BY <2>5, AnswerFields
    <2> HIDE DEF x
    <2>8. /\ UNCHANGED <<now, keys, runs, requests>>
          /\ \A d \in Calls : Given(d) => calls'[d] = calls[d] /\ Given(d)'
          /\ \A p : At(c, p)' <=> p = "answered"
          /\ calls'[c] = x
          /\ CallOK(c)' => CallsInv'
      BY <1>1, <1>2, <2>6, <2>7, Becomes
    <2>9. /\ x.req = q /\ x.run = calls[c].run /\ x.seen = runs[x.run].status
          /\ ~ x.made /\ ~ x.dead
      BY <1>2, <2>2, <2>3, <2>5, <2>7
    <2>10. ReadsRun(c)' /\ ~ CreatesRun(c)'
      BY <1>2, <2>8, <2>9 DEF ReadsRun, CreatesRun
    <2>11. Placed(c)'
      BY <1>1, <1>2, <2>8, <2>9 DEF CallOK, Placed, At
    <2>12. Resolved(c)' /\ HasRun(c)'
      BY <2>7, <2>8, <2>10 DEF Resolved, HasRun
    <2>13. MayRead(c)'
      <3>1. /\ q.bearer \in Keys => AgentKey[KeyAgent[q.bearer]] = q.path
            /\ q.bearer \in Calls => calls[c].run = calls[q.bearer].run
        BY <1>1, <1>2 DEF CallOK, MayRead, At
      <3>2. q.bearer \in Calls => calls'[q.bearer] = calls[q.bearer]
        BY <1>1, <2>8 DEF CallOK, Placed
      <3>3. AgentKey[runs[calls[c].run].agent] = q.path
        BY <1>4 DEF Readable
      <3>4. q.bearer \in Keys => runs[calls[c].run].agent = KeyAgent[q.bearer]
        <4> SUFFICES ASSUME q.bearer \in Keys
                     PROVE  runs[calls[c].run].agent = KeyAgent[q.bearer]
          OBVIOUS
        <4>1. runs[calls[c].run].agent \in Agents /\ KeyAgent[q.bearer] \in Agents
          BY <2>1, PublicAssumption DEF RunRows
        <4>2. q.bearer \notin Calls
          BY PublicAssumption
        <4>3. Project[runs[calls[c].run].agent] = Project[KeyAgent[q.bearer]]
          BY <1>4, <4>2 DEF Readable, Tenant
        <4> QED BY <3>1, <3>3, <4>1, <4>3, PublicAssumption
      <3> QED BY <1>2, <2>8, <2>9, <3>1, <3>2, <3>3, <3>4 DEF MayRead
    <2>14. SawTheRun(c)'
      BY <1>2, <2>7, <2>8, <2>9 DEF SawTheRun
    <2>15. Bearers(c)'
      BY <2>7, <2>8, <2>9 DEF Bearers
    <2> QED BY <2>8, <2>11, <2>12, <2>13, <2>14, <2>15 DEF CallOK
  <1> QED BY <1>3, <1>4 DEF ReadRun

LEMMA AskedFields ==
    ASSUME CallsInv, NEW c \in Calls, NEW q \in Requests[c], NEW place \in Places
    PROVE  LET x == Asked(q, place)
           IN  /\ x \in CallStates
               /\ x.at = place /\ x.req = q /\ x.seen = "none" /\ x.code = 0
               /\ ~ x.made /\ (x.dead <=> Dead(q.bearer))
               /\ x.run = IF q.of = NoOne THEN 0 ELSE calls[q.of].run
  <1>1. PICK run \in Nat : run = IF q.of = NoOne THEN 0 ELSE calls[q.of].run
    <2>1. q.of = 0 \/ q.of \in Calls
      BY PublicAssumption
    <2> QED BY <2>1 DEF NoOne, CallsInv, PublicTypeOK, CallStates
  <1>2. PICK dead \in BOOLEAN : dead = Dead(q.bearer)
    BY DEF Dead
  <1>3. NoCall \in CallStates /\ NoCall.seen = "none" /\ NoCall.code = 0 /\ ~ NoCall.made
    BY DEF NoCall, CallStates, Places, AllRequests, NoRequest
  <1>4. q \in AllRequests
    BY DEF AllRequests
  <1> DEFINE y == [NoCall EXCEPT !.at = place, !.req = q, !.dead = dead, !.run = run]
  <1>5. Asked(q, place) = y
    BY <1>1, <1>2 DEF Asked
  <1>6. /\ y \in CallStates
        /\ y.at = place /\ y.req = q /\ y.seen = NoCall.seen /\ y.code = NoCall.code
        /\ y.made = NoCall.made /\ y.dead = dead /\ y.run = run
    BY <1>3, <1>4 DEF CallStates
  <1> HIDE DEF y
  <1> QED BY <1>1, <1>2, <1>3, <1>5, <1>6

\* A run that a call was given is there.
LEMMA GivenRunIsThere ==
    ASSUME CallsInv, NEW c \in Calls, Given(c), calls[c].run # 0
    PROVE  calls[c].run \in DOMAIN runs
  <1>1. CallOK(c) /\ ~ At(c, "idle")
    BY DEF CallsInv, Given, Answered, At
  <1>2. calls[c].req \in Requests[c] /\ calls[c].req.kind # "agent"
    BY <1>1 DEF CallOK, Placed, SawTheRun
  <1>3. CreatesRun(c) \/ ReadsRun(c)
    BY <1>2, PublicAssumption DEF CreatesRun, ReadsRun
  <1> QED BY <1>1, <1>3 DEF CallOK, HasRun, MayRead

LEMMA ArriveStep ==
    ASSUME CallsInv, NEW c \in Calls, NEW q \in Requests[c], Arrive(c, q)
    PROVE  CallsInv'
  <1>1. /\ calls[c].at = "idle" /\ ~ Answered(c) /\ ~ Given(c) /\ ~ calls[c].made
        /\ calls \in [Calls -> CallStates] /\ now \in Nat
        /\ UNCHANGED <<now, owned, runs, requests>>
    BY DEF Arrive, At, Answered, Given, CallsInv, CallOK, Placed, NoCall, PublicTypeOK,
           Admit, TurnAway, guards
  <1>2. Sendable(q)
    BY DEF Arrive
  <1>3. ASSUME NEW x \in CallStates, Go(c, x), x.req = q, x.seen = "none",
               ~ x.made, x.dead <=> Dead(q.bearer), x.code \notin {200, 202},
               x.run = IF q.of = NoOne THEN 0 ELSE calls[q.of].run,
               \/ x.at = "answered"
               \/ x.at = "authenticate" /\ q.kind \in {"run", "events", "invoke"}
               \/ /\ x.at = "resolve" /\ q.kind \notin {"run", "events"}
                  /\ ~ (q.kind = "invoke" /\ q.bearer # NoOne)
        PROVE  CallsInv'
    <2>1. /\ calls' = [calls EXCEPT ![c] = x] /\ calls'[c] = x
          /\ calls' \in [Calls -> CallStates]
          /\ \A d \in Calls : d # c => calls'[d] = calls[d]
      BY <1>1, <1>3 DEF Go
    <2>2. UNCHANGED <<now, traffic, latest, ledger, keys, runs, requests>>
      BY <1>1 DEF owned
    <2>3. \A k \in Keys : Live(k)' = Live(k)
      BY <2>2 DEF Live, Expired_
    <2>4. Grown
      BY <1>1, <2>1, <2>2, <2>3 DEF Grown
    <2>5. PublicTypeOK' /\ RequestsAgree'
      <3>1. PublicTypeOK'
        BY <2>1, <2>2 DEF CallsInv, PublicTypeOK
      <3> QED BY <2>2, <2>4, <3>1, RequestsKeep
    <2>6. \A d \in Calls : Given(d) => d # c /\ calls'[d] = calls[d] /\ Given(d)'
      BY <1>1, <2>1 DEF Given, Answered, At
    <2>7. /\ \A p : At(c, p)' <=> p = x.at
          /\ ~ Given(c)'
          /\ ReadsRun(c)' <=> q.kind \in {"run", "events"}
          /\ CreatesRun(c)' <=> q.kind \in {"create", "invoke"}
      BY <1>3, <2>1 DEF At, Given, Answered, ReadsRun, CreatesRun
    <2>8. Placed(c)'
      <3>1. q.bearer \in Calls => Given(q.bearer)'
        BY <1>2, <2>6 DEF Sendable
      <3>2. q.bearer \in Keys => keys'[q.bearer].state # "none"
        BY <1>2, <2>2 DEF Sendable
      <3> QED BY <1>3, <2>1, <2>7, <3>1, <3>2 DEF Placed
    <2>9. Resolved(c)' /\ HasRun(c)'
      BY <1>3, <2>1, <2>7 DEF Resolved, HasRun
    <2>10. MayRead(c)'
      <3>1. q.kind \in {"run", "events"} => x.run \in DOMAIN runs
        <4> SUFFICES ASSUME q.kind \in {"run", "events"} PROVE x.run \in DOMAIN runs
          OBVIOUS
        <4>1. q.of \in Calls /\ q.of # NoOne
          BY PublicAssumption DEF NoOne
        <4> QED BY <1>2, <1>3, <4>1, GivenRunIsThere DEF Sendable
      <3> QED BY <1>3, <2>1, <2>2, <2>7, <3>1 DEF MayRead
    <2>11. SawTheRun(c)'
      <3>1. q.kind = "agent" => q.of = NoOne
        BY PublicAssumption DEF NoOne
      <3> QED BY <1>3, <2>1, <3>1 DEF SawTheRun, TerminalStatuses
    <2>12. Bearers(c)'
      <3>1. Dead(q.bearer) => Dead(q.bearer)'
        <4>1. q.bearer \in Calls => calls'[q.bearer] = calls[q.bearer]
          BY <1>2, <2>6 DEF Sendable
        <4> QED BY <2>2, <2>3, <4>1 DEF Dead
      <3>2. Dead(q.bearer)' => Dead(calls[c].req.bearer)'
        BY <1>3, <2>1 DEF Dead
      <3> QED BY <1>3, <2>1, <2>7, <3>1, <3>2 DEF Bearers
    <2>13. CallOK(c)'
      BY <2>8, <2>9, <2>10, <2>11, <2>12 DEF CallOK
    <2> QED BY <2>1, <2>4, <2>5, <2>13, OneCallMoves
  <1>4. CASE Answer(c, Asked(q, "idle"), 429)
    <2>0. PICK y \in CallStates : y = Asked(q, "idle")
      BY AskedFields DEF Places
    <2>1. PICK k \in Nat : k = 429
      OBVIOUS
    <2> DEFINE x == [y EXCEPT !.at = "answered", !.code = k, !.deadline = 0]
    <2>2. /\ y.req = q /\ y.seen = "none" /\ ~ y.made
          /\ (y.dead <=> Dead(q.bearer))
          /\ y.run = IF q.of = NoOne THEN 0 ELSE calls[q.of].run
      BY <2>0, AskedFields DEF Places
    <2>3. Go(c, x)
      BY <1>4, <2>0, <2>1 DEF Answer
    <2>4. /\ x \in CallStates /\ x.at = "answered" /\ x.code = k /\ x.req = y.req
          /\ x.run = y.run /\ x.seen = y.seen /\ x.made = y.made /\ x.dead = y.dead
      BY AnswerFields
    <2> HIDE DEF x
    <2> QED BY <1>3, <2>1, <2>2, <2>3, <2>4
  <1>5. ASSUME NEW place \in {"authenticate", "resolve"}, Go(c, Asked(q, place)),
               \/ place = "authenticate" /\ q.kind \in {"run", "events", "invoke"}
               \/ /\ place = "resolve" /\ q.kind \notin {"run", "events"}
                  /\ ~ (q.kind = "invoke" /\ q.bearer # NoOne)
        PROVE  CallsInv'
    <2> DEFINE x == Asked(q, place)
    <2>1. /\ x \in CallStates
          /\ x.at = place /\ x.req = q /\ x.seen = "none" /\ x.code = 0
          /\ ~ x.made /\ (x.dead <=> Dead(q.bearer))
          /\ x.run = IF q.of = NoOne THEN 0 ELSE calls[q.of].run
      BY AskedFields DEF Places
    <2>2. Go(c, x)
      BY <1>5
    <2> HIDE DEF x
    <2> QED BY <1>3, <1>5, <2>1, <2>2
  <1> QED BY <1>4, <1>5 DEF Arrive, Entry

LEMMA CallsInvBegins == Init => CallsInv
  <1> SUFFICES ASSUME Init PROVE CallsInv
    OBVIOUS
  <1>1. /\ now = 0 /\ runs = <<>> /\ requests = {}
        /\ \A c \in Calls : calls[c] = NoCall
    BY DEF Init, GuardInit
  <1>2. NoCall \in CallStates
    BY DEF NoCall, CallStates, Places, AllRequests, NoRequest
  <1>3. PublicTypeOK
    BY <1>1, <1>2 DEF Init, PublicTypeOK
  <1>4. RequestsAgree
    BY <1>1 DEF RequestsAgree
  <1>5. ASSUME NEW c \in Calls PROVE CallOK(c)
    BY <1>1, PublicAssumption
       DEF CallOK, Placed, Resolved, HasRun, MayRead, SawTheRun, Bearers, At, Given, Answered,
           CreatesRun, ReadsRun, NoCall, NoRequest, NoOne, TerminalStatuses
  <1> QED BY <1>3, <1>4, <1>5 DEF CallsInv

LEMMA CallsInvIsInductive == CallsInv /\ [Next]_vars => CallsInv'
  <1> SUFFICES ASSUME CallsInv, [Next]_vars PROVE CallsInv'
    OBVIOUS
  <1>1. CASE UNCHANGED vars
    <2>1. /\ UNCHANGED <<now, traffic, latest, ledger, keys, runs, requests, calls>>
          /\ now \in Nat
      BY <1>1 DEF vars, guards, owned, CallsInv, PublicTypeOK
    <2>2. Grown
      BY <2>1 DEF Grown, Live, Expired_
    <2>3. PublicTypeOK'
      BY <2>1 DEF CallsInv, PublicTypeOK
    <2> QED BY <2>1, <2>2, <2>3, NothingMoves
  <1>2. CASE \/ \E a \in Agents : Publish(a) \/ Activate(a) \/ Rollback(a)
             \/ \E k \in Keys : CreateKey(k) \/ RevokeKey(k)
    BY <1>2, OwnersKeep
  <1>3. CASE RunGoes
    BY <1>3, RunsKeep
  <1>4. ASSUME NEW c \in Calls, CallStep(c)
        PROVE  CallsInv'
    BY <1>4, AuthenticateStep, ResolveStep, PrincipalStep, CreateRowStep, StartExecutionStep,
       ViewStep, PollStep, PollReadStep, ReadRunStep DEF CallStep
  <1>5. ASSUME NEW c \in Calls, NEW q \in Requests[c], Arrive(c, q)
        PROVE  CallsInv'
    BY <1>5, ArriveStep
  <1>6. CASE Tick
    BY <1>6, TimeKeeps
  <1> QED BY <1>1, <1>2, <1>3, <1>4, <1>5, <1>6 DEF Next

\* Types, and what a call in each place has passed.
THEOREM CallsAreInvariant == Spec => []CallsInv
  BY CallsInvBegins, CallsInvIsInductive, PTL DEF Spec

-----------------------------------------------------------------------------
(* What follows for those who call.                                        *)

\* Calls with one API key and one idempotency key are given one and the same
\* run, of what each of them asked for (create_idempotent).
THEOREM OneRunForOneKey == Spec => []OneRunPerKey
  <1>1. CallsInv => OneRunPerKey
    <2> SUFFICES ASSUME CallsInv PROVE OneRunPerKey
      OBVIOUS
    <2>1. ASSUME NEW c \in Calls, Given(c), CreatesRun(c)
          PROVE  /\ calls[c].req.bearer # NoOne => calls[c].agent = KeyAgent[calls[c].req.bearer]
                 /\ calls[c].run \in DOMAIN runs
                 /\ \E s \in requests :
                       /\ s.project = Project[calls[c].agent] /\ s.key = DurableKey(c)
                       /\ s.run = calls[c].run
                       /\ s.input = calls[c].req.input /\ s.version = calls[c].version
      BY <2>1 DEF CallsInv, CallOK, HasRun
    <2>2. ASSUME NEW c \in Calls, NEW d \in Calls, Given(c), Given(d),
                 CreatesRun(c), CreatesRun(d), calls[c].req.bearer # NoOne,
                 calls[c].req.bearer = calls[d].req.bearer,
                 calls[c].req.idem = calls[d].req.idem
          PROVE  calls[c].run = calls[d].run
      <3>1. calls[c].agent = calls[d].agent /\ DurableKey(c) = DurableKey(d)
        BY <2>1, <2>2 DEF DurableKey
      <3>2. PICK s \in requests : /\ s.project = Project[calls[c].agent]
                                  /\ s.key = DurableKey(c) /\ s.run = calls[c].run
        BY <2>1, <2>2
      <3>3. PICK t \in requests : /\ t.project = Project[calls[d].agent]
                                  /\ t.key = DurableKey(d) /\ t.run = calls[d].run
        BY <2>1, <2>2
      <3>4. s = t
        BY <3>1, <3>2, <3>3 DEF CallsInv, RequestsAgree
      <3> QED BY <3>2, <3>3, <3>4
    <2>3. ASSUME NEW c \in Calls, Given(c), CreatesRun(c)
          PROVE  /\ runs[calls[c].run].input = calls[c].req.input
                 /\ runs[calls[c].run].version = calls[c].version
      BY <2>1, <2>3 DEF CallsInv, RequestsAgree
    <2> QED BY <2>2, <2>3 DEF OneRunPerKey, CreatesRun
  <1> QED BY <1>1, CallsAreInvariant, PTL

\* A call is given a run of the agent in its path, of the agent its API key was
\* made for, or the one run of its capability; and a final status is true.
THEOREM WhatIsGivenIsOwn == Spec => []GivenIsOwn
  <1>1. CallsInv => GivenIsOwn
    <2> SUFFICES ASSUME CallsInv, NEW c \in Calls, Given(c), calls[c].run # 0
                 PROVE  LET q == calls[c].req
                            r == runs[calls[c].run]
                        IN  /\ AgentKey[r.agent] = q.path
                            /\ q.bearer \in Keys => r.agent = KeyAgent[q.bearer]
                            /\ q.bearer \in Calls => calls[c].run = calls[q.bearer].run
                            /\ calls[c].seen \in TerminalStatuses => r.status = calls[c].seen
      BY DEF GivenIsOwn
    <2>1. CallOK(c) /\ ~ At(c, "idle")
      BY DEF CallsInv, Given, Answered, At
    <2>2. calls[c].req \in Requests[c] /\ calls[c].req.kind # "agent"
      BY <2>1 DEF CallOK, Placed, SawTheRun
    <2>3. calls[c].seen \in TerminalStatuses => runs[calls[c].run].status = calls[c].seen
      BY <2>1 DEF CallOK, SawTheRun
    <2>4. CASE CreatesRun(c)
      <3>1. /\ AgentKey[runs[calls[c].run].agent] = calls[c].req.path
            /\ calls[c].req.bearer # NoOne =>
                  /\ calls[c].req.bearer \in Keys
                  /\ runs[calls[c].run].agent = KeyAgent[calls[c].req.bearer]
        BY <2>1, <2>4 DEF CallOK, HasRun
      <3>2. \A k \in Keys : k # NoOne /\ k \notin Calls
        BY PublicAssumption DEF NoOne
      <3>3. NoOne \notin Calls
        BY PublicAssumption DEF NoOne
      <3> QED BY <2>3, <3>1, <3>2, <3>3
    <2>5. CASE ReadsRun(c)
      BY <2>1, <2>3, <2>5 DEF CallOK, MayRead
    <2> QED BY <2>2, <2>4, <2>5, PublicAssumption DEF CreatesRun, ReadsRun
  <1> QED BY <1>1, CallsAreInvariant, PTL

\* A call with a bearer that was dead when it came gets nothing and leaves
\* nothing.
THEOREM DeadBearersOpenNothing == Spec => []DeadBearerOpensNothing
  <1>1. CallsInv => DeadBearerOpensNothing
    BY DEF CallsInv, CallOK, Bearers, DeadBearerOpensNothing, Given
  <1> QED BY <1>1, CallsAreInvariant, PTL

\* A refused client has no run, unless its bearer died while it waited.
THEOREM RefusedClientsHaveNoRun == Spec => []RefusedLeavesNoRun
  <1>1. CallsInv => RefusedLeavesNoRun
    BY DEF CallsInv, CallOK, Bearers, RefusedLeavesNoRun
  <1> QED BY <1>1, CallsAreInvariant, PTL

=============================================================================
