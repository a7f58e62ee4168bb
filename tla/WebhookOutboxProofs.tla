------------------------- MODULE WebhookOutboxProofs -------------------------
(***************************************************************************)
(* WebhookOutbox, for any number of subscriptions, runs, dispatchers,      *)
(* attempts and mishaps, any batch size and any lease.                     *)
(*                                                                         *)
(* The argument: the lease of a row and the age of the batch that holds    *)
(* its latest attempt add up to Lease at least (ClaimsHeld).  A row can    *)
(* only be claimed again when its lease is over, so whoever holds an older *)
(* attempt than the row's is at least Lease seconds late, and whoever      *)
(* passes the fence of finish holds the latest one.                        *)
(***************************************************************************)
EXTENDS WebhookOutbox, TLAPS

\* The arithmetic of the delays.
LEMMA LeftType ==
    ASSUME NEW delay \in Nat, NEW age \in Nat
    PROVE  /\ Left(delay, age) \in Nat
           /\ Left(delay, age) + age >= delay
  BY DEF Left

LEMMA BackoffType ==
    ASSUME NEW n \in Nat \ {0}
    PROVE  Backoff(n) \in Nat
  BY DEF Backoff, Powers

LEMMA HorizonType == Horizon \in Nat /\ Horizon >= Lease
  BY OutboxAssumption, BackoffType DEF Horizon

\* NoClaim is no claim: attempts are counted from 1.
LEMMA NoClaimIsNone == NoClaim \notin Claims
  BY DEF NoClaim, Claims

-----------------------------------------------------------------------------
(* Types.                                                                  *)

LEMMA InitType == Init => TypeOK
  BY OutboxAssumption DEF Init, TypeOK, Rows, Work, NoRow, Row, Polling, Settled

\* A row, and what a dispatcher is doing.
LEMMA RowType ==
    ASSUME TypeOK, NEW d \in Deliveries
    PROVE  /\ row[d] \in Rows
           /\ row[d].state \in {"absent", "pending", "delivering"} \cup Settled
           /\ row[d].attempts \in 0 .. MaxClaims
           /\ row[d].due \in Nat
  BY DEF TypeOK, Rows

LEMMA WorkType ==
    ASSUME TypeOK, NEW w \in Dispatchers
    PROVE  /\ disp[w] \in Work
           /\ disp[w].batch \in SUBSET Claims
           /\ disp[w].age \in Nat
           /\ disp[w].cur \in Claims \cup {NoClaim}
           /\ disp[w].outcome \in {"none", "delivered", "failed", "transient"}
  BY DEF TypeOK, Work

LEMMA ClaimFields ==
    ASSUME NEW c \in Claims
    PROVE  /\ c.id \in Deliveries
           /\ c.attempt \in 1 .. MaxClaims
           /\ c = [id |-> c.id, attempt |-> c.attempt]
  BY DEF Claims

LEMMA ADelivery ==
    ASSUME NEW d \in Deliveries
    PROVE  d[1] \in Subscriptions /\ d[2] \in Runs
  BY DEF Deliveries

\* A claim made by claim_due.
LEMMA NewClaim ==
    ASSUME TypeOK, NEW d \in Due
    PROVE  /\ d \in Deliveries
           /\ row[d].attempts + 1 \in 1 .. MaxClaims
           /\ [id |-> d, attempt |-> row[d].attempts + 1] \in Claims
<1>1. d \in Deliveries /\ row[d].attempts < MaxClaims
  BY DEF Due
<1>2. row[d].attempts \in 0 .. MaxClaims
  BY <1>1, RowType
<1>3. row[d].attempts + 1 \in 1 .. MaxClaims
  BY <1>1, <1>2, OutboxAssumption
<1> QED
  BY <1>1, <1>3 DEF Claims

\* What a claim_due does to rows and dispatchers: live is what it claims.
ClaimEffect(w, live) ==
    /\ live \in SUBSET Due
    /\ disp[w].batch = {}
    /\ \A d \in live : /\ sub[d[1]] = "active"
                       /\ row'[d] = Row("delivering", row[d].attempts + 1, Lease)
    /\ \A d \in Deliveries \ live :
          \/ row'[d] = row[d]
          \/ /\ d \in Due
             /\ sub[d[1]] # "active"
             /\ row'[d] = [row[d] EXCEPT !.state = "cancelled"]
    /\ \A v \in Dispatchers \ {w} : disp'[v] = disp[v]
    /\ disp'[w] = [disp[w] EXCEPT !.batch =
                     {[id |-> d, attempt |-> row[d].attempts + 1] : d \in live}]
    /\ DOMAIN row' = Deliveries
    /\ DOMAIN disp' = Dispatchers
    /\ row' = [d \in Deliveries |-> row'[d]]
    /\ disp' = [v \in Dispatchers |-> disp'[v]]
    /\ UNCHANGED <<sub, ended, requests, mishaps>>

LEMMA ClaimDueEffect ==
    ASSUME TypeOK, NEW w \in Dispatchers, ClaimDue(w)
    PROVE  \E live \in SUBSET Due : ClaimEffect(w, live)
<1>1. PICK B \in SUBSET Due :
        LET live == {d \in B : sub[d[1]] = "active"}
        IN  /\ row' = [d \in Deliveries |->
                         IF d \in live
                         THEN Row("delivering", row[d].attempts + 1, Lease)
                         ELSE IF d \in B THEN [row[d] EXCEPT !.state = "cancelled"]
                         ELSE row[d]]
            /\ disp' = [disp EXCEPT ![w].batch =
                          {[id |-> d, attempt |-> row[d].attempts + 1] : d \in live}]
  BY DEF ClaimDue
<1> DEFINE live == {d \in B : sub[d[1]] = "active"}
<1>2. live \in SUBSET Due /\ live \in SUBSET Deliveries
  BY DEF Due
<1>3. \A d \in live : /\ sub[d[1]] = "active"
                      /\ row'[d] = Row("delivering", row[d].attempts + 1, Lease)
  BY <1>1, <1>2
<1>4. \A d \in Deliveries \ live :
        \/ row'[d] = row[d]
        \/ /\ d \in Due
           /\ sub[d[1]] # "active"
           /\ row'[d] = [row[d] EXCEPT !.state = "cancelled"]
  BY <1>1
<1>5. /\ \A v \in Dispatchers \ {w} : disp'[v] = disp[v]
      /\ disp'[w] = [disp[w] EXCEPT !.batch =
                       {[id |-> d, attempt |-> row[d].attempts + 1] : d \in live}]
      /\ disp' = [v \in Dispatchers |-> disp'[v]]
      /\ DOMAIN disp' = Dispatchers
  BY <1>1 DEF TypeOK
<1>6. DOMAIN row' = Deliveries /\ row' = [d \in Deliveries |-> row'[d]]
  BY <1>1
<1> HIDE DEF live
<1>7. ClaimEffect(w, live)
  BY <1>2, <1>3, <1>4, <1>5, <1>6 DEF ClaimEffect, ClaimDue
<1> QED
  BY <1>2, <1>7

LEMMA ClaimType ==
    ASSUME TypeOK, NEW w \in Dispatchers, NEW live, ClaimEffect(w, live)
    PROVE  TypeOK'
<1>1. row' \in [Deliveries -> Rows]
  <2> SUFFICES ASSUME NEW d \in Deliveries
               PROVE  row'[d] \in Rows
    BY DEF ClaimEffect
  <2>1. row[d] \in Rows
    BY RowType
  <2>2. CASE d \in live
    <3>1. d \in Due
      BY <2>2 DEF ClaimEffect
    <3>2. row[d].attempts + 1 \in 0 .. MaxClaims
      <4>1. row[d].attempts + 1 \in 1 .. MaxClaims
        BY <3>1, NewClaim
      <4> QED
        BY <4>1, OutboxAssumption
    <3>3. row'[d] = Row("delivering", row[d].attempts + 1, Lease)
      BY <2>2 DEF ClaimEffect
    <3> QED
      BY <3>2, <3>3, OutboxAssumption DEF Row, Rows
  <2>3. CASE d \notin live
    <3>1. row'[d] = row[d] \/ row'[d] = [row[d] EXCEPT !.state = "cancelled"]
      BY <2>3 DEF ClaimEffect
    <3> QED
      BY <2>1, <3>1 DEF Rows, Settled
  <2> QED
    BY <2>2, <2>3
<1>2. {[id |-> d, attempt |-> row[d].attempts + 1] : d \in live} \in SUBSET Claims
  BY NewClaim DEF ClaimEffect
<1>3. disp' \in [Dispatchers -> Work]
  <2> SUFFICES ASSUME NEW v \in Dispatchers
               PROVE  disp'[v] \in Work
    BY DEF ClaimEffect
  <2>1. disp[v] \in Work
    BY WorkType
  <2> QED
    BY <1>2, <2>1 DEF ClaimEffect, Work
<1> QED
  BY <1>1, <1>3 DEF TypeOK, ClaimEffect

\* What becomes of a claim that is being delivered.
DeliverEffect(w, c, outcome) ==
    /\ c \in disp[w].batch
    /\ outcome \in {"delivered", "failed", "transient"}
    /\ disp'[w] = [disp[w] EXCEPT !.cur = c, !.outcome = outcome]
    /\ \A v \in Dispatchers \ {w} : disp'[v] = disp[v]
    /\ disp' \in [Dispatchers -> Work]
    /\ requests' \subseteq requests \cup {[claim |-> c, outcome |-> outcome]}
    /\ requests \subseteq requests'
    /\ outcome # "transient" =>
          \/ [claim |-> c, outcome |-> outcome] \in requests'
          \/ outcome = "failed" /\ c.id[1] \notin AllowedOrigins
    /\ UNCHANGED <<sub, ended, row, mishaps>>

LEMMA DeliverHasEffect ==
    ASSUME TypeOK, NEW w \in Dispatchers, NEW c \in disp[w].batch,
           RefuseOrigin(w, c) \/ Send(w, c) \/ RequestLost(w, c)
    PROVE  \E outcome \in {"delivered", "failed", "transient"} : DeliverEffect(w, c, outcome)
<1>1. PICK outcome \in {"delivered", "failed", "transient"} :
        /\ Deliver(w, c, outcome)
        /\ \/ /\ requests' = requests
              /\ outcome = "transient" \/ (outcome = "failed" /\ c.id[1] \notin AllowedOrigins)
           \/ requests' = requests \cup {[claim |-> c, outcome |-> outcome]}
  BY DEF RefuseOrigin, Send, RequestLost
<1>2. disp[w] \in Work /\ c \in Claims
  BY WorkType
<1>3. [disp[w] EXCEPT !.cur = c, !.outcome = outcome] \in Work
  BY <1>2 DEF Work
<1>4. disp' = [disp EXCEPT ![w] = [disp[w] EXCEPT !.cur = c, !.outcome = outcome]]
  BY <1>1 DEF Deliver, TypeOK
<1>5. disp' \in [Dispatchers -> Work]
  BY <1>3, <1>4 DEF TypeOK
<1>6. /\ disp'[w] = [disp[w] EXCEPT !.cur = c, !.outcome = outcome]
      /\ \A v \in Dispatchers \ {w} : disp'[v] = disp[v]
  BY <1>4 DEF TypeOK
<1>7. DeliverEffect(w, c, outcome)
  BY <1>1, <1>5, <1>6 DEF DeliverEffect, Deliver
<1> QED
  BY <1>7

LEMMA DeliverType ==
    ASSUME TypeOK, NEW w \in Dispatchers, NEW c, NEW outcome, DeliverEffect(w, c, outcome)
    PROVE  TypeOK'
<1>1. c \in Claims
  BY WorkType DEF DeliverEffect
<1> QED
  BY <1>1 DEF TypeOK, DeliverEffect

\* What a finish makes of the row it may touch.
Recorded(c, w) ==
    IF disp[w].outcome = "transient" THEN AfterTransient(c, disp[w].age)
    ELSE [row[c.id] EXCEPT !.state = disp[w].outcome]

FinishEffect(w) ==
    LET c == disp[w].cur
    IN  /\ c \in disp[w].batch
        /\ c \in Claims
        /\ disp[w].outcome \in {"delivered", "failed", "transient"}
        /\ \/ row' = row
           \/ /\ Fenced(c)
              /\ Recorded(c, w) \in Rows
              /\ Recorded(c, w).attempts = c.attempt
              /\ row' = [row EXCEPT ![c.id] = Recorded(c, w)]
        /\ \A v \in Dispatchers \ {w} : disp'[v] = disp[v]
        /\ disp'[w].batch \subseteq disp[w].batch \ {c}
        /\ disp'[w].batch # {} => disp'[w].age = disp[w].age
        /\ disp'[w].cur = NoClaim
        /\ disp' \in [Dispatchers -> Work]
        /\ UNCHANGED <<sub, ended, requests, mishaps>>

LEMMA FinishHasEffect ==
    ASSUME TypeOK, ClaimsHeld, NEW w \in Dispatchers, Finish(w)
    PROVE  FinishEffect(w)
<1> DEFINE c == disp[w].cur
           rest == disp[w].batch \ {c}
           next == IF rest = {} THEN Polling
                   ELSE [Polling EXCEPT !.batch = rest, !.age = disp[w].age]
<1>1. c # NoClaim
  BY DEF Finish
<1>2. /\ c \in disp[w].batch
      /\ c \in Claims
      /\ disp[w] \in Work
      /\ disp[w].age \in Nat
      /\ disp[w].batch \in SUBSET Claims
      /\ disp[w].outcome \in {"delivered", "failed", "transient"}
  BY <1>1, WorkType DEF ClaimsHeld, Answered
<1>3. c.id \in Deliveries /\ c.attempt \in 1 .. MaxClaims
  BY <1>2, ClaimFields
<1>4. row[c.id] \in Rows /\ row[c.id].attempts \in 0 .. MaxClaims
  BY <1>3, RowType
<1>5. c.attempt \in Nat \ {0} /\ c.attempt \in 0 .. MaxClaims
  BY <1>3, OutboxAssumption
<1>6. Left(Backoff(c.attempt), disp[w].age) \in Nat
  BY <1>2, <1>5, BackoffType, LeftType
<1>7. ASSUME Fenced(c)
      PROVE  Recorded(c, w) \in Rows /\ Recorded(c, w).attempts = c.attempt
  <2>1. row[c.id].attempts = c.attempt
    BY <1>7 DEF Fenced
  <2>2. CASE disp[w].outcome = "transient" /\ ~(c.attempt >= MaxAttempts)
    <3>1. Recorded(c, w) = Row("pending", c.attempt, Left(Backoff(c.attempt), disp[w].age))
      BY <2>2 DEF Recorded, AfterTransient
    <3> QED
      BY <3>1, <1>5, <1>6 DEF Row, Rows
  <2>3. CASE ~(disp[w].outcome = "transient" /\ ~(c.attempt >= MaxAttempts))
    <3>1. \/ Recorded(c, w) = [row[c.id] EXCEPT !.state = "failed"]
          \/ Recorded(c, w) = [row[c.id] EXCEPT !.state = "delivered"]
      BY <1>2, <2>3 DEF Recorded, AfterTransient
    <3> QED
      BY <3>1, <1>4, <2>1 DEF Rows, Settled
  <2> QED
    BY <2>2, <2>3
<1>8. row' = row \/ (Fenced(c) /\ row' = [row EXCEPT ![c.id] = Recorded(c, w)])
  BY DEF Finish, Recorded
<1>9. next \in Work
  BY <1>2 DEF Polling, Work
<1>10. disp' = [disp EXCEPT ![w] = next]
  BY DEF Finish
<1>11. /\ disp' \in [Dispatchers -> Work]
       /\ disp'[w] = next
       /\ \A v \in Dispatchers \ {w} : disp'[v] = disp[v]
  <2> HIDE DEF next
  <2> QED
    BY <1>9, <1>10 DEF TypeOK
<1>12. /\ next.batch \subseteq disp[w].batch \ {c}
       /\ next.batch # {} => next.age = disp[w].age
       /\ next.cur = NoClaim
  BY DEF Polling
<1> HIDE DEF next
<1> QED
  BY <1>2, <1>7, <1>8, <1>11, <1>12 DEF FinishEffect, Finish

LEMMA FinishType ==
    ASSUME TypeOK, NEW w \in Dispatchers, FinishEffect(w)
    PROVE  TypeOK'
<1>1. row' \in [Deliveries -> Rows]
  BY DEF TypeOK, FinishEffect
<1> QED
  BY <1>1 DEF TypeOK, FinishEffect

\* What passing time does.
TickEffect ==
    /\ \A d \in Deliveries :
          /\ row'[d].state = row[d].state
          /\ row'[d].attempts = row[d].attempts
          /\ row'[d].due \in Nat
          /\ row'[d].due + 1 >= row[d].due
    /\ \A w \in Dispatchers :
          /\ disp'[w].batch = disp[w].batch
          /\ disp'[w].cur = disp[w].cur
          /\ disp'[w].outcome = disp[w].outcome
          /\ disp'[w].age \in Nat
          /\ disp'[w].age >= disp[w].age
          /\ disp[w].batch # {} => disp'[w].age >= Lease \/ disp'[w].age = disp[w].age + 1
    /\ UNCHANGED <<sub, ended, requests>>

LEMMA TickHasEffect ==
    ASSUME TypeOK, Tick
    PROVE  TickEffect /\ TypeOK'
<1>1. ASSUME NEW d \in Deliveries
      PROVE  /\ row'[d] \in Rows
             /\ row'[d].state = row[d].state
             /\ row'[d].attempts = row[d].attempts
             /\ row'[d].due \in Nat
             /\ row'[d].due + 1 >= row[d].due
  <2>1. row[d] \in Rows /\ row[d].due \in Nat
    BY RowType
  <2>2. Left(row[d].due, 1) \in Nat /\ Left(row[d].due, 1) + 1 >= row[d].due
    BY <2>1, LeftType
  <2>3. row'[d] = [row[d] EXCEPT !.due = Left(row[d].due, 1)]
    BY DEF Tick
  <2> QED
    BY <2>1, <2>2, <2>3 DEF Rows
<1>2. ASSUME NEW w \in Dispatchers
      PROVE  /\ disp'[w] \in Work
             /\ disp'[w].batch = disp[w].batch
             /\ disp'[w].cur = disp[w].cur
             /\ disp'[w].outcome = disp[w].outcome
             /\ disp'[w].age \in Nat
             /\ disp'[w].age >= disp[w].age
             /\ disp[w].batch # {} => disp'[w].age >= Lease \/ disp'[w].age = disp[w].age + 1
  <2>1. disp[w] \in Work /\ disp[w].age \in Nat
    BY WorkType
  <2>2. disp'[w] = [disp[w] EXCEPT !.age = IF disp[w].batch # {} /\ disp[w].age < Horizon
                                           THEN disp[w].age + 1 ELSE disp[w].age]
    BY DEF Tick
  <2> QED
    BY <2>1, <2>2, HorizonType, OutboxAssumption DEF Work
<1>3. /\ row' = [d \in Deliveries |-> row'[d]]
      /\ disp' = [w \in Dispatchers |-> disp'[w]]
  BY DEF Tick
<1>4. row' \in [Deliveries -> Rows] /\ disp' \in [Dispatchers -> Work]
  BY <1>1, <1>2, <1>3
<1>5. mishaps' \in 0 .. MaxMishaps
  BY OutboxAssumption DEF Tick, TypeOK
<1> QED
  BY <1>1, <1>2, <1>4, <1>5 DEF TickEffect, Tick, TypeOK

LEMMA EnqueueType ==
    ASSUME TypeOK, NEW r \in Runs, EnqueueTerminal(r)
    PROVE  TypeOK'
<1>1. Row("pending", 0, 0) \in Rows
  BY OutboxAssumption DEF Row, Rows
<1> QED
  BY <1>1 DEF TypeOK, EnqueueTerminal

LEMMA CrashType ==
    ASSUME TypeOK, NEW w \in Dispatchers, Crash(w)
    PROVE  TypeOK'
<1>1. Polling \in Work
  BY DEF Polling, Work
<1> QED
  BY <1>1, OutboxAssumption DEF TypeOK, Crash

-----------------------------------------------------------------------------
(* Claiming.                                                               *)

\* A claim of a delivery that may be claimed again has outlived its lease.
LEMMA OldClaim ==
    ASSUME TypeOK, ClaimsHeld, NEW w \in Dispatchers, NEW c \in disp[w].batch,
           c.id \in Due
    PROVE  disp[w].age >= Lease
<1>1. c \in Claims /\ disp[w].age \in Nat
  BY WorkType
<1>2. c.id \in Deliveries /\ c.attempt \in 1 .. MaxClaims
  BY <1>1, ClaimFields
<1>3. row[c.id].attempts \in 0 .. MaxClaims
  BY <1>2, RowType
<1>4. Held(w, c) /\ row[c.id].due = 0
  BY DEF ClaimsHeld, Due
<1> QED
  BY <1>1, <1>2, <1>3, <1>4, OutboxAssumption DEF Held

LEMMA ClaimHeld ==
    ASSUME TypeOK, ClaimsHeld, NEW w \in Dispatchers, NEW live, ClaimEffect(w, live)
    PROVE  ClaimsHeld'
<1> SUFFICES ASSUME NEW v \in Dispatchers
             PROVE  Answered(v)' /\ \A c \in disp'[v].batch : Held(v, c)'
  BY DEF ClaimsHeld
<1>1. CASE v = w
  <2>1. disp[w].batch = {} /\ disp[w] \in Work /\ disp[w].age \in Nat
    BY WorkType DEF ClaimEffect
  <2>2. disp[w].cur = NoClaim
    BY <2>1 DEF ClaimsHeld, Answered
  <2>3. /\ disp'[w].cur = NoClaim
        /\ disp'[w].age \in Nat
        /\ disp'[w].batch = {[id |-> d, attempt |-> row[d].attempts + 1] : d \in live}
    BY <2>1, <2>2 DEF ClaimEffect, Work
  <2>4. ASSUME NEW c \in disp'[w].batch PROVE Held(w, c)'
    <3>1. PICK d \in live : c = [id |-> d, attempt |-> row[d].attempts + 1]
      BY <2>3
    <3>2. row'[d] = Row("delivering", row[d].attempts + 1, Lease)
      BY DEF ClaimEffect
    <3>3. row[d].attempts + 1 \in 1 .. MaxClaims
      BY NewClaim DEF ClaimEffect
    <3> QED
      BY <2>3, <3>1, <3>2, <3>3, OutboxAssumption DEF Held, Row
  <2> QED
    BY <1>1, <2>3, <2>4 DEF Answered
<1>2. CASE v # w
  <2>1. disp'[v] = disp[v] /\ UNCHANGED requests
    BY <1>2 DEF ClaimEffect
  <2>2. Answered(v) /\ Answered(v)'
    BY <2>1 DEF ClaimsHeld, Answered
  <2>3. ASSUME NEW c \in disp[v].batch PROVE Held(v, c)'
    <3>1. c \in Claims /\ disp[v].age \in Nat /\ Held(v, c)
      BY WorkType DEF ClaimsHeld
    <3>2. c.id \in Deliveries /\ c.attempt \in 1 .. MaxClaims
      BY <3>1, ClaimFields
    <3>3. row[c.id] \in Rows /\ row[c.id].attempts \in 0 .. MaxClaims
      BY <3>2, RowType
    <3>4. CASE c.id \in live
      <4>1. disp[v].age >= Lease
        BY <3>4, OldClaim DEF ClaimEffect
      <4>2. row'[c.id] = Row("delivering", row[c.id].attempts + 1, Lease)
        BY <3>4 DEF ClaimEffect
      <4> QED
        BY <2>1, <3>1, <3>2, <3>3, <4>1, <4>2 DEF Held, Row
    <3>5. CASE c.id \notin live
      <4>1. \/ row'[c.id] = row[c.id]
            \/ row'[c.id] = [row[c.id] EXCEPT !.state = "cancelled"]
        BY <3>2, <3>5 DEF ClaimEffect
      <4>2. /\ row'[c.id].attempts = row[c.id].attempts
            /\ row'[c.id].due = row[c.id].due
            /\ row'[c.id].state = row[c.id].state \/ row'[c.id].state = "cancelled"
        BY <3>3, <4>1 DEF Rows
      <4> QED
        BY <2>1, <3>1, <4>2 DEF Held
    <3> QED
      BY <3>4, <3>5
  <2> QED
    BY <2>1, <2>2, <2>3
<1> QED
  BY <1>1, <1>2

\* A new claim takes a number above every claim of that delivery still held.
LEMMA ClaimExcludes ==
    ASSUME TypeOK, ClaimsHeld, LeaseExcludes,
           NEW w \in Dispatchers, NEW live, ClaimEffect(w, live)
    PROVE  LeaseExcludes'
<1> SUFFICES ASSUME NEW w1 \in Dispatchers, NEW w2 \in Dispatchers,
                    NEW c1 \in disp'[w1].batch, NEW c2 \in disp'[w2].batch,
                    w1 # w2, c1.id = c2.id
             PROVE  /\ c1.attempt # c2.attempt
                    /\ c1.attempt < c2.attempt => disp'[w1].age >= Lease
  BY DEF LeaseExcludes
<1>1. disp'[w].batch = {[id |-> d, attempt |-> row[d].attempts + 1] : d \in live}
  BY WorkType DEF ClaimEffect, Work
<1>2. ASSUME NEW v \in Dispatchers, v # w, NEW c \in disp'[v].batch, c.id \in live
      PROVE  /\ c.attempt \in Nat
             /\ row[c.id].attempts \in Nat
             /\ c.attempt <= row[c.id].attempts
             /\ disp'[v].age >= Lease
  <2>1. disp'[v] = disp[v]
    BY <1>2 DEF ClaimEffect
  <2>2. c \in disp[v].batch
    BY <2>1
  <2>3. c \in Claims /\ Held(v, c)
    BY <2>2, WorkType DEF ClaimsHeld
  <2>4. c.id \in Deliveries /\ c.attempt \in 1 .. MaxClaims
    BY <2>3, ClaimFields
  <2>5. row[c.id].attempts \in 0 .. MaxClaims
    BY <2>4, RowType
  <2>6. c.id \in Due
    BY <1>2 DEF ClaimEffect
  <2>7. disp[v].age >= Lease
    BY <2>2, <2>6, OldClaim
  <2> QED
    BY <2>1, <2>3, <2>4, <2>5, <2>7 DEF Held
<1>3. CASE w1 = w
  <2>1. c1.id \in live /\ c1.attempt = row[c1.id].attempts + 1
    BY <1>1, <1>3
  <2>2. c2.attempt \in Nat /\ row[c1.id].attempts \in Nat /\ c2.attempt <= row[c1.id].attempts
    BY <1>2, <1>3, <2>1
  <2> QED
    BY <2>1, <2>2
<1>4. CASE w2 = w
  <2>1. c2.id \in live /\ c2.attempt = row[c2.id].attempts + 1
    BY <1>1, <1>4
  <2>2. /\ c1.attempt \in Nat
        /\ row[c2.id].attempts \in Nat
        /\ c1.attempt <= row[c2.id].attempts
        /\ disp'[w1].age >= Lease
    BY <1>2, <1>4, <2>1
  <2> QED
    BY <2>1, <2>2
<1>5. CASE w1 # w /\ w2 # w
  BY <1>5 DEF LeaseExcludes, ClaimEffect
<1> QED
  BY <1>3, <1>4, <1>5

LEMMA ClaimReasons ==
    ASSUME TypeOK, SettledForAReason, EnqueuedByRun,
           NEW w \in Dispatchers, NEW live, ClaimEffect(w, live)
    PROVE  SettledForAReason' /\ EnqueuedByRun'
<1>1. UNCHANGED <<sub, ended, requests>>
  BY DEF ClaimEffect
<1>2. ASSUME NEW d \in Deliveries
      PROVE  \/ row'[d].state = row[d].state /\ row'[d].attempts = row[d].attempts
             \/ row[d].state # "absent" /\ row'[d].state = "delivering"
             \/ /\ row[d].state # "absent"
                /\ row'[d].state = "cancelled"
                /\ sub[d[1]] # "active"
  <2>1. row[d] \in Rows
    BY RowType
  <2>2. CASE d \in live
    <3>1. d \in Due /\ row'[d] = Row("delivering", row[d].attempts + 1, Lease)
      BY <2>2 DEF ClaimEffect
    <3>2. row[d].state # "absent"
      BY <3>1 DEF Due
    <3> QED
      BY <3>1, <3>2 DEF Row
  <2>3. CASE d \notin live
    BY <2>1, <2>3 DEF ClaimEffect, Due, Rows
  <2> QED
    BY <2>2, <2>3
<1>3. EnqueuedByRun'
  BY <1>1, <1>2 DEF EnqueuedByRun
<1>4. SettledForAReason'
  <2> SUFFICES ASSUME NEW d \in Deliveries
               PROVE  LET claim == [id |-> d, attempt |-> row'[d].attempts]
                      IN  /\ row'[d].state = "delivered" =>
                                [claim |-> claim, outcome |-> "delivered"] \in requests'
                          /\ row'[d].state = "failed" =>
                                \/ d[1] \notin AllowedOrigins
                                \/ row'[d].attempts >= MaxAttempts
                                \/ [claim |-> claim, outcome |-> "failed"] \in requests'
                          /\ row'[d].state = "cancelled" => sub'[d[1]] = "revoked"
    BY DEF SettledForAReason
  <2>1. sub[d[1]] \in {"none", "active", "revoked"}
    BY ADelivery DEF TypeOK
  <2>2. CASE row'[d].state = row[d].state /\ row'[d].attempts = row[d].attempts
    BY <1>1, <2>2 DEF SettledForAReason
  <2>3. CASE row'[d].state = "delivering"
    BY <2>3
  <2>4. CASE row[d].state # "absent" /\ row'[d].state = "cancelled" /\ sub[d[1]] # "active"
    BY <1>1, <2>1, <2>4 DEF EnqueuedByRun
  <2> QED
    BY <1>2, <2>2, <2>3, <2>4
<1> QED
  BY <1>3, <1>4

-----------------------------------------------------------------------------
(* Sending and recording.                                                  *)

LEMMA DeliverKeeps ==
    ASSUME IInv, NEW w \in Dispatchers, NEW c, NEW outcome, DeliverEffect(w, c, outcome)
    PROVE  ClaimsHeld' /\ LeaseExcludes' /\ SettledForAReason' /\ EnqueuedByRun'
<1>1. ASSUME NEW v \in Dispatchers
      PROVE  disp'[v].batch = disp[v].batch /\ disp'[v].age = disp[v].age
  <2>1. disp[v] \in Work
    BY WorkType DEF IInv
  <2>2. disp'[v] = disp[v] \/ disp'[v] = [disp[v] EXCEPT !.cur = c, !.outcome = outcome]
    BY DEF DeliverEffect
  <2> QED
    BY <2>1, <2>2 DEF Work
<1>2. ASSUME NEW v \in Dispatchers PROVE Answered(v)'
  <2>1. CASE v = w
    <3>1. disp[w] \in Work
      BY WorkType DEF IInv
    <3>2. disp'[w].cur = c /\ disp'[w].outcome = outcome /\ disp'[w].batch = disp[w].batch
      BY <3>1 DEF DeliverEffect, Work
    <3> QED
      BY <2>1, <3>2 DEF Answered, DeliverEffect
  <2>2. CASE v # w
    BY <2>2 DEF Answered, DeliverEffect, IInv, ClaimsHeld
  <2> QED
    BY <2>1, <2>2
<1>3. ASSUME NEW v \in Dispatchers, NEW b \in disp'[v].batch PROVE Held(v, b)'
  BY <1>1, <1>3 DEF Held, DeliverEffect, IInv, ClaimsHeld
<1>4. ClaimsHeld'
  BY <1>2, <1>3 DEF ClaimsHeld
<1>5. LeaseExcludes'
  BY <1>1 DEF LeaseExcludes, IInv
<1>6. SettledForAReason'
  BY DEF SettledForAReason, IInv, DeliverEffect
<1>7. EnqueuedByRun'
  BY DEF EnqueuedByRun, IInv, DeliverEffect
<1> QED
  BY <1>4, <1>5, <1>6, <1>7

\* Whoever passes the fence of finish holds the row's latest attempt: any other
\* claim of that delivery is older, and its lease is over.
LEMMA FinishKeepsClaims ==
    ASSUME IInv, NEW w \in Dispatchers, FinishEffect(w)
    PROVE  ClaimsHeld' /\ LeaseExcludes'
<1> DEFINE c == disp[w].cur
<1>1. /\ c \in Claims
      /\ c \in disp[w].batch
      /\ TypeOK
  BY DEF FinishEffect, IInv
<1>2. c.id \in Deliveries /\ c.attempt \in 1 .. MaxClaims
  BY <1>1, ClaimFields
<1>3. ASSUME NEW v \in Dispatchers
      PROVE  /\ disp'[v].batch \subseteq disp[v].batch
             /\ disp'[v].batch # {} => disp'[v].age = disp[v].age
  BY DEF FinishEffect
<1>4. ASSUME NEW v \in Dispatchers PROVE Answered(v)'
  BY DEF Answered, FinishEffect, IInv, ClaimsHeld
<1>5. ASSUME NEW v \in Dispatchers, NEW b \in disp'[v].batch PROVE Held(v, b)'
  <2>1. b \in disp[v].batch /\ disp'[v].age = disp[v].age
    BY <1>3, <1>5
  <2>2. b \in Claims /\ Held(v, b)
    BY <1>1, <2>1, WorkType DEF IInv, ClaimsHeld
  <2>3. /\ b.id \in Deliveries
        /\ b.attempt \in 1 .. MaxClaims
        /\ b = [id |-> b.id, attempt |-> b.attempt]
    BY <2>2, ClaimFields
  <2>4. CASE row'[b.id] = row[b.id]
    BY <2>1, <2>2, <2>4 DEF Held
  <2>5. CASE row'[b.id] # row[b.id]
    <3>1. /\ b.id = c.id
          /\ Fenced(c)
          /\ row'[b.id] = Recorded(c, w)
          /\ Recorded(c, w).attempts = c.attempt
      BY <1>1, <1>2, <2>3, <2>5 DEF FinishEffect, TypeOK
    <3>2. row[b.id].attempts = c.attempt /\ row'[b.id].attempts = c.attempt
      BY <3>1 DEF Fenced
    <3>3. disp[w].outcome \in {"delivered", "failed", "transient"}
      BY DEF FinishEffect
    <3>4. row[b.id] \in Rows
      BY <1>1, <2>3, RowType
    <3>5. row'[b.id].state # "absent"
      BY <3>1, <3>3, <3>4 DEF Recorded, AfterTransient, Row, Rows
    <3>6. CASE b.attempt < c.attempt
      BY <2>1, <2>2, <3>2, <3>5, <3>6, <1>2, <2>3 DEF Held
    <3>7. CASE b.attempt = c.attempt
      <4>1. b = c
        BY <1>1, <2>3, <3>1, <3>7, ClaimFields
      <4>2. CASE v = w
        <5>1. c \notin disp'[w].batch
          BY DEF FinishEffect
        <5> QED
          BY <4>1, <4>2, <5>1, <1>5
      <4>3. CASE v # w
        BY <4>1, <4>3, <2>1, <1>1 DEF IInv, LeaseExcludes
      <4> QED
        BY <4>2, <4>3
    <3> QED
      BY <1>2, <2>2, <2>3, <3>2, <3>6, <3>7 DEF Held
  <2> QED
    BY <2>4, <2>5
<1>6. ClaimsHeld'
  BY <1>4, <1>5 DEF ClaimsHeld
<1>7. LeaseExcludes'
  BY <1>3 DEF LeaseExcludes, IInv
<1> QED
  BY <1>6, <1>7

LEMMA FinishKeepsReasons ==
    ASSUME IInv, NEW w \in Dispatchers, FinishEffect(w)
    PROVE  SettledForAReason' /\ EnqueuedByRun'
<1> DEFINE c == disp[w].cur
<1>1. /\ c \in Claims
      /\ c \in disp[w].batch
      /\ TypeOK
      /\ UNCHANGED <<sub, ended, requests>>
  BY DEF FinishEffect, IInv
<1>2. /\ c.id \in Deliveries
      /\ c.attempt \in 1 .. MaxClaims
      /\ c = [id |-> c.id, attempt |-> c.attempt]
  BY <1>1, ClaimFields
<1>3. CASE row' = row
  BY <1>1, <1>3 DEF SettledForAReason, EnqueuedByRun, IInv
<1>4. CASE row' # row
  <2>1. /\ Fenced(c)
        /\ Recorded(c, w).attempts = c.attempt
        /\ row' = [row EXCEPT ![c.id] = Recorded(c, w)]
    BY <1>4 DEF FinishEffect
  <2>2. /\ row'[c.id] = Recorded(c, w)
        /\ \A d \in Deliveries \ {c.id} : row'[d] = row[d]
    BY <1>1, <1>2, <2>1 DEF TypeOK
  <2>3. row[c.id].attempts = c.attempt /\ row[c.id].state = "delivering"
    BY <2>1 DEF Fenced
  <2>4. EnqueuedByRun'
    BY <1>1, <2>2, <2>3 DEF EnqueuedByRun, IInv
  <2>5. c # NoClaim
    BY <1>1, NoClaimIsNone
  <2>6. /\ disp[w].outcome \in {"delivered", "failed", "transient"}
        /\ disp[w].outcome # "transient" =>
              \/ [claim |-> c, outcome |-> disp[w].outcome] \in requests
              \/ disp[w].outcome = "failed" /\ c.id[1] \notin AllowedOrigins
    BY <2>5 DEF FinishEffect, IInv, ClaimsHeld, Answered
  <2>7. row[c.id] \in Rows
    BY <1>1, <1>2, RowType
  <2>8. \/ Recorded(c, w).state = "pending"
        \/ /\ Recorded(c, w).state = "failed"
           /\ c.attempt >= MaxAttempts
        \/ /\ Recorded(c, w).state = disp[w].outcome
           /\ disp[w].outcome # "transient"
    BY <2>6, <2>7 DEF Recorded, AfterTransient, Row, Rows
  <2>9. SettledForAReason'
    <3> SUFFICES ASSUME NEW d \in Deliveries
                 PROVE  LET claim == [id |-> d, attempt |-> row'[d].attempts]
                        IN  /\ row'[d].state = "delivered" =>
                                  [claim |-> claim, outcome |-> "delivered"] \in requests'
                            /\ row'[d].state = "failed" =>
                                  \/ d[1] \notin AllowedOrigins
                                  \/ row'[d].attempts >= MaxAttempts
                                  \/ [claim |-> claim, outcome |-> "failed"] \in requests'
                            /\ row'[d].state = "cancelled" => sub'[d[1]] = "revoked"
      BY DEF SettledForAReason
    <3>1. CASE d # c.id
      BY <3>1, <2>2, <1>1 DEF SettledForAReason, IInv
    <3>2. CASE d = c.id
      <4>1. [id |-> d, attempt |-> row'[d].attempts] = c
        BY <1>2, <2>1, <2>2, <3>2
      <4>2. row'[d].state = Recorded(c, w).state /\ row'[d].attempts = c.attempt
        BY <2>1, <2>2, <3>2
      <4> QED
        BY <1>1, <2>6, <2>8, <3>2, <4>1, <4>2
    <3> QED
      BY <3>1, <3>2
  <2> QED
    BY <2>4, <2>9
<1> QED
  BY <1>3, <1>4

LEMMA TickKeeps ==
    ASSUME IInv, TickEffect
    PROVE  ClaimsHeld' /\ LeaseExcludes' /\ SettledForAReason' /\ EnqueuedByRun'
<1>1. TypeOK
  BY DEF IInv
<1>2. ASSUME NEW v \in Dispatchers, NEW b \in disp'[v].batch PROVE Held(v, b)'
  <2>1. /\ b \in disp[v].batch
        /\ disp[v].age \in Nat
        /\ disp'[v].age \in Nat
        /\ disp'[v].age >= disp[v].age
        /\ disp'[v].age >= Lease \/ disp'[v].age = disp[v].age + 1
    BY <1>1, <1>2, WorkType DEF TickEffect
  <2>2. b \in Claims /\ Held(v, b)
    BY <1>1, <2>1, WorkType DEF IInv, ClaimsHeld
  <2>3. b.id \in Deliveries /\ b.attempt \in 1 .. MaxClaims
    BY <2>2, ClaimFields
  <2>4. row[b.id].attempts \in 0 .. MaxClaims /\ row[b.id].due \in Nat
    BY <1>1, <2>3, RowType
  <2>5. /\ row'[b.id].state = row[b.id].state
        /\ row'[b.id].attempts = row[b.id].attempts
        /\ row'[b.id].due \in Nat
        /\ row'[b.id].due + 1 >= row[b.id].due
    BY <2>3 DEF TickEffect
  <2>6. row'[b.id].due + disp'[v].age >= Lease \/ ~(row[b.id].due + disp[v].age >= Lease)
    BY <2>1, <2>4, <2>5, OutboxAssumption
  <2>7. disp'[v].age >= Lease \/ ~(disp[v].age >= Lease)
    BY <2>1, OutboxAssumption
  <2> QED
    BY <2>2, <2>5, <2>6, <2>7 DEF Held
<1>3. ASSUME NEW v \in Dispatchers PROVE Answered(v)'
  BY DEF Answered, TickEffect, IInv, ClaimsHeld
<1>4. ClaimsHeld'
  BY <1>2, <1>3 DEF ClaimsHeld
<1>5. LeaseExcludes'
  <2> SUFFICES ASSUME NEW w1 \in Dispatchers, NEW w2 \in Dispatchers,
                      NEW c1 \in disp'[w1].batch, NEW c2 \in disp'[w2].batch,
                      w1 # w2, c1.id = c2.id
               PROVE  /\ c1.attempt # c2.attempt
                      /\ c1.attempt < c2.attempt => disp'[w1].age >= Lease
    BY DEF LeaseExcludes
  <2>1. /\ c1.attempt # c2.attempt
        /\ c1.attempt < c2.attempt => disp[w1].age >= Lease
    BY DEF LeaseExcludes, IInv, TickEffect
  <2>2. disp[w1].age \in Nat /\ disp'[w1].age \in Nat /\ disp'[w1].age >= disp[w1].age
    BY <1>1, WorkType DEF TickEffect
  <2> QED
    BY <2>1, <2>2, OutboxAssumption
<1>6. SettledForAReason'
  BY DEF SettledForAReason, IInv, TickEffect
<1>7. EnqueuedByRun'
  BY DEF EnqueuedByRun, IInv, TickEffect
<1> QED
  BY <1>4, <1>5, <1>6, <1>7

-----------------------------------------------------------------------------
(* The owner, the runs and the mishaps.                                    *)

LEMMA EnqueueKeeps ==
    ASSUME IInv, NEW r \in Runs, EnqueueTerminal(r)
    PROVE  ClaimsHeld' /\ LeaseExcludes' /\ SettledForAReason' /\ EnqueuedByRun'
<1>1. /\ TypeOK
      /\ UNCHANGED <<sub, disp, requests>>
      /\ ended' = ended \cup {r}
  BY DEF IInv, EnqueueTerminal
<1>2. ASSUME NEW d \in Deliveries
      PROVE  \/ row'[d] = row[d]
             \/ /\ row[d].state = "absent"
                /\ row'[d].state = "pending"
                /\ d[2] \in ended'
                /\ sub[d[1]] = "active"
  BY DEF EnqueueTerminal, Wants, EnqueuedByRun, IInv, Row
<1>3. ASSUME NEW v \in Dispatchers, NEW b \in disp[v].batch PROVE Held(v, b)'
  <2>1. b \in Claims /\ Held(v, b)
    BY <1>1, WorkType DEF IInv, ClaimsHeld
  <2>2. b.id \in Deliveries
    BY <2>1, ClaimFields
  <2> QED
    BY <1>1, <1>2, <2>1, <2>2 DEF Held
<1>4. ClaimsHeld'
  BY <1>1, <1>3 DEF ClaimsHeld, Answered, IInv
<1>5. LeaseExcludes'
  BY <1>1 DEF LeaseExcludes, IInv
<1>6. SettledForAReason'
  BY <1>1, <1>2 DEF SettledForAReason, IInv
<1>7. EnqueuedByRun'
  BY <1>1, <1>2 DEF EnqueuedByRun, IInv
<1> QED
  BY <1>4, <1>5, <1>6, <1>7

LEMMA CrashKeeps ==
    ASSUME IInv, NEW w \in Dispatchers, Crash(w)
    PROVE  ClaimsHeld' /\ LeaseExcludes' /\ SettledForAReason' /\ EnqueuedByRun'
<1>1. /\ disp'[w] = Polling
      /\ \A v \in Dispatchers \ {w} : disp'[v] = disp[v]
      /\ UNCHANGED <<sub, ended, row, requests>>
  BY DEF Crash, IInv, TypeOK
<1>2. ClaimsHeld'
  BY <1>1 DEF ClaimsHeld, Answered, Held, IInv, Polling
<1>3. LeaseExcludes'
  BY <1>1 DEF LeaseExcludes, IInv, Polling
<1> QED
  BY <1>1, <1>2, <1>3 DEF SettledForAReason, EnqueuedByRun, IInv

LEMMA OwnerKeeps ==
    ASSUME IInv, NEW s \in Subscriptions, Create(s) \/ Revoke(s)
    PROVE  IInv'
<1>1. /\ UNCHANGED <<ended, row, disp, requests, mishaps>>
      /\ \A t \in Subscriptions : /\ sub[t] = "revoked" => sub'[t] = "revoked"
                                  /\ sub[t] # "none" => sub'[t] # "none"
  BY DEF Create, Revoke, IInv, TypeOK
<1>2. TypeOK'
  BY DEF Create, Revoke, IInv, TypeOK
<1>3. LeaseExcludes' /\ ClaimsHeld'
  BY <1>1 DEF LeaseExcludes, ClaimsHeld, Answered, Held, IInv
<1>4. SettledForAReason' /\ EnqueuedByRun'
  BY <1>1, ADelivery DEF SettledForAReason, EnqueuedByRun, IInv
<1> QED
  BY <1>2, <1>3, <1>4 DEF IInv

-----------------------------------------------------------------------------
(* The theorems.                                                           *)

LEMMA InitInvariant == Init => IInv
<1> SUFFICES ASSUME Init PROVE IInv
  OBVIOUS
<1>1. /\ \A w \in Dispatchers : disp[w].batch = {} /\ disp[w].cur = NoClaim
      /\ \A d \in Deliveries : row[d].state = "absent"
  BY DEF Init, Polling, NoRow, Row
<1>2. LeaseExcludes /\ ClaimsHeld
  BY <1>1 DEF LeaseExcludes, ClaimsHeld, Answered
<1>3. SettledForAReason /\ EnqueuedByRun
  BY <1>1 DEF SettledForAReason, EnqueuedByRun
<1> QED
  BY <1>2, <1>3, InitType DEF IInv

LEMMA StepInvariant == IInv /\ [Next]_vars => IInv'
<1> SUFFICES ASSUME IInv, [Next]_vars PROVE IInv'
  OBVIOUS
<1> USE DEF IInv
<1>1. ASSUME NEW s \in Subscriptions, Create(s) \/ Revoke(s) PROVE IInv'
  <2> HIDE DEF IInv
  <2> QED
    BY <1>1, OwnerKeeps
<1>2. ASSUME NEW r \in Runs, EnqueueTerminal(r) PROVE IInv'
  BY <1>2, EnqueueType, EnqueueKeeps
<1>3. ASSUME NEW w \in Dispatchers, ClaimDue(w) PROVE IInv'
  <2>1. PICK live \in SUBSET Due : ClaimEffect(w, live)
    BY <1>3, ClaimDueEffect
  <2>2. TypeOK'
    BY <2>1, ClaimType
  <2>3. ClaimsHeld' /\ LeaseExcludes'
    BY <2>1, ClaimHeld, ClaimExcludes
  <2>4. SettledForAReason' /\ EnqueuedByRun'
    BY <2>1, ClaimReasons
  <2> QED
    BY <2>2, <2>3, <2>4
<1>4. ASSUME NEW w \in Dispatchers, NEW c \in disp[w].batch,
             RefuseOrigin(w, c) \/ Send(w, c) \/ RequestLost(w, c)
      PROVE  IInv'
  <2>1. PICK outcome : DeliverEffect(w, c, outcome)
    BY <1>4, DeliverHasEffect
  <2>2. TypeOK'
    BY <2>1, DeliverType
  <2>3. ClaimsHeld' /\ LeaseExcludes' /\ SettledForAReason' /\ EnqueuedByRun'
    BY <2>1, DeliverKeeps
  <2> QED
    BY <2>2, <2>3
<1>5. ASSUME NEW w \in Dispatchers, Finish(w) PROVE IInv'
  <2>1. FinishEffect(w)
    BY <1>5, FinishHasEffect
  <2>2. TypeOK'
    BY <2>1, FinishType
  <2>3. ClaimsHeld' /\ LeaseExcludes' /\ SettledForAReason' /\ EnqueuedByRun'
    BY <2>1, FinishKeepsClaims, FinishKeepsReasons
  <2> QED
    BY <2>2, <2>3
<1>6. ASSUME NEW w \in Dispatchers, Crash(w) PROVE IInv'
  BY <1>6, CrashType, CrashKeeps
<1>7. CASE Tick
  BY <1>7, TickHasEffect, TickKeeps
<1>8. CASE UNCHANGED vars
  BY <1>8 DEF TypeOK, LeaseExcludes, ClaimsHeld, Answered, Held,
              SettledForAReason, EnqueuedByRun, Due, vars
<1> HIDE DEF IInv
<1> QED
  BY <1>1, <1>2, <1>3, <1>4, <1>5, <1>6, <1>7, <1>8 DEF Next, DispatchOnce

\* The inductive invariant of the outbox: types, the leases that the claims
\* held stand on, the reasons for what is settled, and where rows come from.
THEOREM InductiveInvariant == Spec => []IInv
<1>1. Init => IInv
  BY InitInvariant
<1>2. IInv /\ [Next]_vars => IInv'
  BY StepInvariant
<1> QED
  BY <1>1, <1>2, PTL DEF Spec

\* Rows and dispatchers stay well formed.
THEOREM TypeCorrect == Spec => []TypeOK
<1>1. IInv => TypeOK
  BY DEF IInv
<1> QED
  BY <1>1, InductiveInvariant, PTL

\* However many workers there are and however often they crash, two of them
\* work at one delivery only when the lease of the older claim is over.
THEOREM LeaseIsExclusive == Spec => []LeaseExcludes
<1>1. IInv => LeaseExcludes
  BY DEF IInv
<1> QED
  BY <1>1, InductiveInvariant, PTL

\* What a delivery is settled as is what happened to the attempt it counts.
THEOREM SettledWithReason == Spec => []SettledForAReason
<1>1. IInv => SettledForAReason
  BY DEF IInv
<1> QED
  BY <1>1, InductiveInvariant, PTL

\* A step never takes a settled delivery back.
LEMMA StepIsFinal ==
    IInv /\ [Next]_vars =>
        [\A d \in Deliveries : (row[d].state \in Settled) =>
            (row'[d].state = row[d].state /\ row'[d].attempts = row[d].attempts)]_vars
<1> SUFFICES ASSUME IInv, [Next]_vars, NEW d \in Deliveries, row[d].state \in Settled
             PROVE  row'[d].state = row[d].state /\ row'[d].attempts = row[d].attempts
  OBVIOUS
<1>1. TypeOK /\ ClaimsHeld /\ EnqueuedByRun
  BY DEF IInv
<1>2. row[d].state \notin {"absent", "pending", "delivering"}
  BY DEF Settled
<1>3. ASSUME NEW s \in Subscriptions, Create(s) \/ Revoke(s)
      PROVE  UNCHANGED row
  BY <1>3 DEF Create, Revoke
<1>4. ASSUME NEW r \in Runs, EnqueueTerminal(r)
      PROVE  row'[d] = row[d]
  BY <1>1, <1>2, <1>4 DEF EnqueueTerminal, EnqueuedByRun
<1>5. ASSUME NEW w \in Dispatchers, ClaimDue(w)
      PROVE  row'[d] = row[d]
  <2>1. PICK live \in SUBSET Due : ClaimEffect(w, live)
    BY <1>1, <1>5, ClaimDueEffect
  <2>2. d \notin Due
    BY <1>2 DEF Due
  <2> QED
    BY <2>1, <2>2 DEF ClaimEffect
<1>6. ASSUME NEW w \in Dispatchers, NEW c \in disp[w].batch,
             RefuseOrigin(w, c) \/ Send(w, c) \/ RequestLost(w, c)
      PROVE  UNCHANGED row
  BY <1>6 DEF RefuseOrigin, Send, RequestLost, Deliver
<1>7. ASSUME NEW w \in Dispatchers, Finish(w)
      PROVE  row'[d] = row[d]
  <2>1. FinishEffect(w)
    BY <1>1, <1>7, FinishHasEffect
  <2> QED
    BY <1>1, <1>2, <2>1 DEF FinishEffect, Fenced, TypeOK
<1>8. ASSUME NEW w \in Dispatchers, Crash(w) PROVE UNCHANGED row
  BY <1>8 DEF Crash
<1>9. CASE Tick
  BY <1>1, <1>9, TickHasEffect DEF TickEffect
<1>10. CASE UNCHANGED vars
  BY <1>10 DEF vars
<1> QED
  BY <1>3, <1>4, <1>5, <1>6, <1>7, <1>8, <1>9, <1>10 DEF Next, DispatchOnce

\* A settled delivery stays as it is, whoever comes back with a late answer.
THEOREM SettledStays == Spec => SettledIsFinal
<1>1. IInv /\ [Next]_vars =>
        [\A d \in Deliveries : (row[d].state \in Settled) =>
            (row'[d].state = row[d].state /\ row'[d].attempts = row[d].attempts)]_vars
  BY StepIsFinal
<1> QED
  BY <1>1, InductiveInvariant, PTL DEF Spec, SettledIsFinal

-----------------------------------------------------------------------------
(* Attempts and mishaps.                                                   *)

\* A row in the next state: unchanged in what PaidInv says, if its holder goes
\* on to hold its claim in time.
LEMMA PaidAsBefore ==
    ASSUME TypeOK, PaidInv, NEW d \in Deliveries,
           row'[d].state = row[d].state, row'[d].attempts = row[d].attempts,
           mishaps' \in Nat, mishaps' >= mishaps,
           InTime(d) => InTime(d)' \/ mishaps' > mishaps
    PROVE  /\ row'[d].attempts <= MaxAttempts + mishaps'
           /\ row'[d].state = "pending" => row'[d].attempts < MaxAttempts
           /\ row'[d].state = "delivering" =>
                 row'[d].attempts < MaxAttempts + mishaps' \/ InTime(d)'
<1>1. /\ row[d].attempts \in 0 .. MaxClaims
      /\ mishaps \in Nat
      /\ row[d].attempts <= MaxAttempts + mishaps
      /\ row[d].state = "pending" => row[d].attempts < MaxAttempts
      /\ row[d].state = "delivering" => row[d].attempts < MaxAttempts + mishaps \/ InTime(d)
  BY RowType, OutboxAssumption DEF TypeOK, PaidInv, AttemptsArePaid
<1> QED
  BY <1>1, OutboxAssumption

\* A due row is nobody's in time, so that its next attempt has been paid for.
LEMMA DueIsPaid ==
    ASSUME IInv, PaidInv, NEW d \in Due
    PROVE  row[d].attempts + 1 <= MaxAttempts + mishaps
<1>1. /\ d \in Deliveries
      /\ row[d].state \in {"pending", "delivering"}
      /\ row[d].attempts \in 0 .. MaxClaims
      /\ mishaps \in Nat
  BY RowType, OutboxAssumption DEF IInv, Due, TypeOK
<1>2. ~ InTime(d)
  <2> SUFFICES ASSUME NEW w \in Dispatchers, NEW c \in disp[w].batch,
                      c.id = d, disp[w].age < Lease
               PROVE  FALSE
    BY DEF InTime
  <2>1. disp[w].age >= Lease /\ disp[w].age \in Nat
    BY OldClaim, WorkType DEF IInv
  <2> QED
    BY <2>1, OutboxAssumption
<1>3. row[d].attempts < MaxAttempts + mishaps
  BY <1>1, <1>2, OutboxAssumption DEF PaidInv
<1> QED
  BY <1>1, <1>3, OutboxAssumption

LEMMA ClaimPays ==
    ASSUME IInv, PaidInv, NEW w \in Dispatchers, NEW live, ClaimEffect(w, live)
    PROVE  PaidInv'
<1>1. TypeOK /\ mishaps' = mishaps /\ mishaps \in Nat /\ live \in SUBSET Due
  BY OutboxAssumption DEF IInv, TypeOK, ClaimEffect
<1>2. /\ disp[w].batch = {} /\ disp[w].age = 0 /\ disp[w] \in Work
      /\ disp'[w] = [disp[w] EXCEPT !.batch =
                       {[id |-> d, attempt |-> row[d].attempts + 1] : d \in live}]
      /\ \A v \in Dispatchers \ {w} : disp'[v] = disp[v]
  BY <1>1, WorkType DEF ClaimEffect, PaidInv
<1>3. disp'[w].age = 0
      /\ disp'[w].batch = {[id |-> d, attempt |-> row[d].attempts + 1] : d \in live}
  BY <1>2 DEF Work
<1>4. ASSUME NEW d \in Deliveries
      PROVE  /\ row'[d].attempts <= MaxAttempts + mishaps'
             /\ row'[d].state = "pending" => row'[d].attempts < MaxAttempts
             /\ row'[d].state = "delivering" =>
                   row'[d].attempts < MaxAttempts + mishaps' \/ InTime(d)'
  <2>1. CASE d \in live
    <3>1. row'[d] = Row("delivering", row[d].attempts + 1, Lease)
      BY <2>1 DEF ClaimEffect
    <3>2. row'[d].attempts = row[d].attempts + 1 /\ row'[d].state = "delivering"
      BY <3>1 DEF Row
    <3>3. InTime(d)'
      <4> DEFINE b == [id |-> d, attempt |-> row[d].attempts + 1]
      <4>1. b \in disp'[w].batch
        BY <2>1, <1>3
      <4>2. b.id = d /\ b.attempt = row'[d].attempts
        BY <3>2
      <4>3. disp'[w].age < Lease
        BY <1>3, OutboxAssumption
      <4> HIDE DEF b
      <4> QED
        BY <4>1, <4>2, <4>3 DEF InTime
    <3> QED
      BY <1>1, <2>1, <3>2, <3>3, DueIsPaid
  <2>2. CASE d \notin live /\ row'[d] = row[d]
    <3>1. InTime(d) => InTime(d)'
      BY <1>2, <2>2 DEF InTime
    <3> QED
      BY <1>1, <2>2, <3>1, PaidAsBefore
  <2>3. CASE row'[d] = [row[d] EXCEPT !.state = "cancelled"]
    <3>1. row[d] \in Rows
      BY <1>1, RowType
    <3>2. row'[d].attempts = row[d].attempts /\ row'[d].state = "cancelled"
      BY <2>3, <3>1 DEF Rows
    <3> QED
      BY <1>1, <3>2 DEF PaidInv, AttemptsArePaid
  <2> QED
    BY <2>1, <2>2, <2>3 DEF ClaimEffect
<1>5. \A v \in Dispatchers : disp'[v].batch = {} => disp'[v].age = 0
  BY <1>2, <1>3 DEF PaidInv
<1> QED
  BY <1>4, <1>5 DEF PaidInv, AttemptsArePaid

LEMMA DeliverPays ==
    ASSUME IInv, PaidInv, NEW w \in Dispatchers, NEW c, NEW outcome, DeliverEffect(w, c, outcome)
    PROVE  PaidInv'
<1>1. /\ UNCHANGED <<row, mishaps>>
      /\ \A v \in Dispatchers : disp'[v].batch = disp[v].batch /\ disp'[v].age = disp[v].age
  <2>1. disp[w] \in Work /\ disp'[w] = [disp[w] EXCEPT !.cur = c, !.outcome = outcome]
    BY WorkType DEF DeliverEffect, IInv
  <2>2. disp'[w].batch = disp[w].batch /\ disp'[w].age = disp[w].age
    BY <2>1 DEF Work
  <2> QED
    BY <2>2 DEF DeliverEffect
<1>2. ASSUME NEW d \in Deliveries, InTime(d) PROVE InTime(d)'
  BY <1>1, <1>2 DEF InTime
<1>3. AttemptsArePaid'
  BY <1>1 DEF PaidInv, AttemptsArePaid
<1> QED
  BY <1>1, <1>2, <1>3 DEF PaidInv

\* finish settles the row, or it is below the limit; other rows keep their holder.
LEMMA FinishPays ==
    ASSUME IInv, PaidInv, NEW w \in Dispatchers, Finish(w)
    PROVE  PaidInv'
<1> DEFINE c == disp[w].cur
           rest == disp[w].batch \ {c}
<1>1. /\ TypeOK /\ FinishEffect(w)
      /\ mishaps' = mishaps /\ mishaps \in Nat
  BY FinishHasEffect, OutboxAssumption DEF IInv, TypeOK, FinishEffect
<1>2. disp' = [disp EXCEPT ![w] = IF rest = {} THEN Polling
                                  ELSE [Polling EXCEPT !.batch = rest, !.age = disp[w].age]]
  BY DEF Finish
<1>3. /\ \A v \in Dispatchers \ {w} : disp'[v] = disp[v]
      /\ disp'[w].batch = rest
      /\ rest = {} => disp'[w].age = 0
      /\ rest # {} => disp'[w].age = disp[w].age
  BY <1>1, <1>2 DEF TypeOK, Polling
<1>4. c \in Claims /\ c \in disp[w].batch /\ c.id \in Deliveries /\ c.attempt \in 1 .. MaxClaims
  BY <1>1, ClaimFields DEF FinishEffect
<1>5. ASSUME NEW d \in Deliveries
      PROVE  /\ row'[d].attempts <= MaxAttempts + mishaps'
             /\ row'[d].state = "pending" => row'[d].attempts < MaxAttempts
             /\ row'[d].state = "delivering" =>
                   row'[d].attempts < MaxAttempts + mishaps' \/ InTime(d)'
  <2>0. row \in [Deliveries -> Rows] /\ row[d] \in Rows
    BY <1>1 DEF TypeOK
  <2>1. CASE d = c.id /\ Fenced(c)
    <3>1. row[d].attempts = c.attempt /\ row[d].attempts <= MaxAttempts + mishaps
      BY <2>1 DEF Fenced, PaidInv, AttemptsArePaid
    <3>2. row'[d] = Recorded(c, w)
      BY <2>0, <2>1, <1>4 DEF Finish, Recorded
    <3>3. CASE disp[w].outcome = "transient" /\ ~ (c.attempt >= MaxAttempts)
      <4>1. row'[d] = Row("pending", c.attempt, Left(Backoff(c.attempt), disp[w].age))
        BY <3>2, <3>3 DEF Recorded, AfterTransient
      <4>2. row'[d].state = "pending" /\ row'[d].attempts = c.attempt
        BY <4>1 DEF Row
      <4> QED
        BY <4>2, <3>1, <3>3, <1>1, <1>4, OutboxAssumption
    <3>4. CASE ~ (disp[w].outcome = "transient" /\ ~ (c.attempt >= MaxAttempts))
      <4>1. \/ row'[d] = [row[d] EXCEPT !.state = "failed"]
            \/ row'[d] = [row[d] EXCEPT !.state = "delivered"]
        BY <1>1, <2>1, <3>2, <3>4 DEF Recorded, AfterTransient, FinishEffect
      <4>2. row'[d].state \in {"failed", "delivered"} /\ row'[d].attempts = row[d].attempts
        BY <4>1, <2>0 DEF Rows
      <4> QED
        BY <4>2, <3>1, <1>1
    <3> QED
      BY <3>3, <3>4
  <2>2. CASE ~ (d = c.id /\ Fenced(c))
    <3>1. row'[d] = row[d]
      BY <2>0, <2>2, <1>4 DEF Finish
    <3>2. CASE row[d].state = "delivering"
      <4>1. InTime(d) => InTime(d)'
        <5> SUFFICES ASSUME NEW v \in Dispatchers, NEW b \in disp[v].batch,
                            b.id = d, b.attempt = row[d].attempts, disp[v].age < Lease
                     PROVE  InTime(d)'
          BY DEF InTime
        <5>1. CASE v # w
          BY <5>1, <1>3, <3>1 DEF InTime
        <5>2. CASE v = w
          <6>1. b # c
            BY <2>2, <3>2 DEF Fenced
          <6>2. b \in rest
            BY <5>2, <6>1
          <6> QED
            BY <5>2, <6>2, <1>3, <3>1 DEF InTime
        <5> QED
          BY <5>1, <5>2
      <4> QED
        BY <1>1, <3>1, <4>1, PaidAsBefore
    <3>3. CASE row[d].state # "delivering"
      BY <1>1, <3>1, <3>3 DEF PaidInv, AttemptsArePaid
    <3> QED
      BY <3>2, <3>3
  <2> QED
    BY <2>1, <2>2
<1>6. \A v \in Dispatchers : disp'[v].batch = {} => disp'[v].age = 0
  BY <1>3 DEF PaidInv
<1> QED
  BY <1>5, <1>6 DEF PaidInv, AttemptsArePaid

\* A mishap pays for all rows whose holders it takes the time.
LEMMA MishapPays ==
    ASSUME IInv, PaidInv, Tick \/ \E w \in Dispatchers : Crash(w)
    PROVE  PaidInv'
<1>1. TypeOK /\ mishaps \in Nat
  BY OutboxAssumption DEF IInv, TypeOK
<1>2. ASSUME NEW w \in Dispatchers, Crash(w) PROVE PaidInv'
  <2>1. /\ mishaps' = mishaps + 1 /\ row' = row
        /\ disp'[w] = Polling
        /\ \A v \in Dispatchers \ {w} : disp'[v] = disp[v]
    BY <1>1, <1>2 DEF Crash, TypeOK
  <2>2. ASSUME NEW d \in Deliveries
        PROVE  /\ row'[d].attempts <= MaxAttempts + mishaps'
               /\ row'[d].state = "pending" => row'[d].attempts < MaxAttempts
               /\ row'[d].state = "delivering" =>
                     row'[d].attempts < MaxAttempts + mishaps' \/ InTime(d)'
    BY <1>1, <2>1, PaidAsBefore
  <2>3. \A v \in Dispatchers : disp'[v].batch = {} => disp'[v].age = 0
    BY <2>1 DEF PaidInv, Polling
  <2> QED
    BY <2>2, <2>3 DEF PaidInv, AttemptsArePaid
<1>3. CASE Tick
  <2>1. TickEffect /\ mishaps' = IF Lapses THEN mishaps + 1 ELSE mishaps
    BY <1>1, <1>3, TickHasEffect DEF Tick
  <2>2. ASSUME NEW v \in Dispatchers
        PROVE  /\ disp[v].age \in Nat /\ disp'[v].age \in Nat /\ disp'[v].batch = disp[v].batch
               /\ disp'[v].age = IF disp[v].batch # {} /\ disp[v].age < Horizon
                                 THEN disp[v].age + 1 ELSE disp[v].age
    <3>1. disp[v] \in Work /\ disp[v].age \in Nat
      BY <1>1, WorkType
    <3>2. disp'[v] = [disp[v] EXCEPT !.age = IF disp[v].batch # {} /\ disp[v].age < Horizon
                                             THEN disp[v].age + 1 ELSE disp[v].age]
      BY <1>3 DEF Tick
    <3> QED
      BY <3>1, <3>2 DEF Work
  <2>3. ASSUME NEW d \in Deliveries, InTime(d), ~ Lapses PROVE InTime(d)'
    <3>1. PICK v \in Dispatchers : \E b \in disp[v].batch :
             b.id = d /\ b.attempt = row[d].attempts /\ disp[v].age < Lease
      BY <2>3 DEF InTime
    <3>2. disp[v].age # Lease - 1
      BY <2>3, <3>1 DEF Lapses
    <3>3. disp'[v].age < Lease
      BY <2>2, <3>1, <3>2, OutboxAssumption
    <3> QED
      BY <2>1, <3>1, <3>3 DEF InTime, TickEffect
  <2>4. ASSUME NEW d \in Deliveries
        PROVE  /\ row'[d].attempts <= MaxAttempts + mishaps'
               /\ row'[d].state = "pending" => row'[d].attempts < MaxAttempts
               /\ row'[d].state = "delivering" =>
                     row'[d].attempts < MaxAttempts + mishaps' \/ InTime(d)'
    <3>1. row'[d].state = row[d].state /\ row'[d].attempts = row[d].attempts
      BY <2>1 DEF TickEffect
    <3>2. mishaps' \in Nat /\ mishaps' >= mishaps /\ (Lapses => mishaps' > mishaps)
      BY <1>1, <2>1
    <3> QED
      BY <1>1, <2>3, <3>1, <3>2, PaidAsBefore
  <2>5. \A v \in Dispatchers : disp'[v].batch = {} => disp'[v].age = 0
    BY <2>2 DEF PaidInv
  <2> QED
    BY <2>4, <2>5 DEF PaidInv, AttemptsArePaid
<1> QED
  BY <1>2, <1>3

LEMMA EnqueuePays ==
    ASSUME IInv, PaidInv, NEW r \in Runs, EnqueueTerminal(r)
    PROVE  PaidInv'
<1>1. UNCHANGED <<disp, mishaps>> /\ mishaps \in Nat
  BY OutboxAssumption DEF EnqueueTerminal, IInv, TypeOK
<1>2. ASSUME NEW d \in Deliveries
      PROVE  row'[d] = row[d] \/ (row'[d].state = "pending" /\ row'[d].attempts = 0)
  BY DEF EnqueueTerminal, Row
<1>3. ASSUME NEW d \in Deliveries, row'[d] = row[d] PROVE InTime(d)' <=> InTime(d)
  BY <1>1, <1>3 DEF InTime
<1> QED
  BY <1>1, <1>2, <1>3, OutboxAssumption DEF PaidInv, AttemptsArePaid

LEMMA PaidIsInductive == IInv /\ PaidInv /\ [Next]_vars => PaidInv'
<1> SUFFICES ASSUME IInv, PaidInv, [Next]_vars PROVE PaidInv'
  OBVIOUS
<1>1. ASSUME UNCHANGED <<row, disp, mishaps>> PROVE PaidInv'
  BY <1>1 DEF PaidInv, AttemptsArePaid, InTime
<1>2. ASSUME NEW w \in Dispatchers, ClaimDue(w) PROVE PaidInv'
  BY <1>2, ClaimDueEffect, ClaimPays DEF IInv
<1>3. ASSUME NEW w \in Dispatchers, NEW c \in disp[w].batch,
             RefuseOrigin(w, c) \/ Send(w, c) \/ RequestLost(w, c)
      PROVE  PaidInv'
  BY <1>3, DeliverHasEffect, DeliverPays DEF IInv
<1>4. ASSUME NEW s \in Subscriptions, Create(s) \/ Revoke(s) PROVE PaidInv'
  BY <1>1, <1>4 DEF Create, Revoke
<1>5. CASE UNCHANGED vars
  BY <1>1, <1>5 DEF vars
<1> QED
  BY <1>2, <1>3, <1>4, <1>5, FinishPays, MishapPays, EnqueuePays DEF Next, DispatchOnce

\* An attempt beyond the limit has been paid for by a mishap, whatever the
\* number of workers and however many deliveries one batch holds.
THEOREM AttemptsHavePrice == Spec => []AttemptsArePaid
<1>1. Init => PaidInv
  BY OutboxAssumption DEF Init, PaidInv, AttemptsArePaid, Polling, NoRow, Row
<1>2. IInv /\ PaidInv /\ [Next]_vars => PaidInv'
  BY PaidIsInductive
<1>3. PaidInv => AttemptsArePaid
  BY DEF PaidInv
<1> QED
  BY <1>1, <1>2, <1>3, InductiveInvariant, PTL DEF Spec

=============================================================================
