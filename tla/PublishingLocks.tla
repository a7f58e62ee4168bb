--------------------------- MODULE PublishingLocks ---------------------------
(***************************************************************************)
(* What the transactions of drafts, versions and publication wait for      *)
(* (repositories publishing.py, agents.py and drafts.py).  Publishing says *)
(* what they write; this module says in which order they take their locks, *)
(* one statement after the other, and that no order closes a circle.       *)
(*                                                                         *)
(* Whatever a transaction locks it keeps until it commits or rolls back;   *)
(* what it holds already it is given again.  Three kinds of things block:  *)
(*   advisory locks    pg_advisory_xact_lock                               *)
(*   rows              SELECT ... FOR UPDATE, of a row that exists         *)
(*   places            a unique constraint makes an INSERT wait for the    *)
(*                     transaction that has inserted the same key          *)
(* The rows that foreign keys name are locked in share mode, which only    *)
(* the deletion of a workspace, a project or an agent waits for.           *)
(***************************************************************************)
EXTENDS Naturals, Sequences

CONSTANTS
    Agents,         \* agents of one public key, in different projects
    Transactions    \* requests that the database serves at one time

VARIABLES
    rows,           \* the drafts and pointers that are stored
    tx              \* what each transaction does, how far it is, what it holds

vars == <<rows, tx>>

-----------------------------------------------------------------------------
(* What each transaction locks, in the order of its statements.            *)

M_ActivateOrder == <<"pointer", "publish", "new_pointer">>  \* the row first

ImportOrder   == <<"import", "new_agent", "new_version">>
ActivateOrder == <<"publish", "pointer", "new_pointer">>
CreateOrder   == <<"create", "new_draft">>
UpdateOrder   == <<"draft">>
PublishOrder  == <<"publish", "draft", "key", "pointer", "new_version", "new_pointer">>
RollbackOrder == <<"publish", "pointer">>

Kinds == {"import", "activate", "create", "update", "publish", "rollback"}
Order(k) == CASE k = "import"   -> ImportOrder
              [] k = "activate" -> ActivateOrder
              [] k = "create"   -> CreateOrder
              [] k = "update"   -> UpdateOrder
              [] k = "publish"  -> PublishOrder
              [] k = "rollback" -> RollbackOrder

Names == {"import", "publish", "create", "key",         \* advisory locks
          "draft", "pointer",                           \* rows
          "new_agent", "new_version", "new_draft", "new_pointer"}

\* The key lock is one for all projects, every other lock is of one agent.
Global == "key"
Locks == {<<n, a>> : n \in Names \ {"key"}, a \in Agents} \cup {<<"key", Global>>}
Lock(n, a) == IF n = "key" THEN <<n, Global>> ELSE <<n, a>>

-----------------------------------------------------------------------------
Idle == [kind |-> "none", agent |-> Global, step |-> 0, holds |-> {}]

Running(t) == tx[t].kind # "none"
Done(t) == Running(t) /\ tx[t].step > Len(Order(tx[t].kind))

\* The next lock of a transaction that is not done.
NextName(t) == Order(tx[t].kind)[tx[t].step]
NextLock(t) == Lock(NextName(t), tx[t].agent)

\* t needs what u holds.
WaitsFor(t, u) ==
    /\ Running(t) /\ ~ Done(t)
    /\ t # u /\ NextLock(t) \in tx[u].holds

Waits(t) == \E u \in Transactions : WaitsFor(t, u)

\* A row that is not there is not locked; what is there is not inserted.
TakesNothing(t) ==
    LET a == tx[t].agent IN
    CASE NextName(t) = "draft"       -> <<"draft", a>> \notin rows
      [] NextName(t) = "pointer"     -> <<"pointer", a>> \notin rows
      [] NextName(t) = "new_draft"   -> <<"draft", a>> \in rows
      [] NextName(t) = "new_pointer" -> <<"pointer", a>> \in rows
      [] OTHER -> FALSE

-----------------------------------------------------------------------------
Init ==
    /\ rows = {}
    /\ tx = [t \in Transactions |-> Idle]

\* The transaction comes to a statement, with what it holds then.
ComesTo(t, k, a, n, held) ==
    tx' = [tx EXCEPT ![t] = [kind |-> k, agent |-> a, step |-> n, holds |-> held]]
GoesOn(t, held) == ComesTo(t, tx[t].kind, tx[t].agent, tx[t].step + 1, held)

Begin(t) ==
    /\ ~ Running(t)
    /\ \E k \in Kinds, a \in Agents : ComesTo(t, k, a, 1, {})
    /\ UNCHANGED rows

Take(t) ==
    /\ Running(t) /\ ~ Done(t) /\ ~ TakesNothing(t)
    /\ ~ Waits(t)
    /\ GoesOn(t, tx[t].holds \cup {NextLock(t)})
    /\ UNCHANGED rows

\* Nothing to lock; or an agent or a document that is stored already.
Pass(t) ==
    /\ Running(t) /\ ~ Done(t)
    /\ TakesNothing(t) \/ NextName(t) \in {"new_agent", "new_version"}
    /\ GoesOn(t, tx[t].holds)
    /\ UNCHANGED rows

\* What a transaction holds while the row that it has inserted is its own.
Insertion(r) == IF r[1] = "draft" THEN <<"new_draft", r[2]>> ELSE <<"new_pointer", r[2]>>

\* What has been inserted is stored, and every lock is free.
Commit(t) ==
    /\ Done(t)
    /\ rows' = rows \cup
          {r \in {"draft", "pointer"} \X {tx[t].agent} : Insertion(r) \in tx[t].holds}
    /\ tx' = [tx EXCEPT ![t] = Idle]

\* A check refuses the request, a constraint the insertion, the answer needs
\* no write, or the server fails: whatever was locked is free.
Leave(t) ==
    /\ Running(t) /\ ~ Waits(t)
    /\ tx' = [tx EXCEPT ![t] = Idle]
    /\ UNCHANGED rows

Next == \E t \in Transactions :
    Begin(t) \/ Take(t) \/ Pass(t) \/ Commit(t) \/ Leave(t)

Spec == Init /\ [][Next]_vars

-----------------------------------------------------------------------------
(* Properties.                                                             *)

TypeOK ==
    /\ rows \subseteq {"draft", "pointer"} \X Agents
    /\ \A t \in Transactions :
          \/ tx[t] = Idle
          \/ /\ tx[t] \in [kind : Kinds, agent : Agents, step : Nat \ {0}, holds : SUBSET Locks]
             /\ tx[t].step \in 1 .. Len(Order(tx[t].kind)) + 1

\* No circle of waiting closes: of the transactions of any group there is one
\* that waits for none of the others, whatever publications, rollbacks,
\* activations, imports and savings are under way.  PostgreSQL would break a
\* circle only by aborting one of its transactions.
NoCircle ==
    \A group \in (SUBSET Transactions) \ {{}} :
        \E t \in group : \A u \in group : ~ WaitsFor(t, u)
=============================================================================
