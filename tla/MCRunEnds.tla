----------------------------- MODULE MCRunEnds ------------------------------
(* A small instance of RunLifecycle on days with faults and on days without. *)
EXTENDS MCRunLifecycle

\* Of webhooks nothing is asked here.
NoEvents == [s \in {} |-> TerminalEvents]

\* CalmSpec on a calm day, FairSpec otherwise.
VARIABLE calm

MCNext ==
    \/ CalmNext /\ UNCHANGED calm
    \/ ~ calm /\ FaultNext /\ UNCHANGED calm

MCInit == Init /\ calm \in BOOLEAN

MCSpec ==
    /\ MCInit
    /\ [][MCNext]_<<vars, calm>>
    /\ WF_vars(WorkflowStep)
    /\ \A a \in Activities : WF_vars(StartAttempt(a))
    /\ \A t \in Attempts : WF_vars((calm \/ IsCurrent(t)) /\ AttemptStep(t))
    /\ \A r \in Requests : WF_vars(calm /\ ApiStep(r))
    /\ WF_vars(calm /\ (Describe \/ SignalCancel))

\* RunSettles, on a calm day: every accepted run is settled, even if it is
\* cancelled at the worst moment and its finalizer loses every race against the
\* attempt that was not waited for.
CalmRunSettles == (calm /\ status # "absent") ~> (status \in TerminalStatuses)
=============================================================================
