-------------------------- MODULE MCWebhookOutbox ---------------------------
EXTENDS WebhookOutbox

CONSTANTS s1, s2, run1, run2, w1, w2

OneSubscription  == {s1}
TwoSubscriptions == {s1, s2}
\* The first subscription listens to every outcome, the others to completed runs.
OwnEvents == [s \in Subscriptions |->
                IF s = s1 THEN TerminalEvents ELSE {"run.completed"}]

OneRun  == {run1}
TwoRuns == {run1, run2}
OneDispatcher  == {w1}
TwoDispatchers == {w1, w2}
=============================================================================
