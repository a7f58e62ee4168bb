------------------------------ MODULE MCRunApi ------------------------------
(* Two stories of RunLifecycle that are told apart from the start.  In the   *)
(* "race" two requests come with one key, nobody has a webhook, and no       *)
(* finalizer is attempted twice.  In the other, one request comes, and the   *)
(* end of its run may be stored "again" while webhooks come and go.          *)
EXTENDS MCRunLifecycle

VARIABLE story

Race  == UNCHANGED sub /\ \A s \in FinalStatuses : act'[s].no <= 1
Again == \E r \in Requests : \A q \in Requests \ {r} : api'[q] = "idle"

MCNext ==
    /\ Next
    /\ story = "race" => Race
    /\ story = "again" => Again
    /\ UNCHANGED story

MCInit == Init /\ story \in {"race", "again"}
MCSpec == MCInit /\ [][MCNext]_<<vars, story>>
=============================================================================
