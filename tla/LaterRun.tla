------------------------------ MODULE LaterRun ------------------------------
(***************************************************************************)
(* What a request for a reconciliation is promised, however requests are   *)
(* coalesced: it is answered only by a run that began after it was made,   *)
(* and whom a run answers is settled when it begins.                       *)
(***************************************************************************)
CONSTANT Callers

VARIABLES
    waiting,  \* callers with a request that is not settled
    serving,  \* those the run now under way will answer
    answered  \* callers whose last request a run has answered

laterVars == <<waiting, serving, answered>>

LaterInit ==
    /\ waiting = {} /\ serving = {} /\ answered = {}

Ask(c) ==
    /\ c \notin waiting
    /\ waiting' = waiting \cup {c}
    /\ answered' = answered \ {c}
    /\ UNCHANGED serving

\* a request turned away at the door
Refuse(c) ==
    /\ c \notin waiting
    /\ answered' = answered \ {c}
    /\ UNCHANGED <<waiting, serving>>

\* the run under way ends, with or without answers, and the next one begins
Turn ==
    \E done \in SUBSET serving :
        /\ waiting' = waiting \ done
        /\ answered' = answered \cup done
        /\ serving' \in SUBSET waiting'

\* requests end unanswered: abandoned, or their run failed or was cancelled
GiveUp ==
    \E lost \in SUBSET waiting :
        /\ waiting' = waiting \ lost
        /\ serving' = serving \ lost
        /\ UNCHANGED answered

LaterNext == (\E c \in Callers : Ask(c) \/ Refuse(c)) \/ Turn \/ GiveUp

LaterSpec == LaterInit /\ [][LaterNext]_laterVars
=============================================================================
