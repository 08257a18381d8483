----------------------------- MODULE Ownership -----------------------------
(* What the campaign controllers promise about the cards, whatever the number
   of campaigns, requests and failures: the cards are held for one request at a
   time, nothing runs on them for any other request, a request runs at most
   once, and they are given back only when nothing runs.                     *)
CONSTANTS Jobs, None   \* None is no request

VARIABLES
    holder,   \* the request the newest checkpoint is open for
    running,  \* requests whose owner is on the cards
    served    \* requests whose owner has been started

Init == holder = None /\ running = {} /\ served = {}

Hold(j) ==
    /\ holder = None
    /\ holder' = j
    /\ UNCHANGED <<running, served>>

Start(j) ==
    /\ holder = j
    /\ j \notin served
    /\ running' = running \union {j}
    /\ served' = served \union {j}
    /\ UNCHANGED holder

Stop(j) ==
    /\ j \in running
    /\ running' = running \ {j}
    /\ UNCHANGED <<holder, served>>

GiveBack ==
    /\ holder \notin running
    /\ holder' = None
    /\ UNCHANGED <<running, served>>

Next ==
    \/ \E j \in Jobs : Hold(j) \/ Start(j) \/ Stop(j)
    \/ GiveBack

Spec == Init /\ [][Next]_<<holder, running, served>>
=============================================================================
