----------------------------- MODULE Admission -----------------------------
(***************************************************************************)
(* What the session owner relies on when it closes the gateway before it    *)
(* takes a GPU away (lib/workstation/service_session.py, session.sh): work  *)
(* begins only while a model is open, at most Limit pieces are under way,   *)
(* a closed gateway only gets quieter, and work under way ends.             *)
(***************************************************************************)
EXTENDS Naturals, FiniteSets

CONSTANTS Requests, Models, NoModel, Limit

VARIABLES
    open,          \* the model whose requests may begin, or NoModel
    busy           \* the requests whose backend call is under way

vars == <<open, busy>>

Init ==
    /\ open = NoModel
    /\ busy = {}

SetOpen(model) ==
    /\ open' = model
    /\ UNCHANGED busy

Begin(r) ==
    /\ open # NoModel
    /\ r \notin busy
    /\ Cardinality(busy) < Limit
    /\ busy' = busy \union {r}
    /\ UNCHANGED open

Finish(r) ==
    /\ r \in busy
    /\ busy' = busy \ {r}
    /\ UNCHANGED open

Reset ==
    /\ open' = NoModel
    /\ busy' = {}

Next ==
    \/ \E model \in Models \union {NoModel} : SetOpen(model)
    \/ \E r \in Requests : Begin(r) \/ Finish(r)
    \/ Reset

Spec == Init /\ [][Next]_vars

FairSpec == Spec /\ \A r \in Requests : WF_vars(Finish(r))
=============================================================================
