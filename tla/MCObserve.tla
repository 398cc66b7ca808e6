----------------------------- MODULE MCObserve -----------------------------
(* What clients observe, part by part: a client that reads events, waits on    *)
(* page events, waits on network events, and snapshots with their references.  *)
EXTENDS Waits, Snapshots

CONSTANTS
    spA, spB, pgA, rq1, rq2, NetworkKind,
    MaxNetwork      \* bound: network events in a behaviour

OnPage == [space |-> spA, page |-> pgA]

\* Events of the page waited for, of a space the client may not see, and the one that
\* closes the stream; requests, their ends and an answer, of two network requests.
Blank ==
    [scope |-> OnPage, kind |-> "page.changed", source |-> "bridge",
     tag |-> "mutation", request |-> None, excluded |-> FALSE, resync |-> FALSE]
PageTemplates ==
    {Blank, [Blank EXCEPT !.tag = "wanted"],
     [Blank EXCEPT !.scope = [space |-> spB, page |-> None]],
     [Blank EXCEPT !.scope = Global, !.resync = TRUE, !.kind = "connection.changed"]}
Network(t, r) ==
    [Blank EXCEPT !.kind = NetworkKind, !.source = "client", !.tag = t, !.request = r]
NetworkTemplates ==
    {Network(t, r) : t \in {"request", "finished"}, r \in {rq1, rq2}} \cup {Network("response", rq1)}

MCTemplates == PageTemplates \cup NetworkTemplates
MCScopes == {Global, OnPage}

VARIABLE part    \* which of them a behaviour is about

observeVars == <<eventVars, waitVars, snapVars, part>>

ObserveInit ==
    /\ EventInit /\ WaitInit /\ SnapInit
    /\ part \in {"reader", "page", "network", "snapshots"}

ObserveNext ==
    \/ part = "reader" /\ ReaderNext /\ UNCHANGED <<snapVars, part>>
    \/ /\ part = "page" /\ WaitNext(Conditions \cap {"event", "stable_dom"}, PageTemplates)
       /\ UNCHANGED <<snapVars, part>>
    \/ /\ part = "network"
       /\ WaitNext(Conditions \cap {"response", "network_idle"},
                   IF Len(log) < MaxNetwork THEN NetworkTemplates ELSE {})
       /\ UNCHANGED <<snapVars, part>>
    \/ part = "snapshots" /\ SnapNext /\ UNCHANGED <<eventVars, waitVars, part>>

ObserveSpec == ObserveInit /\ [][ObserveNext]_observeVars
=============================================================================
