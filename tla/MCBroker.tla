------------------------------ MODULE MCBroker ------------------------------
(* The broker on small instances; some look at a part of its operations. *)
EXTENDS BrokerClaims, TLC

CONSTANTS c1, c2, alice, bob, p1, p2, a1, a2

MCConns == {c1, c2}
MCPrincipals == {alice, bob}
\* Two sessions of one client, or one session of each of two clients.
OneClient == [c \in MCConns |-> alice]
OneSession == [c \in {c1} |-> alice]
TwoClients == [c \in MCConns |-> IF c = c1 THEN alice ELSE bob]

\* The sessions of one client are interchangeable.
SwapSessions == Permutations(MCConns)

\* Who holds the space: leases, fences and tickets.
LeaseSpec == Init /\ [][HostNext \/ LeaseNext]_vars

\* What is done to the space: actions racing leases, fences and restarts, on pages
\* made by create_managed_page.
ManagedPages ==
    \/ \E c \in Conns, p \in Pages : CreateManagedPage(c, p)
    \/ \E o \in creating : BridgeCreatePage(o) \/ BindManagedPage(o)
ActionSpec == Init /\ [][HostNext \/ LeaseNext \/ ManagedPages \/ ActionNext]_vars
FairActionSpec == ActionSpec /\ DispatchProgress

\* How it ends: finish, release and prune, racing takeovers, pages and actions.
FinishSpec ==
    Init /\ [][LeaseNext \/ PageNext \/ FinishNext \/ ActionNext \/ \E c \in Conns : Hello(c)]_vars

\* A client that keeps retrying the fence it has pending.
RetrySpec ==
    /\ Init /\ [][LeaseNext \/ ManagedPages \/ \E c \in Conns : Hello(c)]_vars
    /\ FenceProgress
    /\ \A c \in Conns : WF_vars(AcknowledgeFence(c))
=============================================================================
