---------------------------- MODULE BrokerState ----------------------------
(***************************************************************************)
(* The state the broker keeps for one logical space, in the ledger and in  *)
(* memory, and the checks its operations share (agentyc-host/src/broker.rs *)
(* and ledger.rs).  Every broker operation concerns one space.             *)
(*                                                                         *)
(* A `with_inner` block runs under the broker's mutex, and `Ledger::update`*)
(* undoes it if it fails: each is one atomic step here.  Operations that   *)
(* call the bridge leave the lock in between, so they are several steps;   *)
(* the set of operations in flight is part of the state.                   *)
(***************************************************************************)
EXTENDS Sequences, FiniteSets, CdpBridge

CONSTANTS
    Conns,               \* connections a client may open
    Principals,
    PrincipalOf,         \* PrincipalOf[c]: the principal connection c presents
    NoOne,               \* no connection, no principal
    ReadOnlyActions,     \* the actions whose operation is Wait or Screenshot
    MaxQueuedActions,    \* LedgerLimits::max_queued_actions_per_space
    MaxQueuedMutations,  \* SchedulerLimits::max_queued_mutations_per_space
    CanReconcile,        \* the bridge offers Capability::Reconcile
    LedgerMayFail,       \* a ledger write may fail in the middle of an operation
    HostMayDegrade,      \* bridge outages are announced to the broker
    MaxEpoch,            \* bound on lease epochs
    MaxBrokerEpoch,      \* bound on restarts
    MaxInFlight          \* bound on operations that are outside the lock at a time

ASSUME BrokerAssumption ==
    /\ PrincipalOf \in [Conns -> Principals]
    /\ NoOne \notin Conns
    /\ NoOne \notin Principals
    /\ ReadOnlyActions \subseteq Actions
    /\ CloseActions \subseteq Actions \ ReadOnlyActions
    /\ MaxQueuedActions \in Nat
    /\ MaxQueuedMutations \in Nat
    /\ MaxEpoch \in Nat
    /\ MaxBrokerEpoch \in Nat \ {0}
    /\ MaxInFlight \in Nat
    /\ CanReconcile \in BOOLEAN
    /\ LedgerMayFail \in BOOLEAN
    /\ HostMayDegrade \in BOOLEAN
    /\ ExtensionAttached \in BOOLEAN

VARIABLES
    \* In memory, gone after a restart.
    host,          \* HostLifecycle
    conn,          \* active_connections: new, live or dead
    holder,        \* lease_holders: the connection the lease is bound to
    \* In the ledger.
    brokerEpoch,
    lifecycle,     \* SpaceLifecycle, "Absent" before and "Pruned" after the space exists
    owner,
    lease,         \* [state, epoch, principal, expired]
    pending,       \* pending_fences
    ticket,        \* control_tickets: fence epoch of the current ticket, 0 without one
    proofs,        \* takeover_proofs
    page,          \* [lc, own, bind] of each page
    receipt,       \* [status, epoch, page, recon] of each action
    queue,         \* action_queues
    \* Control tickets handed out to clients, and those accepted.
    issued,
    spent,
    \* The largest lease epoch whose fence the broker saw acknowledged.
    barrier,
    \* Operations between two of their critical sections.
    fencing,
    creating,
    closing,
    finishing,
    dispatching,
    reconciling

memoryVars == <<host, conn, holder>>
authorityVars == <<lifecycle, owner, lease, pending, ticket, proofs, issued, spent, barrier>>
actionVars == <<receipt, queue>>
opVars == <<fencing, creating, closing, finishing, dispatching, reconciling>>
vars == <<memoryVars, brokerEpoch, authorityVars, page, actionVars, bridgeVars, opVars>>

-----------------------------------------------------------------------------
(* Values.                                                                 *)

HostStates == {"Ready", "Degraded", "Recovering", "Stopped"}

SpaceStates ==
    {"Absent", "Created", "AgentOwned", "FencePending", "UserOwned", "Paused",
     "HandoffRequested", "Draining", "Orphaned", "Finished", "Released", "Pruned"}

LeaseStates == {"None", "Active", "Fenced", "Released"}
Leases == [state : LeaseStates, epoch : Nat, principal : Principals \cup {NoOne},
           expired : BOOLEAN]
NoLease == [state |-> "None", epoch |-> 0, principal |-> NoOne, expired |-> FALSE]
ActiveLease(p, e) == [state |-> "Active", epoch |-> e, principal |-> p, expired |-> FALSE]

Fences == [purpose : {"None", "Takeover", "ReturnControl"}, old : Nat, new : Nat,
           principal : Principals \cup {NoOne}]
NoFence == [purpose |-> "None", old |-> 0, new |-> 0, principal |-> NoOne]

Tickets == [fence : Nat, broker : Nat]
Proofs == [previous : Nat, current : Nat, principal : Principals]

PageRecords == [lc : {"Absent", "Planned", "Managed", "Closing", "Closed", "TargetLost",
                      "UserOwned"},
                own : {"Agent", "User", "Broker"},
                bind : {"Unbound", "Bound", "UserOwned", "Lost", "Closed"}]
PageIn(lc, own, bind) == [lc |-> lc, own |-> own, bind |-> bind]
AbsentPage == PageIn("Absent", "Agent", "Unbound")
PlannedPage == PageIn("Planned", "Agent", "Unbound")
ManagedPage == PageIn("Managed", "Agent", "Bound")
ClosedPage == PageIn("Closed", "Broker", "Closed")
UserPage == PageIn("UserOwned", "User", "UserOwned")
LostPage(r) == [r EXCEPT !.lc = "TargetLost", !.bind = "Lost"]

\* PageDescriptor::admits_agent_mutations.
AdmitsMutations(p) == page[p] = ManagedPage

Receipts == [status : {"Absent", "Queued", "Running", "Succeeded", "Failed", "Cancelled",
                       "Unknown"},
             epoch : Nat,
             page : Pages \cup {NoOne},
             recon : {"NotRequired", "Required", "InProgress", "Reconciled",
                      "RequiresConfirmation"}]
NoReceipt == [status |-> "Absent", epoch |-> 0, page |-> NoOne, recon |-> "NotRequired"]

\* Operations in flight, with what they captured before they left the lock.
FenceOps == [at : {"fence", "rebind", "finish", "settle"}, conn : Conns,
             purpose : {"Takeover", "ReturnControl"}, old : Nat, new : Nat,
             acked : BOOLEAN, then : {"AgentOwned", "Paused", "HandoffRequested"}]
CreateOps == [at : {"bridge", "bind"}, conn : Conns, epoch : Nat, page : Pages]
CloseOps == [at : {"bridge", "closed", "failed"}, conn : Conns, epoch : Nat, page : Pages]
FinishOps == [at : {"list", "sweep", "cleanup", "close", "closed", "lost"}, conn : Conns,
              epoch : Nat, todo : SUBSET Pages, page : Pages \cup {NoOne}]
DispatchOps == [at : {"admit", "wait", "recheck", "bridge", "finish"}, conn : Conns,
                action : Actions, epoch : Nat, page : Pages,
                outcome : {"None", "Succeeded", "Failed", "Unknown"}]
ReconcileOps == [conn : Conns, action : Actions, epoch : Nat]

\* Each piece of state has the shape of the record or map it stands for.
TypeOK ==
    /\ BridgeTypeOK
    /\ host \in HostStates
    /\ conn \in [Conns -> {"new", "live", "dead"}]
    /\ holder \in Conns \cup {NoOne}
    /\ brokerEpoch \in Nat
    /\ lifecycle \in SpaceStates
    /\ owner \in Principals \cup {NoOne}
    /\ lease \in Leases
    /\ pending \in Fences
    /\ ticket \in Nat
    /\ proofs \subseteq Proofs
    /\ page \in [Pages -> PageRecords]
    /\ receipt \in [Actions -> Receipts]
    /\ queue \in Seq(Actions)
    /\ issued \subseteq Tickets
    /\ spent \subseteq Tickets
    /\ barrier \in Nat
    /\ fencing \subseteq FenceOps
    /\ creating \subseteq CreateOps
    /\ closing \subseteq CloseOps
    /\ finishing \subseteq FinishOps
    /\ dispatching \subseteq DispatchOps
    /\ reconciling \subseteq ReconcileOps

Init ==
    /\ BridgeInit
    /\ host = "Ready"
    /\ conn = [c \in Conns |-> "new"]
    /\ holder = NoOne
    /\ brokerEpoch = 1
    /\ lifecycle = "Absent"
    /\ owner = NoOne
    /\ lease = NoLease
    /\ pending = NoFence
    /\ ticket = 0
    /\ proofs = {}
    /\ page = [p \in Pages |-> AbsentPage]
    /\ receipt = [a \in Actions |-> NoReceipt]
    /\ queue = <<>>
    /\ issued = {}
    /\ spent = {}
    /\ barrier = 0
    /\ fencing = {}
    /\ creating = {}
    /\ closing = {}
    /\ finishing = {}
    /\ dispatching = {}
    /\ reconciling = {}

-----------------------------------------------------------------------------
(* Checks.                                                                 *)

Ready == host = "Ready"

\* authority_is_current.
Live(c) == conn[c] = "live"

\* authorize_space without the expiry check and without `mutation`.
HoldsLease(c, e) ==
    /\ Live(c)
    /\ lease.principal = PrincipalOf[c]
    /\ holder = c
    /\ lease.epoch = e
    /\ lease.state = "Active"

\* authorize_space(.., mutation = true), at the start of an operation.
AuthorizeSpace(c, e) == HoldsLease(c, e) /\ ~lease.expired /\ lifecycle = "AgentOwned"

\* The same check later in the operation: `now` was read once, at the start, so
\* a lease that was not expired then does not expire for this operation.
StillAuthorized(c, e) == HoldsLease(c, e) /\ lifecycle = "AgentOwned"

\* authorize_finish_claim.
FinishClaim(c, e, allowDraining) ==
    /\ HoldsLease(c, e)
    /\ owner = PrincipalOf[c]
    /\ lifecycle = "AgentOwned" \/ (allowDraining /\ lifecycle = "Draining")

\* Room for one more operation in flight.
Room == Cardinality(fencing) + Cardinality(creating) + Cardinality(closing)
        + Cardinality(finishing) + Cardinality(dispatching) + Cardinality(reconciling)
        < MaxInFlight

Exists == lifecycle \notin {"Absent", "Pruned"}

Mutating(a) == a \notin ReadOnlyActions

\* validate_state refuses a queued mutation whose page does not admit mutations,
\* so Ledger::update undoes a step that would leave one behind.
QueuedOn(p) == \E a \in Actions :
    receipt[a].status = "Queued" /\ receipt[a].page = p /\ Mutating(a)

\* space_has_unresolved_actions.
Unresolved(a) ==
    \/ receipt[a].status \in {"Queued", "Running", "Unknown"}
    \/ receipt[a].recon = "RequiresConfirmation"

\* return_control, takeover: cancel the queue, and what runs becomes unknown.
InterruptedReceipts ==
    [a \in Actions |->
        IF receipt[a].status = "Queued" THEN [receipt[a] EXCEPT !.status = "Cancelled"]
        ELSE IF receipt[a].status = "Running"
        THEN [receipt[a] EXCEPT !.status = "Unknown", !.recon = "Required"]
        ELSE receipt[a]]
=============================================================================
