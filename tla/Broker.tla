------------------------------- MODULE Broker -------------------------------
(***************************************************************************)
(* The broker: leases and fences, pages, the end of a space and actions,   *)
(* over one ledger and one bridge; and what it must guarantee.             *)
(***************************************************************************)
EXTENDS BrokerLease, BrokerFinish, BrokerActions

Next == HostNext \/ LeaseNext \/ PageNext \/ FinishNext \/ ActionNext

Spec == Init /\ [][Next]_vars

\* A request in flight is a thread of the host: it is scheduled, its bridge calls
\* have deadlines, and it returns.  Nothing is assumed of clients, of time passing
\* or of crashes.
DispatchProgress ==
    \A a \in Actions :
        /\ WF_vars(\E o \in dispatching :
                     o.action = a /\ (BridgeDispatch(o) \/ BridgeDispatchFails(o)))
        /\ WF_vars(\E o \in dispatching : o.action = a /\ FinishDispatch(o))

FenceProgress ==
    /\ WF_vars(\E o \in fencing : BridgeFence(o))
    /\ WF_vars(\E o \in fencing : RebindPages(o))
    /\ WF_vars(\E o \in fencing : FinishFence(o) \/ FinishUserReturn(o) \/ FenceEnds(o))

FairSpec == Spec /\ DispatchProgress /\ FenceProgress

-----------------------------------------------------------------------------
(* The ledger.                                                             *)

LeaseMatchesLifecycle ==
    /\ lifecycle \in {"Absent", "Pruned", "Created"} => lease.state = "None"
    /\ lifecycle = "AgentOwned" => lease.state = "Active" /\ lease.principal = owner
    /\ lifecycle = "FencePending" => /\ lease.state \in {"Active", "Fenced"}
                                     /\ lease.principal = owner
                                     /\ pending # NoFence
    /\ lifecycle = "UserOwned" => lease.state = "Released" /\ ticket # 0
    /\ lifecycle = "Orphaned" => lease.state \in {"Fenced", "Released"}
    /\ lifecycle \in {"Released", "Finished", "Paused"} => lease.state # "Active"
    /\ lifecycle \in {"HandoffRequested", "Draining"} => lease.state # "None"

TicketMatchesSpace == ticket # 0 => lifecycle = "UserOwned" /\ ticket = lease.epoch

FenceMatchesLease ==
    pending # NoFence =>
        /\ lifecycle = "FencePending"
        /\ pending.new = lease.epoch
        /\ pending.old < pending.new
        /\ pending.principal = lease.principal
        /\ lease.state = IF pending.purpose = "Takeover" THEN "Active" ELSE "Fenced"

ProofsMatchLease ==
    \A q \in proofs :
        /\ q.previous < q.current
        /\ q.principal = owner
        /\ q.current = lease.epoch => lease.state = "Active" /\ lease.principal = q.principal

QueueMatchesReceipts ==
    /\ Len(queue) <= MaxQueuedActions
    /\ \A i, j \in DOMAIN queue : queue[i] = queue[j] => i = j
    /\ \A a \in Actions : receipt[a].status = "Queued" <=> \E i \in DOMAIN queue : queue[i] = a

\* ActionReceipt::validate_invariants: which reconciliation states go with a status.
ReconciliationFits(r) ==
    CASE r.status = "Succeeded" -> r.recon \in {"NotRequired", "Reconciled"}
      [] r.status = "Failed" -> r.recon \in {"NotRequired", "Reconciled", "RequiresConfirmation"}
      [] r.status = "Unknown" -> r.recon \in {"Required", "InProgress", "RequiresConfirmation"}
      [] OTHER -> r.recon = "NotRequired"

ReceiptsValid ==
    /\ \A a, b \in Actions \ ReadOnlyActions :
          receipt[a].status = "Running" /\ receipt[b].status = "Running" => a = b
    /\ \A a \in Actions : ReconciliationFits(receipt[a])
    /\ \A a \in Actions \ ReadOnlyActions :
          receipt[a].status = "Queued" => AdmitsMutations(receipt[a].page)

PagesValid ==
    \A p \in Pages :
        \/ page[p] \in {AbsentPage, PlannedPage, ManagedPage, ClosedPage, UserPage,
                        PageIn("Closing", "Agent", "Bound")}
        \/ page[p].lc = "TargetLost" /\ page[p].bind = "Lost"

\* The rules of validate_state about who holds a space: no interleaving of leases,
\* fences, tickets, expiry, disconnects and restarts leaves a lease, a pending
\* fence, a ticket or a takeover proof that does not fit the space's lifecycle.
AuthorityValid ==
    /\ LeaseMatchesLifecycle
    /\ TicketMatchesSpace
    /\ FenceMatchesLease
    /\ ProofsMatchLease

\* The rules of validate_state, which Ledger::update applies after every
\* operation and which make it refuse the write: no interleaving of operations,
\* restarts and bridge events reaches a state that breaks one, so that none of
\* the broker's operations is ever undone by another one's leftovers.
LedgerValid == AuthorityValid /\ QueueMatchesReceipts /\ ReceiptsValid /\ PagesValid

-----------------------------------------------------------------------------
(* Actions.                                                                *)

\* The browser performs an action at most once, never one that is still queued
\* or was cancelled, and a receipt says Succeeded only if it was performed:
\* fences, restarts, lost answers and reconciliation do not replay it.
ExecutionMatchesReceipt ==
    \A a \in Actions :
        /\ executed[a] <= 1
        /\ receipt[a].status \in {"Queued", "Cancelled"} => executed[a] = 0
        /\ receipt[a].status = "Succeeded" => executed[a] = 1

\* A settled receipt does not change while its space exists, and an unknown
\* outcome is settled by reconciliation only: a dispatch that comes back after a
\* fence cannot overwrite what was found out meanwhile.
OutcomesFinal ==
    [][\A a \in Actions : lifecycle' # "Pruned" =>
          /\ receipt[a].status \in {"Succeeded", "Failed", "Cancelled"} => receipt'[a] = receipt[a]
          /\ receipt[a].status = "Unknown" /\ receipt'[a].status # "Unknown" =>
                \E o \in reconciling \ reconciling' : o.action = a]_vars

\* A space that is being fenced, is the user's, or was orphaned by a restart has
\* no work queued or running under the old authority.
FenceStopsWork ==
    lifecycle \in {"FencePending", "UserOwned", "Orphaned"} =>
        /\ queue = <<>>
        /\ \A a \in Actions : receipt[a].status \notin {"Queued", "Running"}

\* The mutation permit of the space is out at most once, also while the action of
\* an earlier lease is still in the bridge.
OneMutationInBridge ==
    \A o, q \in dispatching :
        /\ Mutating(o.action) /\ o.at \in {"recheck", "bridge", "finish"}
        /\ Mutating(q.action) /\ q.at \in {"recheck", "bridge", "finish"}
        => o = q

\* Once the bridge has acknowledged a fence, no action issued under the fenced
\* epoch has an effect any more, however late its dispatch reaches the bridge.
FenceBarrier ==
    [][\A a \in Actions : executed'[a] # executed[a] => receipt[a].epoch > barrier]_vars

\* Once the bridge is asked to perform an action, its receipt does not stay
\* Running: whatever happens to the lease meanwhile, an outcome is recorded.
OutcomeRecorded ==
    \A a \in Actions :
        (\E o \in dispatching : o.action = a /\ o.at = "bridge") ~> receipt[a].status # "Running"

-----------------------------------------------------------------------------
(* Authority.                                                              *)

\* Taking a space from the user consumes a control ticket that was never accepted
\* before, across restarts as well.
TicketSingleUse ==
    [][ticket # 0 /\ ticket' = 0 => \E t \in spent' \ spent : t.fence = ticket]_vars

\* A finished or released space has no page the agent still manages or was
\* closing, and no action whose outcome is open.
FinishedIsClean ==
    lifecycle \in {"Finished", "Released"} =>
        (\A p \in Pages : ~Unclosed(p)) /\ (\A a \in Actions : ~Unresolved(a))

Mode ==
    CASE lifecycle = "UserOwned" -> "user"
      [] lifecycle = "FencePending" -> "fencing"
      [] lifecycle \in {"AgentOwned", "Draining"} -> "agent"
      [] lifecycle = "Pruned" -> "gone"
      [] OTHER -> "free"

Authority == INSTANCE SpaceAuthority WITH
    Sessions <- Conns, Nobody <- NoOne, mode <- Mode, session <- holder,
    epoch <- lease.epoch, lapsed <- lease.expired, ticket <- ticket

\* The broker's leases, fences and tickets implement SpaceAuthority: one holder at
\* a time, a new epoch for every holder, and the user's space only for a ticket.
ImplementsSpaceAuthority == Authority!Spec
=============================================================================
