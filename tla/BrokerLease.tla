---------------------------- MODULE BrokerLease ----------------------------
(***************************************************************************)
(* Connections, the host's lifecycle, leases and fences.                   *)
(*                                                                         *)
(* Taking authority away is a fence: the ledger first raises the lease     *)
(* epoch and enters FencePending, then the bridge is asked to stamp its    *)
(* pages with the new epoch, and only an acknowledgement that still        *)
(* matches the pending record hands the space on.  The request token of a  *)
(* fence is a function of its epoch and purpose and is not kept apart.     *)
(***************************************************************************)
EXTENDS BrokerState

otherOps == <<creating, closing, finishing, dispatching, reconciling>>

-----------------------------------------------------------------------------
(* Connections and the host.                                               *)

\* hello: a fresh nonce gets a fresh connection epoch.
Hello(c) ==
    /\ conn[c] = "new"
    /\ conn' = [conn EXCEPT ![c] = "live"]
    /\ UNCHANGED <<host, holder, brokerEpoch, authorityVars, page, actionVars, bridgeVars, opVars>>

\* disconnect forgets the connection and nothing else: the lease stays bound to it.
Disconnect(c) ==
    /\ Live(c)
    /\ conn' = [conn EXCEPT ![c] = "dead"]
    /\ UNCHANGED <<host, holder, brokerEpoch, authorityVars, page, actionVars, bridgeVars, opVars>>

\* mark_degraded, begin_recovery, mark_ready.
HostTransition ==
    /\ HostMayDegrade
    /\ \/ host \in {"Ready", "Recovering"} /\ host' = "Degraded"
       \/ host = "Degraded" /\ host' = "Recovering"
       \/ host = "Recovering" /\ host' = "Ready"
    /\ UNCHANGED <<conn, holder, brokerEpoch, authorityVars, page, actionVars, bridgeVars, opVars>>

\* shutdown: what runs becomes unknown; requests already past their last check
\* of the host's lifecycle go on.
Shutdown ==
    /\ host # "Stopped"
    /\ host' = "Stopped"
    /\ receipt' = [a \in Actions |->
                     IF receipt[a].status = "Running"
                     THEN [receipt[a] EXCEPT !.status = "Unknown", !.recon = "Required"]
                     ELSE receipt[a]]
    /\ UNCHANGED <<conn, holder, brokerEpoch, authorityVars, page, queue, bridgeVars, opVars>>

Interrupted == {"AgentOwned", "HandoffRequested", "Draining", "FencePending"}

RecoverActions ==
    /\ receipt' =
         IF lifecycle \in Interrupted
         THEN InterruptedReceipts
         ELSE [a \in Actions |->
                  IF receipt[a].status = "Running"
                  THEN [receipt[a] EXCEPT !.status = "Unknown", !.recon = "Required"]
                  ELSE receipt[a]]
    /\ queue' = IF lifecycle \in Interrupted THEN <<>> ELSE queue

\* Altered: the lease of the previous run stays active.
RecoverLeaseKept == UNCHANGED lease

RecoverLease ==
    lease' = IF lease.state = "Active" THEN [lease EXCEPT !.state = "Fenced"] ELSE lease

\* The process dies between any two steps and the next one opens the ledger
\* (recover_after_restart).  It serves clients only once it is Ready again.
Restart ==
    /\ brokerEpoch < MaxBrokerEpoch
    /\ brokerEpoch' = brokerEpoch + 1
    /\ host' = "Ready"
    /\ conn' = [c \in Conns |-> IF Live(c) THEN "dead" ELSE conn[c]]
    /\ holder' = NoOne
    /\ pending' = NoFence
    /\ proofs' = {}
    /\ RecoverLease
    /\ lifecycle' = IF lifecycle \in Interrupted THEN "Orphaned" ELSE lifecycle
    /\ RecoverActions
    /\ LoseBindings
    /\ fencing' = {}
    /\ creating' = {}
    /\ closing' = {}
    /\ finishing' = {}
    /\ dispatching' = {}
    /\ reconciling' = {}
    /\ UNCHANGED <<owner, ticket, issued, spent, barrier, page>>

\* The CDP connection dies while the host lives on.
BridgeLost ==
    /\ Observed # {}
    /\ LoseBindings
    /\ UNCHANGED <<memoryVars, brokerEpoch, authorityVars, page, actionVars, opVars>>

-----------------------------------------------------------------------------
(* Leases.                                                                 *)

CreateSpace(c) ==
    /\ Ready /\ Live(c)
    /\ lifecycle = "Absent"
    /\ lifecycle' = "Created"
    /\ owner' = PrincipalOf[c]
    /\ UNCHANGED <<memoryVars, brokerEpoch, lease, pending, ticket, proofs, issued, spent,
                   barrier, page, actionVars, bridgeVars, opVars>>

\* Time passes the lease's expires_at.
LeaseExpires ==
    /\ lease.state = "Active"
    /\ ~lease.expired
    /\ lease' = [lease EXCEPT !.expired = TRUE]
    /\ UNCHANGED <<memoryVars, brokerEpoch, lifecycle, owner, pending, ticket, proofs, issued,
                   spent, barrier, page, actionVars, bridgeVars, opVars>>

\* Altered: an unexpired lease does not keep another session out.
LeaseAvailableAnyTime(c) ==
    /\ lifecycle \notin {"Absent", "Pruned", "UserOwned", "FencePending"}
    /\ \/ lifecycle \in {"Created", "Orphaned", "Paused", "Released"}
       \/ owner = PrincipalOf[c]

LeaseAvailable(c) ==
    /\ ~(lease.state = "Active" /\ ~lease.expired)
    /\ lifecycle \notin {"Absent", "Pruned", "UserOwned", "FencePending"}
    /\ \/ lifecycle \in {"Created", "Orphaned", "Paused", "Released"}
       \/ owner = PrincipalOf[c]

\* acquire_lease: a new epoch, and no fence: neither the queue, nor the actions
\* that run, nor the pages in the bridge are touched.
AcquireLease(c) ==
    /\ Ready /\ Live(c)
    /\ LeaseAvailable(c)
    /\ lease.epoch < MaxEpoch
    /\ lease' = ActiveLease(PrincipalOf[c], lease.epoch + 1)
    /\ owner' = PrincipalOf[c]
    /\ lifecycle' = "AgentOwned"
    /\ holder' = c
    /\ UNCHANGED <<host, conn, brokerEpoch, pending, ticket, proofs, issued, spent, barrier,
                   page, actionVars, bridgeVars, opVars>>

-----------------------------------------------------------------------------
(* Fences.                                                                 *)

\* Altered: the queue and the running action survive the fence.
InterruptNothing == UNCHANGED actionVars

InterruptActions ==
    /\ receipt' = InterruptedReceipts
    /\ queue' = <<>>

BeginFence(c, purpose, then) ==
    /\ lease.epoch < MaxEpoch
    /\ Room
    /\ lifecycle' = "FencePending"
    /\ pending' = [purpose |-> purpose, old |-> lease.epoch, new |-> lease.epoch + 1,
                   principal |-> PrincipalOf[c]]
    /\ fencing' = fencing \cup
         {[at |-> "fence", conn |-> c, purpose |-> purpose, old |-> lease.epoch,
           new |-> lease.epoch + 1, acked |-> FALSE, then |-> then]}

\* return_control, up to the bridge call.
ReturnControl(c) ==
    /\ Ready
    /\ AuthorizeSpace(c, lease.epoch)
    /\ BeginFence(c, "ReturnControl", "AgentOwned")
    /\ lease' = [lease EXCEPT !.epoch = @ + 1, !.state = "Fenced"]
    /\ InterruptActions
    /\ UNCHANGED <<memoryVars, brokerEpoch, owner, ticket, proofs, issued, spent, barrier, page,
                   bridgeVars, otherOps>>

\* takeover, up to the bridge call; pause_space and handoff_space begin with it
\* and name where the space goes `then`.  The lease may be expired.
Takeover(c, then) ==
    /\ Ready /\ Live(c)
    /\ Exists
    /\ lifecycle \notin {"UserOwned", "FencePending"}
    /\ lease.principal = PrincipalOf[c]
    /\ \/ lease.state = "Active" /\ holder = c
       \/ lease.state = "Fenced" /\ lifecycle = "Orphaned"
    /\ BeginFence(c, "Takeover", then)
    /\ owner' = PrincipalOf[c]
    /\ lease' = ActiveLease(PrincipalOf[c], lease.epoch + 1)
    /\ holder' = c
    /\ InterruptActions
    /\ UNCHANGED <<host, conn, brokerEpoch, ticket, proofs, issued, spent, barrier, page,
                   bridgeVars, otherOps>>

\* Altered: the fence epoch of the ticket is not compared.
TicketCurrentAnyEpoch(t) == ticket # 0 /\ t.broker = brokerEpoch

TicketCurrent(t) == ticket # 0 /\ t.broker = brokerEpoch /\ t.fence = ticket /\ t.fence = lease.epoch

\* takeover_with_control_ticket, up to the bridge call: any principal that
\* presents the current ticket of a user-owned space.
TakeoverWithControlTicket(c, t) ==
    /\ Ready /\ Live(c)
    /\ lifecycle = "UserOwned"
    /\ t \in issued
    /\ TicketCurrent(t)
    /\ BeginFence(c, "Takeover", "AgentOwned")
    /\ owner' = PrincipalOf[c]
    /\ lease' = ActiveLease(PrincipalOf[c], lease.epoch + 1)
    /\ holder' = c
    /\ ticket' = 0
    /\ proofs' = {}
    /\ spent' = spent \cup {t}
    /\ UNCHANGED <<host, conn, brokerEpoch, issued, barrier, page, actionVars, bridgeVars,
                   otherOps>>

\* control_ticket: the owner of a user-owned space may read the ticket again,
\* in particular after a restart has stamped it with a new broker epoch.
ControlTicket(c) ==
    /\ Live(c)
    /\ ticket # 0
    /\ PrincipalOf[c] \in {owner, lease.principal}
    /\ issued' = issued \cup {[fence |-> ticket, broker |-> brokerEpoch]}
    /\ UNCHANGED <<memoryVars, brokerEpoch, lifecycle, owner, lease, pending, ticket, proofs,
                   spent, barrier, page, actionVars, bridgeVars, opVars>>

\* The claim on a pending fence that every retry and every completion needs.
FenceClaim(c, purpose, new) ==
    /\ Live(c)
    /\ pending.purpose = purpose
    /\ pending.new = new
    /\ pending.principal = PrincipalOf[c]
    /\ lease.principal = PrincipalOf[c]
    /\ lease.epoch = new
    /\ holder = c

\* acknowledge_fence: retry the pending fence without a new epoch;
\* acknowledge_fence_with_ttl also renews the lease of a takeover.
AcknowledgeFence(c) ==
    /\ Room
    /\ lifecycle = "FencePending"
    /\ FenceClaim(c, pending.purpose, lease.epoch)
    /\ fencing' = fencing \cup
         {[at |-> "fence", conn |-> c, purpose |-> pending.purpose, old |-> pending.old,
           new |-> pending.new, acked |-> FALSE, then |-> "AgentOwned"]}
    /\ \/ UNCHANGED lease
       \/ /\ pending.purpose = "Takeover"
          /\ lease' = [lease EXCEPT !.expired = FALSE, !.state = "Active"]
    /\ UNCHANGED <<memoryVars, brokerEpoch, lifecycle, owner, pending, ticket, proofs, issued,
                   spent, barrier, page, actionVars, bridgeVars, otherOps>>

\* acknowledge_return_control: the same retry, for a user return.
AcknowledgeReturnControl(c) ==
    /\ Room
    /\ lifecycle = "FencePending"
    /\ lease.state = "Fenced"
    /\ FenceClaim(c, "ReturnControl", lease.epoch)
    /\ fencing' = fencing \cup
         {[at |-> "fence", conn |-> c, purpose |-> "ReturnControl", old |-> pending.old,
           new |-> pending.new, acked |-> FALSE, then |-> "AgentOwned"]}
    /\ UNCHANGED <<memoryVars, brokerEpoch, authorityVars, page, actionVars, bridgeVars, otherOps>>

\* The bridge call.  An unacknowledged user return only records a warning.
BridgeFence(o) ==
    /\ o \in fencing /\ o.at = "fence"
    /\ Fence(o.old, o.new)
    /\ fencing' = (fencing \ {o}) \cup
         IF FenceAccepted(o.old)
         THEN {[o EXCEPT !.acked = TRUE,
                         !.at = IF o.purpose = "Takeover" THEN "rebind" ELSE "finish"]}
         ELSE IF o.purpose = "Takeover" THEN {[o EXCEPT !.at = "finish"]} ELSE {}
    /\ UNCHANGED <<memoryVars, brokerEpoch, authorityVars, page, actionVars, otherOps>>

\* rebind_pages_after_fence.
Retained == {p \in Pages : /\ page[p].bind \in {"Bound", "UserOwned"}
                           /\ page[p].lc \notin {"Closed", "Closing"}}

RebindPages(o) ==
    /\ o \in fencing /\ o.at = "rebind"
    /\ fencing' = (fencing \ {o}) \cup
         {[o EXCEPT !.at = "finish",
                    !.acked = Live(o.conn) /\ RebindAccepted(Retained)]}
    /\ UNCHANGED <<memoryVars, brokerEpoch, authorityVars, page, actionVars, bridgeVars, otherOps>>

\* finish_fence, acknowledged: pages the user held come back to the agent.
\* An unacknowledged takeover leaves the space as it is, in FencePending.
FinishFence(o) ==
    /\ o \in fencing /\ o.at = "finish" /\ o.purpose = "Takeover" /\ o.acked
    /\ FenceClaim(o.conn, "Takeover", o.new)
    /\ lifecycle' = "AgentOwned"
    /\ page' = [p \in Pages |-> IF page[p].lc = "UserOwned" THEN ManagedPage ELSE page[p]]
    /\ pending' = NoFence
    /\ proofs' = proofs \cup {[previous |-> pending.old, current |-> o.new,
                               principal |-> PrincipalOf[o.conn]]}
    /\ barrier' = o.old
    /\ fencing' = (fencing \ {o}) \cup
                  IF o.then = "AgentOwned" THEN {} ELSE {[o EXCEPT !.at = "settle"]}
    /\ UNCHANGED <<memoryVars, brokerEpoch, owner, lease, ticket, issued, spent, actionVars,
                   bridgeVars, otherOps>>

UserReturnClaim(o) ==
    /\ FenceClaim(o.conn, "ReturnControl", o.new)
    /\ pending.old = o.old
    /\ lifecycle = "FencePending"
    /\ lease.state = "Fenced"

\* finish_user_return: every page of the space becomes the user's.
FinishUserReturn(o) ==
    /\ o \in fencing /\ o.at = "finish" /\ o.purpose = "ReturnControl"
    /\ UserReturnClaim(o)
    /\ lease' = [lease EXCEPT !.state = "Released"]
    /\ lifecycle' = "UserOwned"
    /\ page' = [p \in Pages |-> IF page[p].lc = "Absent" THEN page[p] ELSE UserPage]
    /\ holder' = NoOne
    /\ pending' = NoFence
    /\ ticket' = o.new
    /\ issued' = issued \cup {[fence |-> o.new, broker |-> brokerEpoch]}
    /\ barrier' = o.old
    /\ fencing' = fencing \ {o}
    /\ UNCHANGED <<host, conn, brokerEpoch, owner, proofs, spent, actionVars, bridgeVars, otherOps>>

\* set_fenced_space_lifecycle: pause and handoff, after their takeover.
SettleFencedSpace(o) ==
    /\ o \in fencing /\ o.at = "settle"
    /\ StillAuthorized(o.conn, o.new)
    /\ proofs' = {}
    /\ lease' = [lease EXCEPT !.state = "Fenced"]
    /\ lifecycle' = o.then
    /\ fencing' = fencing \ {o}
    /\ UNCHANGED <<memoryVars, brokerEpoch, owner, pending, ticket, issued, spent, barrier, page,
                   actionVars, bridgeVars, otherOps>>

\* A completion is refused, was not acknowledged, or could not be written.
FenceEnds(o) ==
    /\ o \in fencing
    /\ \/ o.at = "finish" /\ o.purpose = "Takeover"
          /\ (~o.acked \/ ~FenceClaim(o.conn, "Takeover", o.new) \/ LedgerMayFail)
       \/ o.at = "finish" /\ o.purpose = "ReturnControl"
          /\ (~UserReturnClaim(o) \/ LedgerMayFail)
       \/ o.at = "settle" /\ (~StillAuthorized(o.conn, o.new) \/ LedgerMayFail)
    /\ fencing' = fencing \ {o}
    /\ UNCHANGED <<memoryVars, brokerEpoch, authorityVars, page, actionVars, bridgeVars, otherOps>>

-----------------------------------------------------------------------------
HostNext ==
    \/ \E c \in Conns : Hello(c) \/ Disconnect(c)
    \/ HostTransition \/ Shutdown \/ Restart \/ BridgeLost

LeaseNext ==
    \/ LeaseExpires
    \/ \E c \in Conns :
          \/ CreateSpace(c) \/ AcquireLease(c) \/ ReturnControl(c) \/ ControlTicket(c)
          \/ AcknowledgeFence(c) \/ AcknowledgeReturnControl(c)
          \/ \E then \in {"AgentOwned", "Paused", "HandoffRequested"} : Takeover(c, then)
          \/ \E t \in issued : TakeoverWithControlTicket(c, t)
    \/ \E o \in fencing :
          \/ BridgeFence(o) \/ RebindPages(o) \/ FinishFence(o) \/ FinishUserReturn(o)
          \/ SettleFencedSpace(o) \/ FenceEnds(o)
=============================================================================
