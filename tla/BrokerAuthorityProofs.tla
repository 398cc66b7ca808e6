----------------------- MODULE BrokerAuthorityProofs -----------------------
(***************************************************************************)
(* The broker implements SpaceAuthority, and a control ticket is good for  *)
(* one takeover: for every set of connections, principals, pages and       *)
(* actions, and every bound.                                               *)
(***************************************************************************)
EXTENDS BrokerLedgerProofs

-----------------------------------------------------------------------------
(* Who the space is bound to, and which tickets were used.                 *)

sessionState == <<lifecycle, lease, ticket, holder, spent>>

\* Nobody holds the user's space, a forgotten space has no epoch, and a ticket is
\* spent for an epoch that is over.
SessionInv ==
    /\ lifecycle = "UserOwned" => holder = NoOne
    /\ lifecycle = "Pruned" => lease.epoch = 0 /\ lease.expired = FALSE
    /\ lifecycle = "Draining" => lease.state = "Active"
    /\ lifecycle = "HandoffRequested" => lease.state # "Active"
    /\ \A t \in spent : t.fence \in Nat /\ (lifecycle # "Pruned" => t.fence < lease.epoch)

\* Pages and actions leave it alone.
LEMMA SessionFrame ==
  ASSUME PageNext \/ ActionNext \/ UNCHANGED vars PROVE UNCHANGED sessionState
  <1> USE DEF sessionState, memoryVars, authorityVars
  <1>1. CASE PageNext
    <2>1. ASSUME NEW c \in Conns, NEW p \in Pages,
                 CreatePageAt(c, p) \/ CreateManagedPage(c, p) \/ BindPage(c, p)
                 \/ MarkPageLost(c, p) \/ ClosePage(c, p)
          PROVE  UNCHANGED sessionState
      BY <2>1 DEF CreatePageAt, CreateManagedPage, PlanPage, BindPage, MarkPageLost, ClosePage
    <2>2. ASSUME NEW p \in Pages, TargetLostEvent(p) PROVE UNCHANGED sessionState
      BY <2>2 DEF TargetLostEvent
    <2>3. ASSUME NEW o \in creating, BridgeCreatePage(o) \/ BindManagedPage(o) \/ CreateEnds(o)
          PROVE  UNCHANGED sessionState
      BY <2>3 DEF BridgeCreatePage, BindManagedPage, CreateEnds
    <2>4. ASSUME NEW o \in closing,
                 BridgeClosePage(o) \/ BridgeCloseFails(o) \/ FinishClosePage(o) \/ CloseFailed(o)
                 \/ CloseEnds(o)
          PROVE  UNCHANGED sessionState
      BY <2>4 DEF BridgeClosePage, BridgeCloseFails, FinishClosePage, CloseFailed, CloseEnds
    <2> QED
      BY <1>1, <2>1, <2>2, <2>3, <2>4 DEF PageNext
  <1>2. CASE ActionNext
    <2>1. ASSUME NEW c \in Conns, NEW a \in Actions, DispatchAction(c, a) \/ BeginReconcile(c, a)
          PROVE  UNCHANGED sessionState
      BY <2>1 DEF DispatchAction, BeginReconcile
    <2>2. ASSUME NEW c \in Conns, NEW a \in Actions, NEW p \in Pages, EnqueueAction(c, a, p)
          PROVE  UNCHANGED sessionState
      BY <2>2 DEF EnqueueAction
    <2>3. ASSUME NEW o \in dispatching,
                 AdmitMutation(o) \/ GrantPermit(o) \/ RefuseAdmission(o) \/ RecheckDispatch(o)
                 \/ RecheckFails(o) \/ BridgeDispatch(o) \/ BridgeDispatchFails(o)
                 \/ FinishDispatch(o) \/ FinishDispatchFails(o)
          PROVE  UNCHANGED sessionState
      <3>1. \E next : DispatchStep(o, next)
        BY <2>3, Zenon DEF AdmitMutation, GrantPermit, RefuseAdmission, RecheckDispatch,
           RecheckFails, BridgeDispatch, BridgeDispatchFails, FinishDispatch, FinishDispatchFails
      <3> QED
        BY <3>1 DEF DispatchStep
    <2>4. ASSUME NEW o \in reconciling, FinishReconcile(o) PROVE UNCHANGED sessionState
      BY <2>4 DEF FinishReconcile
    <2> QED
      BY <1>2, <2>1, <2>2, <2>3, <2>4 DEF ActionNext
  <1>3. CASE UNCHANGED vars
    BY <1>3 DEF vars
  <1> QED
    BY <1>1, <1>2, <1>3

\* So do most steps of the host and of finish requests.
LEMMA HostFrame ==
  ASSUME HostNext, ~Restart PROVE UNCHANGED sessionState
  <1> USE DEF sessionState, memoryVars, authorityVars
  <1>1. ASSUME NEW c \in Conns, Hello(c) \/ Disconnect(c) PROVE UNCHANGED sessionState
    BY <1>1 DEF Hello, Disconnect
  <1>2. CASE HostTransition \/ Shutdown \/ BridgeLost
    BY <1>2 DEF HostTransition, Shutdown, BridgeLost
  <1> QED
    BY <1>1, <1>2 DEF HostNext

\* Of the finish operations only drain, complete, release and prune touch it.
LEMMA FinishFrame ==
  ASSUME FinishNext,
         \A c \in Conns : ~ReleaseSpace(c) /\ ~PruneReleasedSpaces(c),
         \A o \in finishing : ~DrainSpace(o) /\ ~CompleteFinish(o)
  PROVE  UNCHANGED sessionState
  <1> USE DEF sessionState, memoryVars, authorityVars
  <1>1. ASSUME NEW c \in Conns, FinishSpace(c) PROVE UNCHANGED sessionState
    BY <1>1 DEF FinishSpace
  <1>2. ASSUME NEW o \in finishing,
               ListMissingPages(o) \/ BridgeCleanup(o) \/ BridgeCleanupFails(o)
               \/ FinishPageCleanup(o) \/ RecordCleanupFailure(o) \/ FinishEnds(o)
        PROVE  UNCHANGED sessionState
    BY <1>2 DEF ListMissingPages, BridgeCleanup, BridgeCleanupFails, FinishPageCleanup,
                RecordCleanupFailure, FinishEnds
  <1>3. ASSUME NEW o \in finishing, NEW p \in Pages, SweepPage(o, p) \/ CleanupPage(o, p)
        PROVE  UNCHANGED sessionState
    BY <1>3 DEF SweepPage, CleanupPage
  <1> QED
    BY <1>1, <1>2, <1>3 DEF FinishNext

\* The lease record and the lifecycle have their types.
LEMMA LeaseTyped ==
  ASSUME AuthorityInv
  PROVE  /\ lease \in Leases /\ lease.epoch \in Nat /\ lease.expired \in BOOLEAN
         /\ lifecycle \in SpaceStates /\ LeaseMatchesLifecycle
  BY DEF AuthorityInv, AuthorityType, Leases

\* The shape of the steps that move a space, in terms of the session state.
LEMMA RestartShape ==
  ASSUME AuthorityInv, SessionInv, Restart
  PROVE  /\ lifecycle' = (IF lifecycle \in Interrupted THEN "Orphaned" ELSE lifecycle)
         /\ lease'.epoch = lease.epoch /\ lease'.expired = lease.expired
         /\ lease'.state # "Active"
         /\ holder' = NoOne /\ ticket' = ticket /\ spent' = spent
  BY LeaseTyped DEF Restart, RecoverLease, Leases, memoryVars

\* expire_lease: the lease of an owned space runs out; nothing else moves.
LEMMA ExpiryShape ==
  ASSUME AuthorityInv, SessionInv, LeaseExpires
  PROVE  /\ lifecycle \in {"AgentOwned", "FencePending", "Draining"}
         /\ lease'.epoch = lease.epoch /\ lease'.expired = TRUE /\ lease'.state = "Active"
         /\ UNCHANGED <<lifecycle, holder, ticket, spent>>
  <1>1. lease.state = "Active" /\ lease' = [lease EXCEPT !.expired = TRUE]
        /\ UNCHANGED <<lifecycle, holder, ticket, spent>>
    BY DEF LeaseExpires, memoryVars
  <1>2. lifecycle \in {"AgentOwned", "FencePending", "Draining"}
    BY LeaseTyped, <1>1 DEF LeaseMatchesLifecycle, SessionInv, SpaceStates
  <1> QED
    BY LeaseTyped, <1>1, <1>2 DEF Leases

\* acquire_lease: a new epoch for the caller, never over a live owner.
LEMMA AcquireShape ==
  ASSUME AuthorityInv, SessionInv, NEW c \in Conns, AcquireLease(c)
  PROVE  /\ lifecycle \notin {"Absent", "Pruned", "UserOwned", "FencePending"}
         /\ lifecycle \in {"AgentOwned", "Draining"} => lease.expired = TRUE
         /\ lease'.epoch = lease.epoch + 1 /\ lease'.expired = FALSE
         /\ lifecycle' = "AgentOwned" /\ holder' = c /\ UNCHANGED <<ticket, spent>>
  <1>1. LeaseAvailable(c) /\ lease' = ActiveLease(PrincipalOf[c], lease.epoch + 1)
        /\ lifecycle' = "AgentOwned" /\ holder' = c /\ UNCHANGED <<ticket, spent>>
    BY DEF AcquireLease
  <1>2. lifecycle \in {"AgentOwned", "Draining"} => lease.state = "Active"
    BY LeaseTyped DEF LeaseMatchesLifecycle, SessionInv
  <1> QED
    BY LeaseTyped, <1>1, <1>2 DEF LeaseAvailable, ActiveLease

\* return_control: the owner opens a fence at the next epoch.
LEMMA ReturnShape ==
  ASSUME AuthorityInv, SessionInv, NEW c \in Conns, ReturnControl(c)
  PROVE  /\ lifecycle = "AgentOwned" /\ holder = c
         /\ lease'.epoch = lease.epoch + 1 /\ lease'.expired = lease.expired
         /\ lifecycle' = "FencePending" /\ UNCHANGED <<holder, ticket, spent>>
  BY LeaseTyped DEF ReturnControl, AuthorizeSpace, HoldsLease, BeginFence, Leases, memoryVars

\* take_over: the caller opens a fence at the next epoch and becomes the holder.
LEMMA TakeoverShape ==
  ASSUME AuthorityInv, SessionInv, NEW c \in Conns, NEW then, Takeover(c, then)
  PROVE  /\ lifecycle \notin {"Absent", "Pruned", "UserOwned", "FencePending"}
         /\ lifecycle \in {"AgentOwned", "Draining"} => holder = c
         /\ lease'.epoch = lease.epoch + 1 /\ lease'.expired = FALSE
         /\ lifecycle' = "FencePending" /\ holder' = c /\ UNCHANGED <<ticket, spent>>
  BY LeaseTyped DEF Takeover, Exists, BeginFence, ActiveLease, memoryVars

\* A takeover by ticket: only from the user, at the epoch the ticket names.
LEMMA TicketShape ==
  ASSUME AuthorityInv, SessionInv, NEW c \in Conns, NEW t, TakeoverWithControlTicket(c, t)
  PROVE  /\ lifecycle = "UserOwned" /\ ticket = lease.epoch /\ t.fence = ticket
         /\ lease'.epoch = lease.epoch + 1 /\ lease'.expired = FALSE
         /\ lifecycle' = "FencePending" /\ holder' = c /\ ticket' = 0
         /\ spent' = spent \cup {t}
  BY DEF TakeoverWithControlTicket, TicketCurrent, BeginFence, ActiveLease, memoryVars

\* Likewise the steps that create a space, and that retry and complete a fence.
LEMMA CreateShape ==
  ASSUME AuthorityInv, NEW c \in Conns, CreateSpace(c)
  PROVE  /\ lifecycle = "Absent" /\ lifecycle' = "Created"
         /\ UNCHANGED <<lease, holder, ticket, spent>>
  BY DEF CreateSpace, memoryVars

\* Issuing a ticket and answering a repeated return change no session state.
LEMMA ReadShape ==
  ASSUME AuthorityInv, NEW c \in Conns, ControlTicket(c) \/ AcknowledgeReturnControl(c)
  PROVE  UNCHANGED sessionState
  BY DEF ControlTicket, AcknowledgeReturnControl, memoryVars, sessionState, authorityVars

\* A retried fence acknowledgement keeps the epoch it retries.
LEMMA RetryShape ==
  ASSUME AuthorityInv, NEW c \in Conns, AcknowledgeFence(c)
  PROVE  /\ lifecycle = "FencePending"
         /\ lease'.epoch = lease.epoch
         /\ lease'.expired = lease.expired \/ lease'.expired = FALSE
         /\ UNCHANGED <<lifecycle, holder, ticket, spent>>
  BY LeaseTyped DEF AcknowledgeFence, Leases, memoryVars

\* The bridge call of a fence and the rebinding of pages leave it alone.
LEMMA FenceFrame ==
  ASSUME AuthorityInv, NEW o \in fencing, BridgeFence(o) \/ RebindPages(o) \/ FenceEnds(o)
  PROVE  UNCHANGED sessionState
  BY DEF BridgeFence, RebindPages, FenceEnds, memoryVars, sessionState, authorityVars

\* A confirmed takeover fence gives the space to its agent.
LEMMA ConfirmShape ==
  ASSUME AuthorityInv, NEW o \in fencing, FinishFence(o)
  PROVE  /\ lifecycle = "FencePending" /\ lifecycle' = "AgentOwned"
         /\ UNCHANGED <<lease, holder, ticket, spent>>
  BY DEF FinishFence, FenceClaim, AuthorityInv, FenceInv, memoryVars

\* A confirmed return gives the space to the user and records the ticket.
LEMMA UserReturnShape ==
  ASSUME AuthorityInv, NEW o \in fencing, FinishUserReturn(o)
  PROVE  /\ lifecycle = "FencePending" /\ lifecycle' = "UserOwned"
         /\ lease'.epoch = lease.epoch /\ lease'.expired = lease.expired
         /\ holder' = NoOne /\ ticket' = lease.epoch /\ spent' = spent
  BY LeaseTyped DEF FinishUserReturn, UserReturnClaim, FenceClaim, Leases, memoryVars

\* pause and handoff settle a fenced space without a new epoch.
LEMMA SettleShape ==
  ASSUME AuthorityInv, NEW o \in fencing, SettleFencedSpace(o)
  PROVE  /\ lifecycle = "AgentOwned" /\ lifecycle' \in {"Paused", "HandoffRequested"}
         /\ lease'.epoch = lease.epoch /\ lease'.expired = lease.expired
         /\ lease'.state = "Fenced"
         /\ UNCHANGED <<holder, ticket, spent>>
  BY LeaseTyped DEF SettleFencedSpace, StillAuthorized, AuthorityInv, SettleInv, Leases, memoryVars

\* And those of finish, release and prune.
LEMMA DrainShape ==
  ASSUME AuthorityInv, NEW o \in finishing, DrainSpace(o)
  PROVE  /\ lifecycle \in {"AgentOwned", "Draining"} /\ lifecycle' = "Draining"
         /\ lease.state = "Active"
         /\ UNCHANGED <<lease, holder, ticket, spent>>
  BY DEF DrainSpace, FinishClaim, HoldsLease, memoryVars

\* The end of finish_space gives the lease up and keeps its epoch.
LEMMA CompleteShape ==
  ASSUME AuthorityInv, NEW o \in finishing, CompleteFinish(o)
  PROVE  /\ lifecycle \in {"AgentOwned", "Draining"} /\ lifecycle' \in {"Released", "Finished"}
         /\ lease'.epoch = lease.epoch /\ lease'.expired = lease.expired
         /\ UNCHANGED <<holder, ticket, spent>>
  BY LeaseTyped DEF CompleteFinish, FinishClaim, Leases, memoryVars

\* release_space moves a finished space on.
LEMMA ReleaseShape ==
  ASSUME AuthorityInv, NEW c \in Conns, ReleaseSpace(c)
  PROVE  /\ lifecycle = "Finished" /\ lifecycle' = "Released"
         /\ UNCHANGED <<lease, holder, ticket, spent>>
  BY DEF ReleaseSpace, memoryVars

\* prune forgets a released space with its lease.
LEMMA PruneShape ==
  ASSUME AuthorityInv, NEW c \in Conns, PruneReleasedSpaces(c)
  PROVE  /\ lifecycle = "Released" /\ lifecycle' = "Pruned"
         /\ lease'.epoch = 0 /\ lease'.expired = FALSE
         /\ UNCHANGED <<holder, ticket, spent>>
  BY DEF PruneReleasedSpaces, NoLease, memoryVars

\* A step that raises the epoch leaves every spent ticket behind it.
LEMMA EpochRaised ==
  ASSUME AuthorityInv, SessionInv, lifecycle # "Pruned",
         lease'.epoch = lease.epoch + 1, lifecycle' \in {"AgentOwned", "FencePending"},
         NEW t, spent' = spent \/ (spent' = spent \cup {t} /\ t.fence = lease.epoch)
  PROVE  SessionInv'
  <1>1. lease.epoch \in Nat
    BY LeaseTyped
  <1>2. \A u \in spent : u.fence \in Nat /\ u.fence < lease.epoch
    BY DEF SessionInv
  <1>3. lease'.epoch > lease.epoch
    BY <1>1
  <1>4. \A u \in spent : u.fence \in Nat /\ u.fence < lease'.epoch
    BY <1>1, <1>2
  <1>5. \A u \in spent' : u.fence \in Nat /\ u.fence < lease'.epoch
    BY <1>1, <1>3, <1>4
  <1> QED
    BY <1>5 DEF SessionInv

\* Every step keeps the session invariant.
LEMMA SessionSteps ==
  ASSUME AuthorityInv, SessionInv, [Next]_vars PROVE SessionInv'
  <1>0. lease.epoch \in Nat /\ lifecycle \in SpaceStates
    BY LeaseTyped
  <1>1. ASSUME UNCHANGED sessionState PROVE SessionInv'
    BY <1>1 DEF SessionInv, sessionState
  <1>2. CASE PageNext \/ ActionNext \/ UNCHANGED vars
    BY <1>1, <1>2, SessionFrame
  <1>3. CASE HostNext
    <2>1. CASE Restart
      BY <1>0, <2>1, RestartShape DEF SessionInv, Interrupted
    <2>2. CASE ~Restart
      BY <1>1, <1>3, <2>2, HostFrame
    <2> QED
      BY <2>1, <2>2
  <1>4. CASE LeaseNext
    <2>1. CASE LeaseExpires
      BY <1>0, <2>1, ExpiryShape DEF SessionInv
    <2>2. ASSUME NEW c \in Conns, CreateSpace(c) PROVE SessionInv'
      BY <1>0, <2>2, CreateShape DEF SessionInv
    <2>3. ASSUME NEW c \in Conns, AcquireLease(c) PROVE SessionInv'
      <3>1. /\ lifecycle # "Pruned" /\ lifecycle' \in {"AgentOwned", "FencePending"}
            /\ lease'.epoch = lease.epoch + 1 /\ spent' = spent
        BY <2>3, AcquireShape
      <3> QED
        BY <3>1, EpochRaised
    <2>4. ASSUME NEW c \in Conns, ReturnControl(c) PROVE SessionInv'
      <3>1. /\ lifecycle # "Pruned" /\ lifecycle' \in {"AgentOwned", "FencePending"}
            /\ lease'.epoch = lease.epoch + 1 /\ spent' = spent
        BY <2>4, ReturnShape
      <3> QED
        BY <3>1, EpochRaised
    <2>5. ASSUME NEW c \in Conns, NEW then, Takeover(c, then) PROVE SessionInv'
      <3>1. /\ lifecycle # "Pruned" /\ lifecycle' \in {"AgentOwned", "FencePending"}
            /\ lease'.epoch = lease.epoch + 1 /\ spent' = spent
        BY <2>5, TakeoverShape
      <3> QED
        BY <3>1, EpochRaised
    <2>6. ASSUME NEW c \in Conns, NEW t, TakeoverWithControlTicket(c, t) PROVE SessionInv'
      <3>1. /\ lifecycle # "Pruned" /\ lifecycle' \in {"AgentOwned", "FencePending"}
            /\ lease'.epoch = lease.epoch + 1
            /\ spent' = spent \cup {t} /\ t.fence = lease.epoch
        BY <2>6, TicketShape
      <3> QED
        BY <3>1, EpochRaised
    <2>7. ASSUME NEW c \in Conns, ControlTicket(c) \/ AcknowledgeReturnControl(c) PROVE SessionInv'
      BY <1>1, <2>7, ReadShape
    <2>8. ASSUME NEW c \in Conns, AcknowledgeFence(c) PROVE SessionInv'
      BY <1>0, <2>8, RetryShape DEF SessionInv
    <2>9. ASSUME NEW o \in fencing, BridgeFence(o) \/ RebindPages(o) \/ FenceEnds(o)
          PROVE  SessionInv'
      BY <1>1, <2>9, FenceFrame
    <2>10. ASSUME NEW o \in fencing, FinishFence(o) PROVE SessionInv'
      BY <1>0, <2>10, ConfirmShape DEF SessionInv
    <2>11. ASSUME NEW o \in fencing, FinishUserReturn(o) PROVE SessionInv'
      BY <1>0, <2>11, UserReturnShape DEF SessionInv
    <2>12. ASSUME NEW o \in fencing, SettleFencedSpace(o) PROVE SessionInv'
      BY <1>0, <2>12, SettleShape DEF SessionInv
    <2> QED
      BY <1>4, <2>1, <2>2, <2>3, <2>4, <2>5, <2>6, <2>7, <2>8, <2>9, <2>10, <2>11, <2>12 DEF LeaseNext
  <1>5. CASE FinishNext
    <2>1. ASSUME NEW o \in finishing, DrainSpace(o) PROVE SessionInv'
      BY <1>0, <2>1, DrainShape DEF SessionInv
    <2>2. ASSUME NEW o \in finishing, CompleteFinish(o) PROVE SessionInv'
      BY <1>0, <2>2, CompleteShape DEF SessionInv
    <2>3. ASSUME NEW c \in Conns, ReleaseSpace(c) PROVE SessionInv'
      BY <1>0, <2>3, ReleaseShape DEF SessionInv
    <2>4. ASSUME NEW c \in Conns, PruneReleasedSpaces(c) PROVE SessionInv'
      BY <1>0, <2>4, PruneShape DEF SessionInv
    <2> QED
      BY <1>1, <1>5, <2>1, <2>2, <2>3, <2>4, FinishFrame
  <1> QED
    BY <1>2, <1>3, <1>4, <1>5 DEF Next

\* It holds in every reachable state.
THEOREM SessionSafety == Spec => []SessionInv
  <1>1. Init => SessionInv
    BY DEF Init, SessionInv, NoLease
  <1>2. SessionInv /\ AuthorityInv /\ [Next]_vars => SessionInv'
    BY SessionSteps
  <1> QED
    BY <1>1, <1>2, AuthoritySafety, PTL DEF Spec

-----------------------------------------------------------------------------
(* Tickets.                                                                *)

\* Only a takeover with the ticket takes it away, and that ticket was not spent.
LEMMA TicketStep ==
  ASSUME AuthorityInv, SessionInv, [Next]_vars, ticket # 0, ticket' = 0
  PROVE  \E t \in spent' \ spent : t.fence = ticket
  <1>0. lifecycle = "UserOwned" /\ lease.epoch \in Nat
    BY LeaseTyped DEF AuthorityInv, TicketMatchesSpace
  <1>1. ~UNCHANGED ticket
    OBVIOUS
  <1>2. ~(PageNext \/ ActionNext \/ UNCHANGED vars)
    BY <1>1, SessionFrame DEF sessionState
  <1>3. ~HostNext
    BY <1>1, HostFrame, RestartShape DEF sessionState
  <1>4. ~FinishNext
    BY <1>1, FinishFrame, DrainShape, CompleteShape, ReleaseShape, PruneShape DEF sessionState
  <1>5. \E c \in Conns, t \in issued : TakeoverWithControlTicket(c, t)
    <2>1. ~LeaseExpires
      BY <1>1, ExpiryShape
    <2>2. ASSUME NEW c \in Conns,
                 \/ CreateSpace(c) \/ AcquireLease(c) \/ ReturnControl(c) \/ ControlTicket(c)
                 \/ AcknowledgeFence(c) \/ AcknowledgeReturnControl(c)
          PROVE  FALSE
      BY <1>0, <1>1, <2>2, CreateShape, AcquireShape, ReturnShape, ReadShape, RetryShape
         DEF sessionState
    <2>3. ASSUME NEW c \in Conns, NEW then, Takeover(c, then) PROVE FALSE
      BY <1>1, <2>3, TakeoverShape
    <2>4. ASSUME NEW o \in fencing,
                 BridgeFence(o) \/ RebindPages(o) \/ FinishFence(o) \/ FinishUserReturn(o)
                 \/ SettleFencedSpace(o) \/ FenceEnds(o)
          PROVE  FALSE
      BY <1>0, <1>1, <2>4, FenceFrame, ConfirmShape, UserReturnShape, SettleShape DEF sessionState
    <2> QED
      BY <1>2, <1>3, <1>4, <2>1, <2>2, <2>3, <2>4 DEF Next, LeaseNext
  <1>6. PICK c \in Conns, t \in issued : TakeoverWithControlTicket(c, t)
    BY <1>5
  <1>7. t.fence = ticket /\ ticket = lease.epoch /\ spent' = spent \cup {t}
    BY <1>6, TicketShape
  <1>8. t \notin spent
    BY <1>0, <1>7 DEF SessionInv
  <1> QED
    BY <1>7, <1>8

\* A control ticket takes the space from the user at most once, for any number of
\* tickets, holders and restarts.
THEOREM TicketsSingleUse == Spec => TicketSingleUse
  <1>1. AuthorityInv /\ SessionInv /\ [Next]_vars =>
          [ticket # 0 /\ ticket' = 0 => \E t \in spent' \ spent : t.fence = ticket]_vars
    BY TicketStep
  <1> QED
    BY <1>1, AuthoritySafety, SessionSafety, PTL DEF Spec, TicketSingleUse

-----------------------------------------------------------------------------
(* The broker implements SpaceAuthority.                                   *)

\* A step that leaves the session state alone is a stutter of the abstract space.
LEMMA AuthorityStutters ==
  ASSUME UNCHANGED sessionState PROVE UNCHANGED Authority!authority
  BY DEF sessionState, Authority!authority, Mode

\* Every step of the broker is a step of the abstract space, or none.
LEMMA AuthorityMapped ==
  ASSUME AuthorityInv, SessionInv, [Next]_vars PROVE [Authority!Next]_(Authority!authority)
  <1>0. lease.epoch \in Nat /\ lifecycle \in SpaceStates /\ lease.expired \in BOOLEAN
    BY LeaseTyped
  <1> USE DEF Mode
  <1>1. CASE PageNext \/ ActionNext \/ UNCHANGED vars
    BY <1>1, SessionFrame, AuthorityStutters
  <1>2. CASE HostNext
    <2>1. CASE ~Restart
      BY <1>2, <2>1, HostFrame, AuthorityStutters
    <2>2. CASE Restart /\ lifecycle = "UserOwned"
      <3>1. UNCHANGED Authority!authority
        BY <2>2, RestartShape DEF SessionInv, Authority!authority, Interrupted
      <3> QED
        BY <3>1
    <2>3. CASE Restart /\ lifecycle = "Pruned"
      <3>1. Authority!Forget
        BY <2>3, RestartShape DEF SessionInv, Authority!Forget, Interrupted
      <3> QED
        BY <3>1 DEF Authority!Next
    <2>4. CASE Restart /\ lifecycle \notin {"UserOwned", "Pruned"}
      <3>1. Authority!SetFree
        BY <1>0, <2>4, RestartShape DEF Authority!SetFree, Interrupted, SpaceStates
      <3> QED
        BY <3>1 DEF Authority!Next
    <2> QED
      BY <2>1, <2>2, <2>3, <2>4
  <1>3. CASE LeaseNext
    <2>1. CASE LeaseExpires
      <3>1. Authority!Lapse
        BY <2>1, ExpiryShape DEF Authority!Lapse
      <3> QED
        BY <3>1 DEF Authority!Next
    <2>2. ASSUME NEW c \in Conns, CreateSpace(c) PROVE UNCHANGED Authority!authority
      BY <2>2, CreateShape DEF Authority!authority
    <2>3. ASSUME NEW c \in Conns, AcquireLease(c) PROVE Authority!Grant(c)
      BY <1>0, <2>3, AcquireShape DEF Authority!Grant, SpaceStates
    <2>4. ASSUME NEW c \in Conns, ReturnControl(c) PROVE Authority!BeginFence(c)
      BY <1>0, <2>4, ReturnShape DEF Authority!BeginFence
    <2>5. ASSUME NEW c \in Conns, NEW then, Takeover(c, then) PROVE Authority!BeginFence(c)
      BY <1>0, <2>5, TakeoverShape DEF Authority!BeginFence, SpaceStates
    <2>6. ASSUME NEW c \in Conns, NEW t, TakeoverWithControlTicket(c, t) PROVE Authority!Reclaim(c)
      BY <1>0, <2>6, TicketShape DEF Authority!Reclaim
    <2>7. ASSUME NEW c \in Conns, ControlTicket(c) \/ AcknowledgeReturnControl(c)
          PROVE  UNCHANGED Authority!authority
      BY <2>7, ReadShape, AuthorityStutters
    <2>8. ASSUME NEW c \in Conns, AcknowledgeFence(c)
          PROVE  Authority!Renew \/ UNCHANGED Authority!authority
      BY <2>8, RetryShape DEF Authority!Renew, Authority!authority
    <2>9. ASSUME NEW o \in fencing, BridgeFence(o) \/ RebindPages(o) \/ FenceEnds(o)
          PROVE  UNCHANGED Authority!authority
      BY <2>9, FenceFrame, AuthorityStutters
    <2>10. ASSUME NEW o \in fencing, FinishFence(o) PROVE Authority!Confirm
      BY <2>10, ConfirmShape DEF Authority!Confirm
    <2>11. ASSUME NEW o \in fencing, FinishUserReturn(o) PROVE Authority!HandToUser
      BY <1>0, <2>11, UserReturnShape DEF Authority!HandToUser
    <2>12. ASSUME NEW o \in fencing, SettleFencedSpace(o) PROVE Authority!SetFree
      BY <2>12, SettleShape DEF Authority!SetFree
    <2> QED
      BY <1>3, <2>1, <2>2, <2>3, <2>4, <2>5, <2>6, <2>7, <2>8, <2>9, <2>10, <2>11, <2>12
         DEF LeaseNext, Authority!Next
  <1>4. CASE FinishNext
    <2>1. ASSUME NEW o \in finishing, DrainSpace(o) PROVE UNCHANGED Authority!authority
      BY <2>1, DrainShape DEF Authority!authority
    <2>2. ASSUME NEW o \in finishing, CompleteFinish(o) PROVE Authority!SetFree
      BY <2>2, CompleteShape DEF Authority!SetFree
    <2>3. ASSUME NEW c \in Conns, ReleaseSpace(c) PROVE UNCHANGED Authority!authority
      BY <2>3, ReleaseShape DEF Authority!authority
    <2>4. ASSUME NEW c \in Conns, PruneReleasedSpaces(c) PROVE Authority!Forget
      BY <2>4, PruneShape DEF Authority!Forget
    <2> QED
      BY <1>4, <2>1, <2>2, <2>3, <2>4, FinishFrame, AuthorityStutters DEF Authority!Next
  <1> QED
    BY <1>1, <1>2, <1>3, <1>4 DEF Next

\* One holder at a time, a new epoch for every holder, and the user's space only for
\* its ticket: whatever leases, fences, expiries, disconnects and restarts do.
THEOREM BrokerGrantsAuthority == Spec => ImplementsSpaceAuthority
  <1>1. Init => Authority!Init
    BY DEF Init, Authority!Init, Mode, NoLease
  <1>2. AuthorityInv /\ SessionInv /\ [Next]_vars => [Authority!Next]_(Authority!authority)
    BY AuthorityMapped
  <1> QED
    BY <1>1, <1>2, AuthoritySafety, SessionSafety, PTL
       DEF Spec, Authority!Spec, ImplementsSpaceAuthority
=============================================================================
