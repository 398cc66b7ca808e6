---------------------------- MODULE BrokerProofs ----------------------------
(***************************************************************************)
(* Theorems about the broker, for every set of connections, principals,    *)
(* pages and actions, and every bound.                                     *)
(***************************************************************************)
EXTENDS Broker, TLAPS

-----------------------------------------------------------------------------
(* Who holds the space.                                                    *)

authorityState == <<lifecycle, owner, lease, pending, ticket, proofs, fencing>>

AuthorityType ==
    /\ lifecycle \in SpaceStates
    /\ lease \in Leases
    /\ pending \in Fences
    /\ ticket \in Nat
    /\ proofs \subseteq Proofs
    /\ fencing \subseteq FenceOps

FenceInv ==
    /\ pending.purpose = "None" => pending = NoFence
    /\ pending.purpose # "None" =>
         /\ lifecycle = "FencePending"
         /\ pending.new = lease.epoch
         /\ pending.old < pending.new
         /\ pending.principal = lease.principal
         /\ pending.purpose = "Takeover" => lease.state = "Active"
         /\ pending.purpose = "ReturnControl" => lease.state = "Fenced"

\* A proof outlives neither the epoch it was made for nor, in effect, its owner:
\* it exists only while the space is held, fenced, drained or the user's.
ProofInv ==
    /\ proofs # {} => /\ lifecycle \in {"AgentOwned", "FencePending", "UserOwned", "Draining"}
                      /\ lease.principal = owner
    /\ \A q \in proofs :
          /\ q.previous < q.current
          /\ q.current <= lease.epoch
          /\ q.principal = owner
          /\ q.current = lease.epoch => lease.state = "Active"

\* Only pause and handoff settle their space after the fence.
SettleInv == \A o \in fencing : o.at = "settle" => o.then \in {"Paused", "HandoffRequested"}

AuthorityInv ==
    AuthorityType /\ LeaseMatchesLifecycle /\ TicketMatchesSpace /\ FenceInv /\ ProofInv /\ SettleInv

\* The inductive invariant gives the rules of the ledger.
LEMMA AuthorityInvImplies == AuthorityInv => AuthorityValid
  <1> SUFFICES ASSUME AuthorityInv PROVE AuthorityValid
    OBVIOUS
  <1>1. FenceMatchesLease
    <2> SUFFICES ASSUME pending # NoFence PROVE FenceMatchesLease
      BY DEF FenceMatchesLease
    <2>1. pending.purpose \in {"Takeover", "ReturnControl"}
      BY DEF AuthorityInv, AuthorityType, FenceInv, Fences
    <2> QED
      BY <2>1 DEF AuthorityInv, FenceInv, FenceMatchesLease
  <1>2. ProofsMatchLease
    BY DEF AuthorityInv, ProofInv, ProofsMatchLease
  <1> QED
    BY <1>1, <1>2 DEF AuthorityInv, AuthorityValid

\* It holds in the initial state.
LEMMA AuthorityInit == Init => AuthorityInv
  <1> SUFFICES ASSUME Init PROVE AuthorityInv
    OBVIOUS
  <1>1. AuthorityType
    BY DEF Init, AuthorityType, SpaceStates, NoLease, Leases, LeaseStates, NoFence, Fences
  <1> QED
    BY <1>1 DEF Init, AuthorityInv, LeaseMatchesLifecycle, TicketMatchesSpace, FenceInv, ProofInv, SettleInv,
                NoLease, NoFence

\* Steps that touch nothing of it keep it.
LEMMA AuthorityUntouched ==
  ASSUME AuthorityInv, UNCHANGED authorityState
  PROVE  AuthorityInv'
  BY DEF AuthorityInv, AuthorityType, LeaseMatchesLifecycle, TicketMatchesSpace, FenceInv, ProofInv, SettleInv,
         authorityState

\* So do the operations on pages.
LEMMA PageFrame ==
  ASSUME PageNext PROVE UNCHANGED authorityState
  <1> USE DEF authorityState, authorityVars, notCreating, notClosing, opVars
  <1>1. ASSUME NEW c \in Conns, NEW p \in Pages,
               CreatePageAt(c, p) \/ CreateManagedPage(c, p) \/ BindPage(c, p)
               \/ MarkPageLost(c, p) \/ ClosePage(c, p)
        PROVE  UNCHANGED authorityState
    BY <1>1 DEF CreatePageAt, CreateManagedPage, PlanPage, BindPage, MarkPageLost, ClosePage
  <1>2. ASSUME NEW p \in Pages, TargetLostEvent(p) PROVE UNCHANGED authorityState
    BY <1>2 DEF TargetLostEvent
  <1>3. ASSUME NEW o \in creating, BridgeCreatePage(o) \/ BindManagedPage(o) \/ CreateEnds(o)
        PROVE  UNCHANGED authorityState
    BY <1>3 DEF BridgeCreatePage, BindManagedPage, CreateEnds
  <1>4. ASSUME NEW o \in closing,
               BridgeClosePage(o) \/ BridgeCloseFails(o) \/ FinishClosePage(o) \/ CloseFailed(o)
               \/ CloseEnds(o)
        PROVE  UNCHANGED authorityState
    BY <1>4 DEF BridgeClosePage, BridgeCloseFails, FinishClosePage, CloseFailed, CloseEnds
  <1> QED
    BY <1>1, <1>2, <1>3, <1>4 DEF PageNext

\* Actions leave the authority over the space alone.
LEMMA ActionFrame ==
  ASSUME ActionNext PROVE UNCHANGED authorityState
  <1> USE DEF authorityState, authorityVars, notDispatching, notReconciling, opVars
  <1>1. ASSUME NEW c \in Conns, NEW a \in Actions, DispatchAction(c, a) \/ BeginReconcile(c, a)
        PROVE  UNCHANGED authorityState
    BY <1>1 DEF DispatchAction, BeginReconcile
  <1>2. ASSUME NEW c \in Conns, NEW a \in Actions, NEW p \in Pages, EnqueueAction(c, a, p)
        PROVE  UNCHANGED authorityState
    BY <1>2 DEF EnqueueAction
  <1>3. ASSUME NEW o, NEW next, DispatchStep(o, next) PROVE UNCHANGED authorityState
    BY <1>3 DEF DispatchStep
  <1>4. ASSUME NEW o \in dispatching,
               AdmitMutation(o) \/ GrantPermit(o) \/ RefuseAdmission(o) \/ RecheckDispatch(o)
               \/ RecheckFails(o) \/ BridgeDispatch(o) \/ BridgeDispatchFails(o)
               \/ FinishDispatch(o) \/ FinishDispatchFails(o)
        PROVE  \E next : DispatchStep(o, next)
    BY <1>4, Zenon DEF AdmitMutation, GrantPermit, RefuseAdmission, RecheckDispatch, RecheckFails,
                BridgeDispatch, BridgeDispatchFails, FinishDispatch, FinishDispatchFails
  <1>5. ASSUME NEW o \in reconciling, FinishReconcile(o) PROVE UNCHANGED authorityState
    BY <1>5 DEF FinishReconcile
  <1> QED
    BY <1>1, <1>2, <1>3, <1>4, <1>5 DEF ActionNext

\* The end of a space: it drains, is finished, released and forgotten.
LEMMA FinishSteps ==
  ASSUME AuthorityInv, FinishNext PROVE AuthorityInv'
  <1> USE DEF SpaceStates, LeaseStates, Leases
  <1>1. ASSUME NEW c \in Conns, FinishSpace(c) PROVE AuthorityInv'
    BY <1>1, AuthorityUntouched DEF FinishSpace, authorityState, authorityVars, notFinishing
  <1>2. ASSUME NEW c \in Conns, ReleaseSpace(c) PROVE AuthorityInv'
    BY <1>2 DEF ReleaseSpace, opVars, AuthorityInv, AuthorityType, LeaseMatchesLifecycle, TicketMatchesSpace,
              FenceInv, ProofInv, SettleInv
  <1>3. ASSUME NEW c \in Conns, PruneReleasedSpaces(c) PROVE AuthorityInv'
    BY <1>3 DEF PruneReleasedSpaces, opVars, NoLease, AuthorityInv, AuthorityType, LeaseMatchesLifecycle, TicketMatchesSpace,
              FenceInv, ProofInv, SettleInv
  <1>4. ASSUME NEW o \in finishing, DrainSpace(o) PROVE AuthorityInv'
    BY <1>4 DEF DrainSpace, FinishClaim, HoldsLease, notFinishing, AuthorityInv, AuthorityType, LeaseMatchesLifecycle, TicketMatchesSpace,
              FenceInv, ProofInv, SettleInv
  <1>5. ASSUME NEW o \in finishing, CompleteFinish(o) PROVE AuthorityInv'
    BY <1>5 DEF CompleteFinish, FinishClaim, HoldsLease, notFinishing, AuthorityInv, AuthorityType, LeaseMatchesLifecycle, TicketMatchesSpace,
              FenceInv, ProofInv, SettleInv
  <1>6. ASSUME NEW o \in finishing,
               ListMissingPages(o) \/ BridgeCleanup(o) \/ BridgeCleanupFails(o)
               \/ FinishPageCleanup(o) \/ RecordCleanupFailure(o) \/ FinishEnds(o)
        PROVE  AuthorityInv'
    BY <1>6, AuthorityUntouched
       DEF ListMissingPages, BridgeCleanup, BridgeCleanupFails, FinishPageCleanup,
           RecordCleanupFailure, FinishEnds, authorityState, authorityVars, notFinishing
  <1>7. ASSUME NEW o \in finishing, NEW p \in Pages, SweepPage(o, p) \/ CleanupPage(o, p)
        PROVE  AuthorityInv'
    BY <1>7, AuthorityUntouched
       DEF SweepPage, CleanupPage, authorityState, authorityVars, notFinishing
  <1> QED
    BY <1>1, <1>2, <1>3, <1>4, <1>5, <1>6, <1>7 DEF FinishNext

\* Connections, the host's lifecycle, and recovery after a restart.
LEMMA HostSteps ==
  ASSUME AuthorityInv, HostNext PROVE AuthorityInv'
  <1>1. ASSUME NEW c \in Conns, Hello(c) \/ Disconnect(c) PROVE AuthorityInv'
    BY <1>1, AuthorityUntouched DEF Hello, Disconnect, authorityState, authorityVars, opVars
  <1>2. CASE HostTransition \/ Shutdown \/ BridgeLost
    BY <1>2, AuthorityUntouched
       DEF HostTransition, Shutdown, BridgeLost, authorityState, authorityVars, opVars
  <1>3. CASE Restart
    <2>1. AuthorityType'
      BY <1>3 DEF Restart, RecoverLease, AuthorityInv, AuthorityType, SpaceStates, LeaseStates,
                  Leases, NoFence, Fences
    <2>2. LeaseMatchesLifecycle'
      BY <1>3 DEF Restart, RecoverLease, Interrupted, AuthorityInv, AuthorityType,
                  LeaseMatchesLifecycle, LeaseStates, Leases
    <2>3. TicketMatchesSpace'
      BY <1>3 DEF Restart, RecoverLease, Interrupted, AuthorityInv, AuthorityType,
                  TicketMatchesSpace, Leases
    <2>4. FenceInv' /\ ProofInv' /\ SettleInv'
      BY <1>3 DEF Restart, NoFence, FenceInv, ProofInv, SettleInv
    <2> QED
      BY <2>1, <2>2, <2>3, <2>4 DEF AuthorityInv
  <1> QED
    BY <1>1, <1>2, <1>3 DEF HostNext

\* BeginFence, on its own: the pending record and the operation that carries it.
LEMMA BeginFenceSteps ==
  ASSUME AuthorityInv, NEW c \in Conns, NEW purpose \in {"Takeover", "ReturnControl"},
         NEW then \in {"AgentOwned", "Paused", "HandoffRequested"}, BeginFence(c, purpose, then)
  PROVE  /\ lifecycle' = "FencePending"
         /\ pending' \in Fences
         /\ pending'.purpose = purpose
         /\ pending'.new = lease.epoch + 1
         /\ pending'.old = lease.epoch
         /\ pending'.principal = PrincipalOf[c]
         /\ fencing' \subseteq FenceOps
         /\ SettleInv'
  <1>1. PrincipalOf[c] \in Principals /\ lease.epoch \in Nat
    BY BrokerAssumption DEF AuthorityInv, AuthorityType, Leases
  <1>2. lifecycle' = "FencePending" /\ pending' \in Fences /\ pending'.purpose = purpose
        /\ pending'.new = lease.epoch + 1 /\ pending'.old = lease.epoch
        /\ pending'.principal = PrincipalOf[c]
    BY <1>1 DEF BeginFence, Fences
  <1> DEFINE op == [at |-> "fence", conn |-> c, purpose |-> purpose, old |-> lease.epoch,
                    new |-> lease.epoch + 1, acked |-> FALSE, then |-> then]
  <1>3. op \in FenceOps /\ op.at # "settle"
    BY <1>1 DEF FenceOps
  <1>4. fencing' = fencing \cup {op}
    BY DEF BeginFence
  <1> QED
    BY <1>2, <1>3, <1>4 DEF AuthorityInv, AuthorityType, SettleInv

\* A fence by the holder, by the owner of an orphaned space, or by a ticket.
LEMMA FenceStarts ==
  ASSUME AuthorityInv, NEW c \in Conns
  PROVE  /\ ReturnControl(c) => AuthorityInv'
         /\ \A then \in {"AgentOwned", "Paused", "HandoffRequested"} :
               Takeover(c, then) => AuthorityInv'
         /\ \A t \in issued : TakeoverWithControlTicket(c, t) => AuthorityInv'
  <1> USE DEF SpaceStates, LeaseStates, Leases
  <1>0. PrincipalOf[c] \in Principals /\ lease.epoch \in Nat
    BY BrokerAssumption DEF AuthorityInv, AuthorityType
  <1>1. ASSUME ReturnControl(c) PROVE AuthorityInv'
    <2>1. BeginFence(c, "ReturnControl", "AgentOwned")
      BY <1>1 DEF ReturnControl
    <2>2. lease.principal = PrincipalOf[c] /\ lifecycle = "AgentOwned"
          /\ UNCHANGED <<owner, ticket, proofs>>
      BY <1>1 DEF ReturnControl, AuthorizeSpace, HoldsLease
    <2>3. lease' \in Leases /\ lease'.epoch = lease.epoch + 1 /\ lease'.state = "Fenced"
          /\ lease'.principal = lease.principal
      <3>1. lease \in Leases
        BY DEF AuthorityInv, AuthorityType
      <3>2. lease' = [lease EXCEPT !.epoch = lease.epoch + 1, !.state = "Fenced"]
        BY <1>1 DEF ReturnControl
      <3>3. lease' = [state |-> "Fenced", epoch |-> lease.epoch + 1,
                      principal |-> lease.principal, expired |-> lease.expired]
        BY <3>1, <3>2, <1>0
      <3> QED
        BY <3>1, <3>3, <1>0
    <2>4. ticket = 0 /\ lease.principal = owner
      BY <2>2 DEF AuthorityInv, LeaseMatchesLifecycle, TicketMatchesSpace
    <2>5. AuthorityType'
      BY <2>1, <2>2, <2>3, BeginFenceSteps DEF AuthorityInv, AuthorityType
    <2>6. LeaseMatchesLifecycle' /\ TicketMatchesSpace' /\ FenceInv'
      <3>1. lifecycle' = "FencePending" /\ pending'.purpose = "ReturnControl"
            /\ pending'.new = lease.epoch + 1 /\ pending'.old = lease.epoch
            /\ pending'.principal = PrincipalOf[c]
        BY <2>1, BeginFenceSteps
      <3>2. pending' # NoFence /\ ticket' = 0 /\ lease'.principal = owner'
        BY <3>1, <2>2, <2>3, <2>4 DEF NoFence
      <3> QED
        BY <3>1, <3>2, <2>2, <2>3, <1>0 DEF LeaseMatchesLifecycle, TicketMatchesSpace, FenceInv
    <2>7. ProofInv'
      BY <2>1, <2>2, <2>3, <2>4, <1>0, BeginFenceSteps
         DEF AuthorityInv, AuthorityType, ProofInv, Proofs
    <2> QED
      BY <2>1, <2>5, <2>6, <2>7, BeginFenceSteps DEF AuthorityInv
  <1>2. ASSUME NEW then \in {"AgentOwned", "Paused", "HandoffRequested"}, Takeover(c, then)
        PROVE  AuthorityInv'
    <2>1. BeginFence(c, "Takeover", then)
      BY <1>2 DEF Takeover
    <2>2. lease' = ActiveLease(PrincipalOf[c], lease.epoch + 1)
          /\ lease.principal = PrincipalOf[c] /\ owner' = PrincipalOf[c]
          /\ lifecycle # "UserOwned" /\ UNCHANGED <<ticket, proofs>>
      BY <1>2 DEF Takeover
    <2>3. lease' \in Leases /\ lease'.epoch = lease.epoch + 1 /\ lease'.state = "Active"
          /\ lease'.principal = owner'
      BY <2>2, <1>0 DEF ActiveLease
    <2>4. ticket = 0
      BY <2>2 DEF AuthorityInv, TicketMatchesSpace
    <2>5. AuthorityType'
      BY <2>1, <2>2, <2>3, BeginFenceSteps DEF AuthorityInv, AuthorityType
    <2>6. LeaseMatchesLifecycle' /\ TicketMatchesSpace' /\ FenceInv'
      BY <2>1, <2>2, <2>3, <2>4, <1>0, BeginFenceSteps
         DEF LeaseMatchesLifecycle, TicketMatchesSpace, FenceInv, NoFence
    <2>7. ProofInv'
      BY <2>1, <2>2, <2>3, <1>0, BeginFenceSteps
         DEF AuthorityInv, AuthorityType, ProofInv, Proofs
    <2> QED
      BY <2>1, <2>5, <2>6, <2>7, BeginFenceSteps DEF AuthorityInv
  <1>3. ASSUME NEW t \in issued, TakeoverWithControlTicket(c, t) PROVE AuthorityInv'
    <2>1. BeginFence(c, "Takeover", "AgentOwned")
      BY <1>3 DEF TakeoverWithControlTicket
    <2>2. lease' = ActiveLease(PrincipalOf[c], lease.epoch + 1)
          /\ owner' = PrincipalOf[c] /\ ticket' = 0 /\ proofs' = {}
      BY <1>3 DEF TakeoverWithControlTicket
    <2>3. lease' \in Leases /\ lease'.epoch = lease.epoch + 1 /\ lease'.state = "Active"
          /\ lease'.principal = owner'
      BY <2>2, <1>0 DEF ActiveLease
    <2>4. AuthorityType'
      BY <2>1, <2>2, <2>3, BeginFenceSteps DEF AuthorityInv, AuthorityType
    <2>5. LeaseMatchesLifecycle' /\ TicketMatchesSpace' /\ FenceInv' /\ ProofInv'
      BY <2>1, <2>2, <2>3, <1>0, BeginFenceSteps
         DEF LeaseMatchesLifecycle, TicketMatchesSpace, FenceInv, NoFence, ProofInv
    <2> QED
      BY <2>1, <2>4, <2>5, BeginFenceSteps DEF AuthorityInv
  <1> QED
    BY <1>1, <1>2, <1>3

\* The steps of a fence after its start keep the operations well formed.
LEMMA FenceOpSteps ==
  ASSUME AuthorityInv, NEW o \in fencing, BridgeFence(o) \/ RebindPages(o) \/ FenceEnds(o)
  PROVE  AuthorityInv'
  <1>1. UNCHANGED <<lifecycle, owner, lease, pending, ticket, proofs>>
    BY DEF BridgeFence, RebindPages, FenceEnds, authorityVars
  <1>2. o \in FenceOps
    BY DEF AuthorityInv, AuthorityType
  <1>3. /\ [o EXCEPT !.acked = TRUE, !.at = "rebind"] \in FenceOps
        /\ [o EXCEPT !.acked = TRUE, !.at = "finish"] \in FenceOps
        /\ [o EXCEPT !.at = "finish"] \in FenceOps
        /\ \A b \in BOOLEAN : [o EXCEPT !.at = "finish", !.acked = b] \in FenceOps
    BY <1>2 DEF FenceOps
  <1>4. \A q \in fencing' \ fencing : q \in FenceOps /\ q.at # "settle"
    <2>1. CASE BridgeFence(o)
      <3>1. \A q \in fencing' \ fencing :
               \/ q = [o EXCEPT !.acked = TRUE, !.at = "rebind"]
               \/ q = [o EXCEPT !.acked = TRUE, !.at = "finish"]
               \/ q = [o EXCEPT !.at = "finish"]
        BY <2>1, Zenon DEF BridgeFence
      <3>2. /\ [o EXCEPT !.acked = TRUE, !.at = "rebind"].at # "settle"
            /\ [o EXCEPT !.acked = TRUE, !.at = "finish"].at # "settle"
            /\ [o EXCEPT !.at = "finish"].at # "settle"
        BY <1>2 DEF FenceOps
      <3> QED
        BY <1>3, <3>1, <3>2
    <2>2. CASE RebindPages(o)
      <3> DEFINE b == Live(o.conn) /\ RebindAccepted(Retained)
      <3>1. fencing' = (fencing \ {o}) \cup {[o EXCEPT !.at = "finish", !.acked = b]}
        BY <2>2 DEF RebindPages
      <3>2. b \in BOOLEAN
        BY DEF Live, RebindAccepted
      <3> HIDE DEF b
      <3>3. [o EXCEPT !.at = "finish", !.acked = b].at # "settle"
        BY <1>2, <3>2 DEF FenceOps
      <3> QED
        BY <1>3, <3>1, <3>2, <3>3
    <2>3. CASE FenceEnds(o)
      BY <2>3 DEF FenceEnds
    <2> QED
      BY <2>1, <2>2, <2>3
  <1>5. fencing' \subseteq FenceOps /\ SettleInv'
    BY <1>4 DEF AuthorityInv, AuthorityType, SettleInv
  <1> QED
    BY <1>1, <1>5 DEF AuthorityInv, AuthorityType, LeaseMatchesLifecycle, TicketMatchesSpace,
                      FenceInv, ProofInv

\* An acknowledged takeover, a completed return to the user, and the settling of
\* a pause or a handoff.
LEMMA FenceCompletes ==
  ASSUME AuthorityInv, NEW o \in fencing,
         FinishFence(o) \/ FinishUserReturn(o) \/ SettleFencedSpace(o)
  PROVE  AuthorityInv'
  <1> USE DEF SpaceStates, LeaseStates, Leases
  <1>0. o \in FenceOps /\ o.conn \in Conns /\ PrincipalOf[o.conn] \in Principals
        /\ lease \in Leases /\ pending \in Fences /\ lease.epoch \in Nat /\ pending.old \in Nat
    BY BrokerAssumption DEF AuthorityInv, AuthorityType, FenceOps, Fences
  <1>1. CASE FinishFence(o)
    <2>1. /\ pending.purpose = "Takeover" /\ lease.principal = PrincipalOf[o.conn]
          /\ pending.new = o.new /\ lease.epoch = o.new
          /\ lifecycle' = "AgentOwned" /\ pending' = NoFence
          /\ proofs' = proofs \cup {[previous |-> pending.old, current |-> o.new,
                                     principal |-> PrincipalOf[o.conn]]}
          /\ UNCHANGED <<owner, lease, ticket>>
      BY <1>1 DEF FinishFence, FenceClaim
    <2>2. /\ lifecycle = "FencePending" /\ lease.state = "Active" /\ lease.principal = owner
          /\ pending.old < lease.epoch /\ ticket = 0
      BY <2>1 DEF AuthorityInv, FenceInv, LeaseMatchesLifecycle, TicketMatchesSpace
    <2>3. fencing' \subseteq FenceOps /\ SettleInv'
      <3>1. [o EXCEPT !.at = "settle"] \in FenceOps /\ [o EXCEPT !.at = "settle"].then = o.then
        BY <1>0 DEF FenceOps
      <3>2. fencing' = fencing \ {o}
            \/ (o.then # "AgentOwned"
                /\ fencing' = (fencing \ {o}) \cup {[o EXCEPT !.at = "settle"]})
        BY <1>1, Zenon DEF FinishFence
      <3>3. o.then \in {"AgentOwned", "Paused", "HandoffRequested"}
        BY <1>0 DEF FenceOps
      <3> QED
        BY <3>1, <3>2, <3>3 DEF AuthorityInv, AuthorityType, SettleInv
    <2>4. AuthorityType'
      BY <1>0, <2>1, <2>3 DEF AuthorityInv, AuthorityType, NoFence, Fences, Proofs, FenceOps
    <2>5. LeaseMatchesLifecycle' /\ TicketMatchesSpace' /\ FenceInv'
      BY <2>1, <2>2 DEF LeaseMatchesLifecycle, TicketMatchesSpace, FenceInv, NoFence
    <2>6. ProofInv'
      BY <1>0, <2>1, <2>2 DEF AuthorityInv, ProofInv
    <2> QED
      BY <2>3, <2>4, <2>5, <2>6 DEF AuthorityInv
  <1>2. CASE FinishUserReturn(o)
    <2>1. /\ pending.purpose = "ReturnControl" /\ pending.new = o.new /\ lease.epoch = o.new
          /\ lifecycle = "FencePending"
          /\ lease' = [lease EXCEPT !.state = "Released"]
          /\ lifecycle' = "UserOwned" /\ pending' = NoFence /\ ticket' = o.new
          /\ fencing' = fencing \ {o} /\ UNCHANGED <<owner, proofs>>
      BY <1>2 DEF FinishUserReturn, UserReturnClaim, FenceClaim
    <2>2. lease' \in Leases /\ lease'.state = "Released" /\ lease'.epoch = lease.epoch
          /\ lease'.principal = lease.principal
      BY <1>0, <2>1
    <2>3. pending.old < lease.epoch /\ lease.state = "Fenced" /\ lease.principal = owner
      BY <2>1 DEF AuthorityInv, FenceInv, LeaseMatchesLifecycle
    <2>4. AuthorityType' /\ SettleInv'
      BY <1>0, <2>1, <2>2 DEF AuthorityInv, AuthorityType, NoFence, Fences, SettleInv
    <2>5. LeaseMatchesLifecycle' /\ TicketMatchesSpace' /\ FenceInv'
      <3>1. lease.epoch # 0
        BY <2>3, <1>0
      <3> HIDE DEF Leases
      <3> QED
        BY <2>1, <2>2, <3>1 DEF LeaseMatchesLifecycle, TicketMatchesSpace, FenceInv, NoFence
    <2>6. ProofInv'
      BY <2>1, <2>2, <2>3 DEF AuthorityInv, ProofInv
    <2> QED
      BY <2>4, <2>5, <2>6 DEF AuthorityInv
  <1>3. CASE SettleFencedSpace(o)
    <2>1. /\ lifecycle = "AgentOwned" /\ lease.state = "Active" /\ o.at = "settle"
          /\ lifecycle' = o.then /\ proofs' = {} /\ lease' = [lease EXCEPT !.state = "Fenced"]
          /\ fencing' = fencing \ {o} /\ UNCHANGED <<owner, pending, ticket>>
      BY <1>3 DEF SettleFencedSpace, StillAuthorized, HoldsLease
    <2>2. lease' \in Leases /\ lease'.state = "Fenced"
      BY <1>0, <2>1
    <2>3. lifecycle' \in {"Paused", "HandoffRequested"}
      BY <2>1 DEF AuthorityInv, SettleInv
    <2>4. ticket = 0 /\ pending.purpose = "None" /\ pending = NoFence
      BY <2>1 DEF AuthorityInv, TicketMatchesSpace, FenceInv
    <2>5. AuthorityType' /\ SettleInv'
      BY <2>1, <2>2, <2>3 DEF AuthorityInv, AuthorityType, SettleInv
    <2>6. LeaseMatchesLifecycle' /\ TicketMatchesSpace' /\ FenceInv' /\ ProofInv'
      BY <2>1, <2>2, <2>3, <2>4
         DEF LeaseMatchesLifecycle, TicketMatchesSpace, FenceInv, ProofInv, NoFence
    <2> QED
      BY <2>5, <2>6 DEF AuthorityInv
  <1> QED
    BY <1>1, <1>2, <1>3

\* Retrying a fence: one more operation for the fence that is pending.
LEMMA FenceRetries ==
  ASSUME AuthorityInv, NEW c \in Conns, AcknowledgeFence(c) \/ AcknowledgeReturnControl(c)
  PROVE  AuthorityInv'
  <1>0. lease \in Leases /\ pending \in Fences
    BY DEF AuthorityInv, AuthorityType
  <1>1. UNCHANGED <<lifecycle, owner, pending, ticket, proofs>>
    BY DEF AcknowledgeFence, AcknowledgeReturnControl, authorityVars
  <1>2. pending.purpose \in {"Takeover", "ReturnControl"}
    <2>1. lifecycle = "FencePending"
      BY DEF AcknowledgeFence, AcknowledgeReturnControl
    <2>2. pending # NoFence
      BY <2>1 DEF AuthorityInv, LeaseMatchesLifecycle
    <2> QED
      BY <1>0, <2>2 DEF AuthorityInv, FenceInv, Fences
  <1>3. lease' = lease
        \/ (pending.purpose = "Takeover"
            /\ lease' = [lease EXCEPT !.expired = FALSE, !.state = "Active"])
    BY DEF AcknowledgeFence, AcknowledgeReturnControl, authorityVars
  <1>4. lease' \in Leases /\ lease'.state = lease.state /\ lease'.epoch = lease.epoch
        /\ lease'.principal = lease.principal
    <2>1. CASE lease' = lease
      BY <2>1, <1>0
    <2>2. CASE pending.purpose = "Takeover"
               /\ lease' = [lease EXCEPT !.expired = FALSE, !.state = "Active"]
      <3>1. lease.state = "Active"
        BY <2>2 DEF AuthorityInv, FenceInv
      <3>2. lease' = [state |-> "Active", epoch |-> lease.epoch, principal |-> lease.principal,
                      expired |-> FALSE]
        BY <2>2, <1>0 DEF Leases, LeaseStates
      <3> QED
        BY <3>1, <3>2, <1>0 DEF Leases, LeaseStates
    <2> QED
      BY <1>3, <2>1, <2>2
  <1>5. fencing' \subseteq FenceOps /\ SettleInv'
    <2> DEFINE op(purpose) ==
          [at |-> "fence", conn |-> c, purpose |-> purpose, old |-> pending.old,
           new |-> pending.new, acked |-> FALSE, then |-> "AgentOwned"]
    <2>1. \A purpose \in {"Takeover", "ReturnControl"} :
             op(purpose) \in FenceOps /\ op(purpose).at # "settle"
      BY <1>0 DEF Fences, FenceOps
    <2>2. fencing' = fencing \cup {op(pending.purpose)}
          \/ fencing' = fencing \cup {op("ReturnControl")}
      BY DEF AcknowledgeFence, AcknowledgeReturnControl
    <2> HIDE DEF op
    <2> QED
      BY <1>2, <2>1, <2>2 DEF AuthorityInv, AuthorityType, SettleInv
  <1>6. AuthorityType'
    BY <1>1, <1>4, <1>5 DEF AuthorityInv, AuthorityType
  <1> QED
    BY <1>1, <1>4, <1>5, <1>6
       DEF AuthorityInv, LeaseMatchesLifecycle, TicketMatchesSpace, FenceInv, ProofInv

\* Creation of the space, the passing of time, and a lease without a fence.
LEMMA LeaseSteps ==
  ASSUME AuthorityInv, LeaseNext PROVE AuthorityInv'
  <1>0. lease \in Leases /\ lease.epoch \in Nat
    BY DEF AuthorityInv, AuthorityType, Leases
  <1>1. CASE LeaseExpires
    <2>1. lease' = [lease EXCEPT !.expired = TRUE]
          /\ UNCHANGED <<lifecycle, owner, pending, ticket, proofs, fencing>>
      BY <1>1 DEF LeaseExpires, opVars
    <2>2. lease' \in Leases /\ lease'.state = lease.state /\ lease'.epoch = lease.epoch
          /\ lease'.principal = lease.principal
      BY <1>0, <2>1 DEF Leases
    <2> QED
      BY <2>1, <2>2 DEF AuthorityInv, AuthorityType, LeaseMatchesLifecycle, TicketMatchesSpace,
                        FenceInv, ProofInv, SettleInv
  <1>2. ASSUME NEW c \in Conns, CreateSpace(c) PROVE AuthorityInv'
    BY <1>2 DEF CreateSpace, opVars, SpaceStates, AuthorityInv, AuthorityType,
                LeaseMatchesLifecycle, TicketMatchesSpace, FenceInv, ProofInv, SettleInv
  <1>3. ASSUME NEW c \in Conns, AcquireLease(c) PROVE AuthorityInv'
    <2>1. /\ lifecycle \notin {"UserOwned", "FencePending"}
          /\ lifecycle \in {"Created", "Orphaned", "Paused", "Released"} \/ owner = PrincipalOf[c]
          /\ lease' = ActiveLease(PrincipalOf[c], lease.epoch + 1)
          /\ owner' = PrincipalOf[c] /\ lifecycle' = "AgentOwned"
          /\ UNCHANGED <<pending, ticket, proofs, fencing>>
      BY <1>3 DEF AcquireLease, LeaseAvailable, opVars
    <2>2. lease' \in Leases /\ lease'.state = "Active" /\ lease'.epoch = lease.epoch + 1
          /\ lease'.principal = owner'
      BY <1>0, <2>1, BrokerAssumption DEF ActiveLease, Leases, LeaseStates
    <2>3. ticket = 0 /\ pending.purpose = "None" /\ pending = NoFence
      BY <2>1 DEF AuthorityInv, TicketMatchesSpace, FenceInv
    <2>4. proofs # {} => owner = PrincipalOf[c]
      BY <2>1 DEF AuthorityInv, ProofInv
    <2>5. AuthorityType' /\ SettleInv'
      BY <2>1, <2>2 DEF AuthorityInv, AuthorityType, SpaceStates, SettleInv
    <2>6. LeaseMatchesLifecycle' /\ TicketMatchesSpace' /\ FenceInv'
      BY <2>1, <2>2, <2>3 DEF LeaseMatchesLifecycle, TicketMatchesSpace, FenceInv
    <2>7. ProofInv'
      BY <1>0, <2>1, <2>2, <2>4 DEF AuthorityInv, AuthorityType, ProofInv, Proofs
    <2> QED
      BY <2>5, <2>6, <2>7 DEF AuthorityInv
  <1>4. ASSUME NEW c \in Conns, ControlTicket(c) PROVE AuthorityInv'
    BY <1>4, AuthorityUntouched DEF ControlTicket, authorityState, opVars
  <1> QED
    BY <1>1, <1>2, <1>3, <1>4, FenceStarts, FenceRetries, FenceOpSteps, FenceCompletes DEF LeaseNext

\* The invariant holds in every reachable state.
THEOREM AuthoritySafety == Spec => []AuthorityInv
  <1>1. AuthorityInv /\ [Next]_vars => AuthorityInv'
    <2> SUFFICES ASSUME AuthorityInv, [Next]_vars PROVE AuthorityInv'
      OBVIOUS
    <2>1. CASE PageNext \/ ActionNext
      BY <2>1, PageFrame, ActionFrame, AuthorityUntouched
    <2>2. CASE UNCHANGED vars
      BY <2>2, AuthorityUntouched DEF vars, authorityState, authorityVars, opVars
    <2> QED
      BY <2>1, <2>2, HostSteps, LeaseSteps, FinishSteps DEF Next
  <1> QED
    BY <1>1, AuthorityInit, PTL DEF Spec

\* For any number of connections, principals, epochs, restarts and requests in
\* flight: leases, pending fences, tickets and takeover proofs fit the lifecycle
\* of their space, which is what validate_state asks of them.
THEOREM AuthorityStaysValid == Spec => []AuthorityValid
  BY AuthoritySafety, AuthorityInvImplies, PTL

-----------------------------------------------------------------------------
(* What is done to the space.                                              *)

workState == <<lifecycle, receipt, queue, dispatching, reconciling>>

WorkType ==
    /\ receipt \in [Actions -> Receipts]
    /\ \A a \in Actions : receipt[a].status = "Queued" => receipt[a].page \in Pages
    /\ dispatching \subseteq DispatchOps
    /\ \A o \in dispatching : o.at = "finish" => o.outcome # "None"
    /\ reconciling \subseteq ReconcileOps

WorkInv == WorkType /\ FenceStopsWork /\ OneMutationInBridge

\* It holds in the initial state.
LEMMA WorkInit == Init => WorkInv
  <1> SUFFICES ASSUME Init PROVE WorkInv
    OBVIOUS
  <1>1. NoReceipt \in Receipts /\ NoReceipt.status = "Absent"
    BY DEF NoReceipt, Receipts
  <1>2. receipt = [a \in Actions |-> NoReceipt] /\ dispatching = {} /\ reconciling = {}
        /\ lifecycle = "Absent"
    BY DEF Init
  <1>3. WorkType
    BY <1>1, <1>2 DEF WorkType
  <1> QED
    BY <1>2, <1>3 DEF WorkInv, FenceStopsWork, OneMutationInBridge

\* Steps that touch nothing of it keep it.
LEMMA WorkUntouched ==
  ASSUME WorkInv, UNCHANGED workState PROVE WorkInv'
  BY DEF WorkInv, WorkType, FenceStopsWork, OneMutationInBridge, workState

\* So do steps that only move the space, to where work is allowed or from where
\* there was none.
LEMMA WorkMoved ==
  ASSUME WorkInv, UNCHANGED <<receipt, queue, dispatching, reconciling>>,
         \/ lifecycle' \notin {"FencePending", "UserOwned", "Orphaned"}
         \/ lifecycle \in {"FencePending", "UserOwned", "Orphaned"}
  PROVE  WorkInv'
  BY DEF WorkInv, WorkType, FenceStopsWork, OneMutationInBridge

\* A cancelled receipt, and one whose outcome is unknown, are receipts.
LEMMA ReceiptSettled ==
  ASSUME NEW r \in Receipts
  PROVE  /\ [r EXCEPT !.status = "Cancelled"] \in Receipts
         /\ [r EXCEPT !.status = "Cancelled"].status = "Cancelled"
         /\ [r EXCEPT !.status = "Unknown", !.recon = "Required"] \in Receipts
         /\ [r EXCEPT !.status = "Unknown", !.recon = "Required"].status = "Unknown"
  BY DEF Receipts

\* A fence leaves nothing queued or running.
LEMMA InterruptionQuiet ==
  ASSUME receipt \in [Actions -> Receipts]
  PROVE  /\ InterruptedReceipts \in [Actions -> Receipts]
         /\ \A a \in Actions : InterruptedReceipts[a].status \notin {"Queued", "Running"}
  <1>1. ASSUME NEW a \in Actions
        PROVE  /\ InterruptedReceipts[a] \in Receipts
               /\ InterruptedReceipts[a].status \notin {"Queued", "Running"}
    <2>0. receipt[a] \in Receipts
      OBVIOUS
    <2>1. CASE receipt[a].status = "Queued"
      <3>1. InterruptedReceipts[a] = [receipt[a] EXCEPT !.status = "Cancelled"]
        BY <2>1, Zenon DEF InterruptedReceipts
      <3>2. InterruptedReceipts[a] \in Receipts /\ InterruptedReceipts[a].status = "Cancelled"
        BY <2>0, <3>1, ReceiptSettled, Zenon
      <3> QED
        BY <3>2
    <2>2. CASE receipt[a].status = "Running"
      <3>1. InterruptedReceipts[a] = [receipt[a] EXCEPT !.status = "Unknown", !.recon = "Required"]
        <4>1. receipt[a].status # "Queued"
          BY <2>2
        <4> QED
          BY <2>2, <4>1, Zenon DEF InterruptedReceipts
      <3>2. InterruptedReceipts[a] \in Receipts /\ InterruptedReceipts[a].status = "Unknown"
        BY <2>0, <3>1, ReceiptSettled, Zenon
      <3> QED
        BY <3>2
    <2>3. CASE receipt[a].status \notin {"Queued", "Running"}
      <3>1. InterruptedReceipts[a] = receipt[a]
        BY <2>3 DEF InterruptedReceipts
      <3> QED
        BY <2>0, <2>3, <3>1
    <2> QED
      BY <2>1, <2>2, <2>3
  <1>2. InterruptedReceipts = [a \in Actions |-> InterruptedReceipts[a]]
    BY Zenon DEF InterruptedReceipts
  <1> QED
    BY <1>1, <1>2

StoppedReceipts ==
    [a \in Actions |->
        IF receipt[a].status = "Running"
        THEN [receipt[a] EXCEPT !.status = "Unknown", !.recon = "Required"]
        ELSE receipt[a]]

\* A shutdown, and the recovery of a space that no fence interrupted, leave
\* nothing running and queue nothing.
LEMMA StopQuiet ==
  ASSUME receipt \in [Actions -> Receipts]
  PROVE  /\ StoppedReceipts \in [Actions -> Receipts]
         /\ \A a \in Actions :
               /\ StoppedReceipts[a].status # "Running"
               /\ StoppedReceipts[a].status = "Queued" => StoppedReceipts[a] = receipt[a]
  <1>1. ASSUME NEW a \in Actions
        PROVE  /\ StoppedReceipts[a] \in Receipts
               /\ StoppedReceipts[a].status # "Running"
               /\ StoppedReceipts[a].status = "Queued" => StoppedReceipts[a] = receipt[a]
    <2>0. receipt[a] \in Receipts
      OBVIOUS
    <2>1. CASE receipt[a].status = "Running"
      <3>1. StoppedReceipts[a] = [receipt[a] EXCEPT !.status = "Unknown", !.recon = "Required"]
        BY <2>1, Zenon DEF StoppedReceipts
      <3>2. StoppedReceipts[a] \in Receipts /\ StoppedReceipts[a].status = "Unknown"
        BY <2>0, <3>1, ReceiptSettled, Zenon
      <3> QED
        BY <3>2
    <2>2. CASE receipt[a].status # "Running"
      <3>1. StoppedReceipts[a] = receipt[a]
        BY <2>2, Zenon DEF StoppedReceipts
      <3> QED
        BY <2>0, <2>2, <3>1
    <2> QED
      BY <2>1, <2>2
  <1>2. StoppedReceipts = [a \in Actions |-> StoppedReceipts[a]]
    BY Zenon DEF StoppedReceipts
  <1> QED
    BY <1>1, <1>2

\* Connections, shutdown and restart: recovery interrupts what the crash left.
LEMMA WorkHostSteps ==
  ASSUME WorkInv, HostNext PROVE WorkInv'
  <1>0. receipt \in [Actions -> Receipts]
    BY DEF WorkInv, WorkType
  <1>1. ASSUME NEW c \in Conns, Hello(c) \/ Disconnect(c) PROVE WorkInv'
    BY <1>1, WorkUntouched DEF Hello, Disconnect, workState, authorityVars, actionVars, opVars
  <1>2. CASE HostTransition \/ BridgeLost
    BY <1>2, WorkUntouched
       DEF HostTransition, BridgeLost, workState, authorityVars, actionVars, opVars
  <1>3. CASE Shutdown
    <2>1. receipt' = StoppedReceipts /\ UNCHANGED <<lifecycle, queue, dispatching, reconciling>>
      BY <1>3 DEF Shutdown, StoppedReceipts, authorityVars, opVars
    <2>2. \A a \in Actions : receipt'[a].status # "Running"
                             /\ (receipt'[a].status = "Queued" => receipt'[a] = receipt[a])
      BY <1>0, <2>1, StopQuiet
    <2>3. WorkType'
      BY <1>0, <2>1, <2>2, StopQuiet DEF WorkInv, WorkType
    <2>4. FenceStopsWork' /\ OneMutationInBridge'
      BY <2>1, <2>2 DEF WorkInv, FenceStopsWork, OneMutationInBridge
    <2> QED
      BY <2>3, <2>4 DEF WorkInv
  <1>4. CASE Restart
    <2>1. dispatching' = {} /\ reconciling' = {}
      BY <1>4 DEF Restart
    <2>2. CASE lifecycle \in Interrupted
      <3>1. receipt' = InterruptedReceipts /\ queue' = <<>>
        BY <1>4, <2>2 DEF Restart, RecoverActions
      <3>2. receipt' \in [Actions -> Receipts]
            /\ \A a \in Actions : receipt'[a].status \notin {"Queued", "Running"}
        BY <1>0, <3>1, InterruptionQuiet
      <3> QED
        BY <2>1, <3>1, <3>2 DEF WorkInv, WorkType, FenceStopsWork, OneMutationInBridge
    <2>3. CASE lifecycle \notin Interrupted
      <3>1. receipt' = StoppedReceipts /\ UNCHANGED <<lifecycle, queue>>
        BY <1>4, <2>3 DEF Restart, RecoverActions, StoppedReceipts
      <3>2. \A a \in Actions : receipt'[a].status # "Running"
                               /\ (receipt'[a].status = "Queued" => receipt'[a] = receipt[a])
        BY <1>0, <3>1, StopQuiet
      <3>3. WorkType'
        BY <1>0, <2>1, <3>1, <3>2, StopQuiet DEF WorkInv, WorkType
      <3> QED
        BY <2>1, <3>1, <3>2, <3>3 DEF WorkInv, FenceStopsWork, OneMutationInBridge
    <2> QED
      BY <2>2, <2>3
  <1> QED
    BY <1>1, <1>2, <1>3, <1>4 DEF HostNext

\* A fence that interrupts the work may put the space anywhere.
LEMMA WorkInterrupted ==
  ASSUME WorkInv, InterruptActions, UNCHANGED <<dispatching, reconciling>>
  PROVE  WorkInv'
  <1>0. receipt \in [Actions -> Receipts]
    BY DEF WorkInv, WorkType
  <1>1. receipt' \in [Actions -> Receipts] /\ queue' = <<>>
        /\ \A a \in Actions : receipt'[a].status \notin {"Queued", "Running"}
    BY <1>0, InterruptionQuiet DEF InterruptActions
  <1> QED
    BY <1>1 DEF WorkInv, WorkType, FenceStopsWork, OneMutationInBridge

\* Leases and fences: a fence interrupts the work, and where it does not (a space
\* taken from the user by ticket) there was none.
LEMMA WorkLeaseSteps ==
  ASSUME AuthorityInv, WorkInv, LeaseNext PROVE WorkInv'
  <1> USE DEF authorityVars, actionVars, opVars, otherOps
  <1>1. CASE LeaseExpires
    BY <1>1, WorkUntouched DEF LeaseExpires, workState
  <1>2. ASSUME NEW c \in Conns, CreateSpace(c) \/ AcquireLease(c) PROVE WorkInv'
    BY <1>2, WorkMoved DEF CreateSpace, AcquireLease
  <1>3. ASSUME NEW c \in Conns,
               ControlTicket(c) \/ AcknowledgeFence(c) \/ AcknowledgeReturnControl(c)
        PROVE  WorkInv'
    BY <1>3, WorkUntouched DEF ControlTicket, AcknowledgeFence, AcknowledgeReturnControl, workState
  <1>4. ASSUME NEW c \in Conns, ReturnControl(c) PROVE WorkInv'
    BY <1>4, WorkInterrupted DEF ReturnControl
  <1>5. ASSUME NEW c \in Conns, NEW then \in {"AgentOwned", "Paused", "HandoffRequested"},
               Takeover(c, then)
        PROVE  WorkInv'
    BY <1>5, WorkInterrupted DEF Takeover
  <1>6. ASSUME NEW c \in Conns, NEW t \in issued, TakeoverWithControlTicket(c, t) PROVE WorkInv'
    BY <1>6, WorkMoved DEF TakeoverWithControlTicket
  <1>7. ASSUME NEW o \in fencing, BridgeFence(o) \/ RebindPages(o) \/ FenceEnds(o) PROVE WorkInv'
    BY <1>7, WorkUntouched DEF BridgeFence, RebindPages, FenceEnds, workState
  <1>8. ASSUME NEW o \in fencing, FinishFence(o) PROVE WorkInv'
    BY <1>8, WorkMoved DEF FinishFence
  <1>9. ASSUME NEW o \in fencing, FinishUserReturn(o) PROVE WorkInv'
    BY <1>9, WorkMoved DEF FinishUserReturn, UserReturnClaim
  <1>10. ASSUME NEW o \in fencing, SettleFencedSpace(o) PROVE WorkInv'
    <2>1. lifecycle' \in {"AgentOwned", "Paused", "HandoffRequested"}
      BY <1>10 DEF SettleFencedSpace, AuthorityInv, AuthorityType, FenceOps
    <2> QED
      BY <1>10, <2>1, WorkMoved DEF SettleFencedSpace
  <1> QED
    BY <1>1, <1>2, <1>3, <1>4, <1>5, <1>6, <1>7, <1>8, <1>9, <1>10 DEF LeaseNext

\* The operations on pages neither move the space nor touch its work.
LEMMA WorkPageSteps ==
  ASSUME WorkInv, PageNext PROVE WorkInv'
  <1> USE DEF workState, authorityVars, actionVars, notCreating, notClosing, opVars
  <1>1. ASSUME NEW c \in Conns, NEW p \in Pages,
               CreatePageAt(c, p) \/ CreateManagedPage(c, p) \/ BindPage(c, p)
               \/ MarkPageLost(c, p) \/ ClosePage(c, p)
        PROVE  UNCHANGED workState
    BY <1>1 DEF CreatePageAt, CreateManagedPage, PlanPage, BindPage, MarkPageLost, ClosePage
  <1>2. ASSUME NEW p \in Pages, TargetLostEvent(p) PROVE UNCHANGED workState
    BY <1>2 DEF TargetLostEvent
  <1>3. ASSUME NEW o \in creating, BridgeCreatePage(o) \/ BindManagedPage(o) \/ CreateEnds(o)
        PROVE  UNCHANGED workState
    BY <1>3 DEF BridgeCreatePage, BindManagedPage, CreateEnds
  <1>4. ASSUME NEW o \in closing,
               BridgeClosePage(o) \/ BridgeCloseFails(o) \/ FinishClosePage(o) \/ CloseFailed(o)
               \/ CloseEnds(o)
        PROVE  UNCHANGED workState
    BY <1>4 DEF BridgeClosePage, BridgeCloseFails, FinishClosePage, CloseFailed, CloseEnds
  <1> HIDE DEF workState
  <1> QED
    BY <1>1, <1>2, <1>3, <1>4, WorkUntouched DEF PageNext

\* Finishing, releasing and pruning move the space to where no work is asked for.
LEMMA WorkFinishSteps ==
  ASSUME WorkInv, FinishNext PROVE WorkInv'
  <1> USE DEF authorityVars, actionVars, notFinishing, opVars
  <1>1. ASSUME NEW c \in Conns, FinishSpace(c) PROVE WorkInv'
    BY <1>1, WorkUntouched DEF FinishSpace, workState
  <1>2. ASSUME NEW c \in Conns, ReleaseSpace(c) PROVE WorkInv'
    BY <1>2, WorkMoved DEF ReleaseSpace
  <1>3. ASSUME NEW c \in Conns, PruneReleasedSpaces(c) PROVE WorkInv'
    <2>1. NoReceipt \in Receipts /\ NoReceipt.status = "Absent"
      BY DEF NoReceipt, Receipts
    <2>2. receipt' = [a \in Actions |-> NoReceipt] /\ lifecycle' = "Pruned"
          /\ UNCHANGED <<dispatching, reconciling>>
      BY <1>3 DEF PruneReleasedSpaces
    <2> QED
      BY <2>1, <2>2 DEF WorkInv, WorkType, FenceStopsWork, OneMutationInBridge
  <1>4. ASSUME NEW o \in finishing, DrainSpace(o) \/ CompleteFinish(o) PROVE WorkInv'
    BY <1>4, WorkMoved DEF DrainSpace, CompleteFinish
  <1>5. ASSUME NEW o \in finishing,
               ListMissingPages(o) \/ BridgeCleanup(o) \/ BridgeCleanupFails(o)
               \/ FinishPageCleanup(o) \/ RecordCleanupFailure(o) \/ FinishEnds(o)
        PROVE  WorkInv'
    BY <1>5, WorkUntouched
       DEF ListMissingPages, BridgeCleanup, BridgeCleanupFails, FinishPageCleanup,
           RecordCleanupFailure, FinishEnds, workState
  <1>6. ASSUME NEW o \in finishing, NEW p \in Pages, SweepPage(o, p) \/ CleanupPage(o, p)
        PROVE  WorkInv'
    BY <1>6, WorkUntouched DEF SweepPage, CleanupPage, workState
  <1> QED
    BY <1>1, <1>2, <1>3, <1>4, <1>5, <1>6 DEF FinishNext

\* One receipt is replaced.
LEMMA OneReceipt ==
  ASSUME WorkType, NEW a \in Actions, NEW r \in Receipts, receipt' = [receipt EXCEPT ![a] = r],
         r.status = "Queued" => r.page \in Pages
  PROVE  /\ receipt' \in [Actions -> Receipts]
         /\ \A b \in Actions : receipt'[b].status = "Queued" => receipt'[b].page \in Pages
         /\ receipt'[a] = r
         /\ \A b \in Actions \ {a} : receipt'[b] = receipt[b]
  BY DEF WorkType

Holding == {"recheck", "bridge", "finish"}

\* A dispatch moves on; it comes to hold the permit only if the permit was free.
LEMMA DispatchMoves ==
  ASSUME WorkInv, NEW o \in dispatching, NEW q \in DispatchOps,
         dispatching' = (dispatching \ {o}) \cup {q},
         q.action = o.action,
         q.at = "finish" => q.outcome # "None",
         q.at \in Holding /\ Mutating(q.action) => o.at \in Holding \/ PermitFree
  PROVE  /\ dispatching' \subseteq DispatchOps
         /\ \A x \in dispatching' : x.at = "finish" => x.outcome # "None"
         /\ OneMutationInBridge'
  <1>1. dispatching' \subseteq DispatchOps
        /\ \A x \in dispatching' : x.at = "finish" => x.outcome # "None"
    BY DEF WorkInv, WorkType
  <1>2. \A x \in dispatching \ {o} :
          ~(/\ Mutating(x.action) /\ x.at \in Holding
            /\ Mutating(q.action) /\ q.at \in Holding)
    BY DEF WorkInv, OneMutationInBridge, PermitFree, PermitOut, Holding
  <1>3. OneMutationInBridge'
    <2> SUFFICES ASSUME NEW x \in dispatching', NEW y \in dispatching',
                        Mutating(x.action) /\ x.at \in Holding,
                        Mutating(y.action) /\ y.at \in Holding
                 PROVE  x = y
      BY DEF OneMutationInBridge, Holding
    <2>1. CASE x \in dispatching \ {o} /\ y \in dispatching \ {o}
      BY <2>1 DEF WorkInv, OneMutationInBridge, Holding
    <2>2. CASE x = q \/ y = q
      BY <1>2, <2>2
    <2> QED
      BY <2>1, <2>2
  <1> QED
    BY <1>1, <1>3

\* The steps of a dispatch that change no receipt.
LEMMA DispatchSteps ==
  ASSUME WorkInv, NEW o \in dispatching,
         \/ AdmitMutation(o) \/ GrantPermit(o) \/ RefuseAdmission(o) \/ RecheckDispatch(o)
         \/ RecheckFails(o) \/ BridgeDispatch(o) \/ BridgeDispatchFails(o) \/ FinishDispatchFails(o)
  PROVE  WorkInv'
  <1>0. o \in DispatchOps
    BY DEF WorkInv, WorkType
  <1>1. UNCHANGED <<lifecycle, receipt, queue, reconciling>>
    BY DEF AdmitMutation, GrantPermit, RefuseAdmission, RecheckDispatch, RecheckFails,
           BridgeDispatch, BridgeDispatchFails, FinishDispatchFails, DispatchStep, actionVars,
           authorityVars, notDispatching
  <1>2. /\ dispatching' \subseteq DispatchOps
        /\ \A x \in dispatching' : x.at = "finish" => x.outcome # "None"
        /\ OneMutationInBridge'
    <2>1. ASSUME NEW at \in {"wait", "recheck", "bridge"},
                 DispatchStep(o, {[o EXCEPT !.at = at]}),
                 at \in Holding => o.at \in Holding \/ PermitFree
          PROVE  /\ dispatching' \subseteq DispatchOps
                 /\ \A x \in dispatching' : x.at = "finish" => x.outcome # "None"
                 /\ OneMutationInBridge'
      <3> DEFINE q == [o EXCEPT !.at = at]
      <3>1. q \in DispatchOps /\ q.at = at /\ q.action = o.action
        BY <1>0 DEF DispatchOps
      <3>2. dispatching' = (dispatching \ {o}) \cup {q}
        BY <2>1, Zenon DEF DispatchStep
      <3> HIDE DEF q
      <3> QED
        BY <2>1, <3>1, <3>2, DispatchMoves
    <2>2. ASSUME NEW r \in {"Succeeded", "Failed", "Unknown"}, o.at = "bridge",
                 DispatchStep(o, {[o EXCEPT !.at = "finish", !.outcome = r]})
          PROVE  /\ dispatching' \subseteq DispatchOps
                 /\ \A x \in dispatching' : x.at = "finish" => x.outcome # "None"
                 /\ OneMutationInBridge'
      <3> DEFINE q == [o EXCEPT !.at = "finish", !.outcome = r]
      <3>1. q \in DispatchOps /\ q.at = "finish" /\ q.action = o.action /\ q.outcome = r
        BY <1>0 DEF DispatchOps
      <3>2. dispatching' = (dispatching \ {o}) \cup {q}
        BY <2>2, Zenon DEF DispatchStep
      <3> HIDE DEF q
      <3> QED
        BY <2>2, <3>1, <3>2, DispatchMoves DEF Holding
    <2>3. ASSUME DispatchStep(o, {})
          PROVE  /\ dispatching' \subseteq DispatchOps
                 /\ \A x \in dispatching' : x.at = "finish" => x.outcome # "None"
                 /\ OneMutationInBridge'
      BY <2>3 DEF DispatchStep, WorkInv, WorkType, OneMutationInBridge
    <2>4. CASE AdmitMutation(o)
      BY <2>4, <2>1 DEF AdmitMutation, Holding
    <2>5. CASE GrantPermit(o)
      BY <2>5, <2>1 DEF GrantPermit, Holding
    <2>6. CASE RecheckDispatch(o)
      BY <2>6, <2>1 DEF RecheckDispatch, Holding
    <2>7. CASE RefuseAdmission(o) \/ RecheckFails(o) \/ FinishDispatchFails(o)
      BY <2>7, <2>3 DEF RefuseAdmission, RecheckFails, FinishDispatchFails
    <2>8. CASE BridgeDispatch(o) \/ BridgeDispatchFails(o)
      BY <2>8, <2>2 DEF BridgeDispatch, BridgeDispatchFails
    <2> QED
      BY <2>4, <2>5, <2>6, <2>7, <2>8
  <1> QED
    BY <1>1, <1>2 DEF WorkInv, WorkType, FenceStopsWork

\* Enqueueing and the first critical section of a dispatch.
LEMMA WorkBegins ==
  ASSUME AuthorityInv, WorkInv, NEW c \in Conns, NEW a \in Actions
  PROVE  /\ \A p \in Pages : EnqueueAction(c, a, p) => WorkInv'
         /\ DispatchAction(c, a) => WorkInv'
         /\ BeginReconcile(c, a) => WorkInv'
  <1>0. receipt[a] \in Receipts /\ lease.epoch \in Nat
    BY DEF WorkInv, WorkType, AuthorityInv, AuthorityType, Leases
  <1>1. ASSUME NEW p \in Pages, EnqueueAction(c, a, p) PROVE WorkInv'
    <2> DEFINE r == [status |-> "Queued", epoch |-> lease.epoch, page |-> p,
                     recon |-> "NotRequired"]
    <2>1. r \in Receipts /\ r.page \in Pages
      BY <1>0 DEF Receipts
    <2>2. /\ receipt' = [receipt EXCEPT ![a] = r] /\ lifecycle = "AgentOwned"
          /\ UNCHANGED <<lifecycle, dispatching, reconciling>>
      BY <1>1 DEF EnqueueAction, AuthorizeSpace, authorityVars, opVars
    <2> HIDE DEF r
    <2> QED
      BY <2>1, <2>2, OneReceipt DEF WorkInv, WorkType, FenceStopsWork, OneMutationInBridge
  <1>2. ASSUME DispatchAction(c, a) PROVE WorkInv'
    <2> DEFINE r == [receipt[a] EXCEPT !.status = "Running"]
               q == [at |-> IF Mutating(a) THEN "admit" ELSE "recheck", conn |-> c, action |-> a,
                     epoch |-> receipt[a].epoch, page |-> receipt[a].page, outcome |-> "None"]
    <2>1. r \in Receipts /\ r.status = "Running"
      BY <1>0 DEF Receipts
    <2>2. q \in DispatchOps /\ q.at # "finish" /\ (Mutating(q.action) => q.at = "admit")
      <3>1. receipt[a].page \in Pages
        BY <1>2 DEF DispatchAction, WorkInv, WorkType
      <3> QED
        BY <1>0, <3>1 DEF DispatchOps, Receipts
    <2>3. receipt' = [receipt EXCEPT ![a] = r]
      BY <1>2, Zenon DEF DispatchAction
    <2>4. /\ dispatching' = dispatching \cup {q} /\ lifecycle = "AgentOwned"
          /\ UNCHANGED <<lifecycle, reconciling>>
      BY <1>2 DEF DispatchAction, AuthorizeSpace, authorityVars, notDispatching
    <2> HIDE DEF r, q
    <2>5. WorkType'
      BY <2>1, <2>2, <2>3, <2>4, OneReceipt DEF WorkInv, WorkType
    <2>6. OneMutationInBridge'
      BY <2>2, <2>4 DEF WorkInv, OneMutationInBridge
    <2> QED
      BY <2>4, <2>5, <2>6 DEF WorkInv, FenceStopsWork
  <1>3. ASSUME BeginReconcile(c, a) PROVE WorkInv'
    <2> DEFINE r == [receipt[a] EXCEPT !.recon = "InProgress"]
    <2>1. r \in Receipts /\ r.status = receipt[a].status
      BY <1>0 DEF Receipts
    <2>2. receipt' = [receipt EXCEPT ![a] = r]
      BY <1>3, Zenon DEF BeginReconcile
    <2>3. /\ reconciling' = reconciling \cup {[conn |-> c, action |-> a, epoch |-> lease.epoch]}
          /\ receipt[a].status = "Unknown" /\ lifecycle = "AgentOwned"
          /\ UNCHANGED <<lifecycle, dispatching>>
      BY <1>3 DEF BeginReconcile, ReconcileClaim, StillAuthorized, authorityVars, notReconciling
    <2>4. reconciling' \subseteq ReconcileOps
      BY <1>0, <2>3 DEF WorkInv, WorkType, ReconcileOps
    <2> HIDE DEF r
    <2>5. WorkType'
      BY <2>1, <2>2, <2>3, <2>4, OneReceipt DEF WorkInv, WorkType
    <2> QED
      BY <2>3, <2>5 DEF WorkInv, FenceStopsWork, OneMutationInBridge
  <1> QED
    BY <1>1, <1>2, <1>3

\* An outcome is recorded, by the dispatch or by reconciliation.
LEMMA WorkEnds ==
  ASSUME WorkInv
  PROVE  /\ \A o \in dispatching : FinishDispatch(o) => WorkInv'
         /\ \A o \in reconciling : FinishReconcile(o) => WorkInv'
  <1>1. ASSUME NEW o \in dispatching, FinishDispatch(o) PROVE WorkInv'
    <2>0. o \in DispatchOps /\ o.action \in Actions /\ receipt[o.action] \in Receipts
          /\ o.outcome \in {"Succeeded", "Failed", "Unknown"}
      BY <1>1 DEF FinishDispatch, WorkInv, WorkType, DispatchOps
    <2>1. dispatching' = dispatching \ {o} /\ UNCHANGED <<lifecycle, queue, reconciling>>
      BY <1>1 DEF FinishDispatch, DispatchStep, authorityVars, notDispatching
    <2>2. OneMutationInBridge'
      BY <2>1 DEF WorkInv, OneMutationInBridge
    <2>3. CASE receipt[o.action].status # "Running"
      <3>1. receipt' = receipt
        BY <1>1, <2>3 DEF FinishDispatch, RecordOutcome
      <3> QED
        BY <2>1, <2>2, <3>1 DEF WorkInv, WorkType, FenceStopsWork
    <2>4. CASE receipt[o.action].status = "Running"
      <3>1. lifecycle \notin {"FencePending", "UserOwned", "Orphaned"}
        BY <2>0, <2>4 DEF WorkInv, FenceStopsWork
      <3> DEFINE r == [receipt[o.action] EXCEPT !.status = o.outcome]
                 u == [receipt[o.action] EXCEPT !.status = "Unknown", !.recon = "Required"]
      <3>2. r \in Receipts /\ r.status = o.outcome
        BY <2>0 DEF Receipts
      <3>3. u \in Receipts /\ u.status = "Unknown"
        BY <2>0, ReceiptSettled
      <3>4. receipt' = [receipt EXCEPT ![o.action] = r] \/ receipt' = [receipt EXCEPT ![o.action] = u]
        <4>1. RecordOutcome(o)
          BY <1>1 DEF FinishDispatch
        <4>2. CASE LeaseCurrent(o) /\ o.outcome # "Unknown"
          BY <2>4, <4>1, <4>2, Zenon DEF RecordOutcome
        <4>3. CASE ~(LeaseCurrent(o) /\ o.outcome # "Unknown")
          <5>1. receipt' = [receipt EXCEPT ![o.action].status = "Unknown",
                                           ![o.action].recon = "Required"]
            BY <2>4, <4>1, <4>3, Zenon DEF RecordOutcome
          <5>2. [receipt EXCEPT ![o.action].status = "Unknown", ![o.action].recon = "Required"]
                = [receipt EXCEPT ![o.action] = u]
            BY <2>0 DEF WorkInv, WorkType
          <5> QED
            BY <5>1, <5>2
        <4> QED
          BY <4>2, <4>3
      <3> HIDE DEF r, u
      <3>5. WorkType'
        BY <2>0, <2>1, <3>2, <3>3, <3>4, OneReceipt DEF WorkInv, WorkType
      <3> QED
        BY <2>1, <2>2, <3>1, <3>5 DEF WorkInv, FenceStopsWork
    <2> QED
      BY <2>3, <2>4
  <1>2. ASSUME NEW o \in reconciling, FinishReconcile(o) PROVE WorkInv'
    <2>0. o.action \in Actions /\ receipt[o.action] \in Receipts
      BY DEF WorkInv, WorkType, ReconcileOps
    <2>1. PICK k \in Answers(o.action) : receipt' = [receipt EXCEPT ![o.action] = Reconciled(o, k)]
      BY <1>2 DEF FinishReconcile
    <2>2. /\ reconciling' = reconciling \ {o}
          /\ UNCHANGED <<lifecycle, queue, dispatching>>
      BY <1>2 DEF FinishReconcile, authorityVars, notReconciling
    <2>3. /\ k[1] \in {"Unknown", "Succeeded", "Failed"}
          /\ k[2] \in {"Required", "Reconciled", "RequiresConfirmation"}
      BY DEF Answers
    <2> DEFINE r == Reconciled(o, k)
    <2>4. r \in Receipts /\ (r = receipt[o.action] \/ r.status \in {"Unknown", "Succeeded", "Failed"})
      <3>1. CASE receipt[o.action].status # "Unknown"
        BY <2>0, <3>1 DEF Reconciled
      <3>2. CASE receipt[o.action].status = "Unknown"
                 /\ Ready /\ ReconcileClaim(o.conn, o.action, o.epoch)
        <4>1. r = [receipt[o.action] EXCEPT !.status = k[1], !.recon = k[2]]
          BY <3>2, Zenon DEF Reconciled
        <4>2. /\ [receipt[o.action] EXCEPT !.status = k[1], !.recon = k[2]] \in Receipts
              /\ [receipt[o.action] EXCEPT !.status = k[1], !.recon = k[2]].status = k[1]
          BY <2>0, <2>3 DEF Receipts
        <4>3. r \in Receipts /\ r.status = k[1]
          BY <4>1, <4>2, Zenon
        <4> QED
          BY <2>3, <4>3
      <3>3. CASE receipt[o.action].status = "Unknown"
                 /\ ~(Ready /\ ReconcileClaim(o.conn, o.action, o.epoch))
        <4>1. r = [receipt[o.action] EXCEPT !.recon = "Required"]
          BY <3>3, Zenon DEF Reconciled
        <4>2. /\ [receipt[o.action] EXCEPT !.recon = "Required"] \in Receipts
              /\ [receipt[o.action] EXCEPT !.recon = "Required"].status = "Unknown"
          BY <2>0, <3>3 DEF Receipts
        <4>3. r \in Receipts /\ r.status = "Unknown"
          BY <4>1, <4>2, Zenon
        <4> QED
          BY <4>3
      <3> QED
        BY <3>1, <3>2, <3>3
    <2> HIDE DEF r
    <2>5. r.status = "Queued" => r.page \in Pages
      BY <2>0, <2>4 DEF WorkInv, WorkType
    <2>6. receipt' = [receipt EXCEPT ![o.action] = r]
      BY <2>1 DEF r
    <2>7. WorkType'
      BY <2>0, <2>2, <2>4, <2>5, <2>6, OneReceipt DEF WorkInv, WorkType
    <2>8. FenceStopsWork'
      BY <2>0, <2>2, <2>4, <2>5, <2>6, OneReceipt DEF WorkInv, FenceStopsWork
    <2> QED
      BY <2>2, <2>7, <2>8 DEF WorkInv, OneMutationInBridge
  <1> QED
    BY <1>1, <1>2

\* Both invariants hold in every reachable state.
THEOREM WorkSafety == Spec => []WorkInv
  <1>1. WorkInv /\ AuthorityInv /\ [Next]_vars => WorkInv'
    <2> SUFFICES ASSUME WorkInv, AuthorityInv, [Next]_vars PROVE WorkInv'
      OBVIOUS
    <2>1. CASE ActionNext
      BY <2>1, WorkBegins, WorkEnds, DispatchSteps DEF ActionNext
    <2>2. CASE UNCHANGED vars
      BY <2>2, WorkUntouched DEF vars, workState, authorityVars, actionVars, opVars
    <2> QED
      BY <2>1, <2>2, WorkHostSteps, WorkLeaseSteps, WorkPageSteps, WorkFinishSteps DEF Next
  <1> QED
    BY <1>1, WorkInit, AuthoritySafety, PTL DEF Spec

\* For any number of actions, sessions and epochs: a space that is being fenced, is
\* the user's or was orphaned by a restart has nothing queued and nothing running.
THEOREM FencedSpaceIsQuiet == Spec => []FenceStopsWork
  <1>1. WorkInv => FenceStopsWork
    BY DEF WorkInv
  <1> QED
    BY <1>1, WorkSafety, PTL

\* And at most one mutation of the space is past its admission, whatever became
\* of the lease it was dispatched under.
THEOREM MutationsExclusive == Spec => []OneMutationInBridge
  <1>1. WorkInv => OneMutationInBridge
    BY DEF WorkInv
  <1> QED
    BY <1>1, WorkSafety, PTL
=============================================================================
