------------------------- MODULE BrokerLedgerProofs -------------------------
(***************************************************************************)
(* The rest of the ledger's rules, what the browser was made to do, and    *)
(* the end of a space: theorems for every set of connections, principals,  *)
(* pages and actions, and every bound.                                     *)
(***************************************************************************)
EXTENDS BrokerProofs, SequenceTheorems

-----------------------------------------------------------------------------
(* How steps change the receipts.                                          *)

\* What a fence and a restart make of a receipt.
LEMMA InterruptedFields ==
  ASSUME receipt \in [Actions -> Receipts], NEW a \in Actions
  PROVE  /\ receipt[a].status = "Queued" =>
              InterruptedReceipts[a].status = "Cancelled"
              /\ InterruptedReceipts[a].recon = receipt[a].recon
         /\ receipt[a].status = "Running" =>
              InterruptedReceipts[a].status = "Unknown"
              /\ InterruptedReceipts[a].recon = "Required"
         /\ receipt[a].status \notin {"Queued", "Running"} => InterruptedReceipts[a] = receipt[a]
  <1>0. receipt[a] \in Receipts
    OBVIOUS
  <1>1. CASE receipt[a].status = "Queued"
    <2>1. InterruptedReceipts[a] = [receipt[a] EXCEPT !.status = "Cancelled"]
      BY <1>1, Zenon DEF InterruptedReceipts
    <2> QED
      BY <1>0, <1>1, <2>1 DEF Receipts
  <1>2. CASE receipt[a].status = "Running"
    <2>1. receipt[a].status # "Queued"
      BY <1>2
    <2>2. InterruptedReceipts[a] = [receipt[a] EXCEPT !.status = "Unknown", !.recon = "Required"]
      BY <1>2, <2>1, Zenon DEF InterruptedReceipts
    <2> QED
      BY <1>0, <1>2, <2>2 DEF Receipts
  <1>3. CASE receipt[a].status \notin {"Queued", "Running"}
    BY <1>3 DEF InterruptedReceipts
  <1> QED
    BY <1>1, <1>2, <1>3

\* What a shutdown makes of it: the queue is left alone.
LEMMA StoppedFields ==
  ASSUME receipt \in [Actions -> Receipts], NEW a \in Actions
  PROVE  /\ receipt[a].status = "Running" =>
              StoppedReceipts[a].status = "Unknown" /\ StoppedReceipts[a].recon = "Required"
         /\ receipt[a].status # "Running" => StoppedReceipts[a] = receipt[a]
  <1>0. receipt[a] \in Receipts
    OBVIOUS
  <1>1. CASE receipt[a].status = "Running"
    <2>1. StoppedReceipts[a] = [receipt[a] EXCEPT !.status = "Unknown", !.recon = "Required"]
      BY <1>1, Zenon DEF StoppedReceipts
    <2> QED
      BY <1>0, <1>1, <2>1 DEF Receipts
  <1>2. CASE receipt[a].status # "Running"
    BY <1>2 DEF StoppedReceipts
  <1> QED
    BY <1>1, <1>2

\* Receipts and queue are all a step other than those of BrokerActions may do to
\* the actions of a space: nothing, interrupt them, note that what ran is unknown,
\* or forget them with the space.
Forgotten == lifecycle' = "Pruned" /\ receipt' = [a \in Actions |-> NoReceipt] /\ queue' = <<>>

Interruption ==
    \/ UNCHANGED <<receipt, queue>>
    \/ receipt' = InterruptedReceipts /\ queue' = <<>>
    \/ receipt' = StoppedReceipts /\ queue' = queue

Housekeeping ==
    /\ executed' = executed
    /\ dispatching' \in {dispatching, {}}
    /\ lifecycle = "Pruned" => lifecycle' = "Pruned"
    /\ \/ Forgotten
       \/ Interruption /\ (lifecycle' = "Pruned" => lifecycle = "Pruned")

\* Connections, the host's lifecycle and restarts.
LEMMA HostKeeps ==
  ASSUME AuthorityInv, HostNext PROVE Housekeeping
  <1> USE DEF Housekeeping, Interruption
  <1>1. ASSUME NEW c \in Conns, Hello(c) \/ Disconnect(c) PROVE Housekeeping
    BY <1>1 DEF Hello, Disconnect, authorityVars, actionVars, bridgeVars, opVars
  <1>2. CASE HostTransition \/ BridgeLost
    BY <1>2 DEF HostTransition, BridgeLost, LoseBindings, authorityVars, actionVars, bridgeVars, opVars
  <1>3. CASE Shutdown
    BY <1>3 DEF Shutdown, StoppedReceipts, authorityVars, bridgeVars, opVars
  <1>4. CASE Restart
    BY <1>4 DEF Restart, RecoverActions, StoppedReceipts, Interrupted, LoseBindings
  <1> QED
    BY <1>1, <1>2, <1>3, <1>4 DEF HostNext

\* Leases and fences.
LEMMA LeaseKeeps ==
  ASSUME AuthorityInv, LeaseNext PROVE Housekeeping
  <1> USE DEF Housekeeping, Interruption, authorityVars, actionVars, bridgeVars, opVars, otherOps
  <1>1. CASE LeaseExpires
    BY <1>1 DEF LeaseExpires
  <1>2. ASSUME NEW c \in Conns, CreateSpace(c) \/ AcquireLease(c) \/ ControlTicket(c)
               \/ AcknowledgeFence(c) \/ AcknowledgeReturnControl(c)
        PROVE  Housekeeping
    BY <1>2 DEF CreateSpace, AcquireLease, LeaseAvailable, ControlTicket, AcknowledgeFence,
                AcknowledgeReturnControl
  <1>3. ASSUME NEW c \in Conns, ReturnControl(c) PROVE Housekeeping
    BY <1>3 DEF ReturnControl, AuthorizeSpace, BeginFence, InterruptActions
  <1>4. ASSUME NEW c \in Conns, NEW then, Takeover(c, then) PROVE Housekeeping
    BY <1>4 DEF Takeover, Exists, BeginFence, InterruptActions
  <1>5. ASSUME NEW c \in Conns, NEW t, TakeoverWithControlTicket(c, t) PROVE Housekeeping
    BY <1>5 DEF TakeoverWithControlTicket, BeginFence
  <1>6. ASSUME NEW o \in fencing, BridgeFence(o) \/ RebindPages(o) \/ FenceEnds(o)
        PROVE  Housekeeping
    BY <1>6 DEF BridgeFence, Fence, RebindPages, FenceEnds
  <1>7. ASSUME NEW o \in fencing, FinishFence(o) PROVE Housekeeping
    <2>1. lifecycle = "FencePending"
      BY <1>7 DEF FinishFence, FenceClaim, AuthorityInv, FenceInv
    <2> QED
      BY <1>7, <2>1 DEF FinishFence
  <1>8. ASSUME NEW o \in fencing, FinishUserReturn(o) PROVE Housekeeping
    BY <1>8 DEF FinishUserReturn, UserReturnClaim
  <1>9. ASSUME NEW o \in fencing, SettleFencedSpace(o) PROVE Housekeeping
    <2>1. lifecycle = "AgentOwned" /\ o.then # "Pruned"
      BY <1>9 DEF SettleFencedSpace, StillAuthorized, AuthorityInv, SettleInv
    <2> QED
      BY <1>9, <2>1 DEF SettleFencedSpace
  <1> QED
    BY <1>1, <1>2, <1>3, <1>4, <1>5, <1>6, <1>7, <1>8, <1>9 DEF LeaseNext

\* Pages and the end of a space.
LEMMA PagesKeep ==
  ASSUME AuthorityInv, PageNext \/ FinishNext PROVE Housekeeping
  <1> USE DEF Housekeeping, Interruption, authorityVars, actionVars, bridgeVars, opVars, notCreating,
              notClosing, notFinishing
  <1>1. ASSUME NEW c \in Conns, NEW p \in Pages,
               CreatePageAt(c, p) \/ CreateManagedPage(c, p) \/ BindPage(c, p)
               \/ MarkPageLost(c, p) \/ ClosePage(c, p)
        PROVE  Housekeeping
    BY <1>1 DEF CreatePageAt, CreateManagedPage, PlanPage, BindPage, MarkPageLost, ClosePage
  <1>2. ASSUME NEW p \in Pages, TargetLostEvent(p) PROVE Housekeeping
    BY <1>2 DEF TargetLostEvent
  <1>3. ASSUME NEW o \in creating, BridgeCreatePage(o) \/ BindManagedPage(o) \/ CreateEnds(o)
        PROVE  Housekeeping
    BY <1>3 DEF BridgeCreatePage, CreateTarget, BindManagedPage, CreateEnds
  <1>4. ASSUME NEW o \in closing,
               BridgeClosePage(o) \/ BridgeCloseFails(o) \/ FinishClosePage(o) \/ CloseFailed(o)
               \/ CloseEnds(o)
        PROVE  Housekeeping
    BY <1>4 DEF BridgeClosePage, CloseTarget, BridgeCloseFails, FinishClosePage, CloseFailed,
                CloseEnds
  <1>5. ASSUME NEW c \in Conns, FinishSpace(c) \/ ReleaseSpace(c) PROVE Housekeeping
    BY <1>5 DEF FinishSpace, ReleaseSpace
  <1>6. ASSUME NEW c \in Conns, PruneReleasedSpaces(c) PROVE Housekeeping
    BY <1>6 DEF PruneReleasedSpaces, Forgotten
  <1>7. ASSUME NEW o \in finishing,
               ListMissingPages(o) \/ BridgeCleanup(o) \/ BridgeCleanupFails(o)
               \/ FinishPageCleanup(o) \/ RecordCleanupFailure(o) \/ FinishEnds(o)
        PROVE  Housekeeping
    BY <1>7 DEF ListMissingPages, BridgeCleanup, CloseTarget, BridgeCleanupFails, FinishPageCleanup,
                RecordCleanupFailure, FinishEnds
  <1>8. ASSUME NEW o \in finishing, NEW p \in Pages, SweepPage(o, p) \/ CleanupPage(o, p)
        PROVE  Housekeeping
    BY <1>8 DEF SweepPage, CleanupPage
  <1>9. ASSUME NEW o \in finishing, DrainSpace(o) \/ CompleteFinish(o) PROVE Housekeeping
    BY <1>9 DEF DrainSpace, CompleteFinish, FinishClaim
  <1> QED
    BY <1>1, <1>2, <1>3, <1>4, <1>5, <1>6, <1>7, <1>8, <1>9 DEF PageNext, FinishNext

\* All steps but those of BrokerActions.
LEMMA OthersKeep ==
  ASSUME AuthorityInv, [Next]_vars, ~ActionNext PROVE Housekeeping
  <1>1. CASE UNCHANGED vars
    BY <1>1 DEF vars, authorityVars, actionVars, bridgeVars, opVars, Housekeeping, Interruption
  <1> QED
    BY <1>1, HostKeeps, LeaseKeeps, PagesKeep DEF Next

-----------------------------------------------------------------------------
(* The queue and the receipts.                                             *)

QueueInv == queue \in Seq(Actions) /\ QueueMatchesReceipts

ReceiptInv ==
    /\ \A a \in Actions : ReconciliationFits(receipt[a])
    /\ \A a, b \in Actions \ ReadOnlyActions :
          receipt[a].status = "Running" /\ receipt[b].status = "Running" => a = b

\* An action has at most one dispatch, which has performed it only when it comes
\* back with an outcome; what is queued, cancelled or new was never dispatched.
\* The receipts of a forgotten space are gone, what the browser did is not.
ExecutionInv ==
    /\ executed \in [Actions -> Nat]
    /\ \A o, q \in dispatching : o.action = q.action => o = q
    /\ \A o \in dispatching :
          /\ o.at # "finish" => executed[o.action] = 0
          /\ o.at = "finish" /\ o.outcome = "Succeeded" => executed[o.action] = 1
    /\ \A a \in Actions :
          /\ executed[a] <= 1
          /\ \/ receipt[a].status \in {"Queued", "Cancelled"}
             \/ receipt[a].status = "Absent" /\ lifecycle # "Pruned"
             => executed[a] = 0 /\ \A o \in dispatching : o.action # a
          /\ receipt[a].status = "Succeeded" => executed[a] = 1
    /\ lifecycle = "Pruned" => \A a \in Actions : receipt[a] = NoReceipt

LedgerInv == QueueInv /\ ReceiptInv /\ ExecutionInv

\* It holds in the initial state.
LEMMA LedgerInit == Init => LedgerInv
  <1> SUFFICES ASSUME Init PROVE LedgerInv
    OBVIOUS
  <1>1. \A a \in Actions : receipt[a] = NoReceipt /\ executed[a] = 0
    BY DEF Init, BridgeInit
  <1>2. queue = <<>> /\ dispatching = {} /\ executed \in [Actions -> Nat] /\ lifecycle = "Absent"
    BY DEF Init, BridgeInit
  <1>3. QueueInv
    BY <1>1, <1>2, BrokerAssumption DEF QueueInv, QueueMatchesReceipts, NoReceipt
  <1>4. ReceiptInv
    BY <1>1 DEF ReceiptInv, ReconciliationFits, NoReceipt
  <1>5. ExecutionInv
    BY <1>1, <1>2 DEF ExecutionInv, NoReceipt
  <1> QED
    BY <1>3, <1>4, <1>5 DEF LedgerInv

\* Housekeeping keeps it.
LEMMA HousekeepingSteps ==
  ASSUME WorkInv, LedgerInv, Housekeeping PROVE LedgerInv'
  <1>0. receipt \in [Actions -> Receipts]
    BY DEF WorkInv, WorkType
  <1>1. CASE Forgotten
    <2>1. \A a \in Actions : receipt'[a] = NoReceipt
      BY <1>1 DEF Forgotten
    <2>2. QueueInv'
      BY <1>1, <2>1, BrokerAssumption DEF Forgotten, QueueInv, QueueMatchesReceipts, NoReceipt
    <2>3. ReceiptInv'
      BY <2>1 DEF ReceiptInv, ReconciliationFits, NoReceipt
    <2>4. ExecutionInv'
      BY <1>1, <2>1 DEF Forgotten, LedgerInv, ExecutionInv, Housekeeping, NoReceipt
    <2> QED
      BY <2>2, <2>3, <2>4 DEF LedgerInv
  <1>2. CASE receipt' = InterruptedReceipts /\ queue' = <<>>
             /\ (lifecycle' = "Pruned" => lifecycle = "Pruned")
    <2>1. ASSUME NEW a \in Actions
          PROVE  /\ receipt[a].status = "Queued" =>
                      receipt'[a].status = "Cancelled" /\ receipt'[a].recon = receipt[a].recon
                 /\ receipt[a].status = "Running" =>
                      receipt'[a].status = "Unknown" /\ receipt'[a].recon = "Required"
                 /\ receipt[a].status \notin {"Queued", "Running"} => receipt'[a] = receipt[a]
      BY <1>0, <1>2, InterruptedFields, Zenon
    <2>2. QueueInv'
      BY <1>2, <2>1, BrokerAssumption DEF QueueInv, QueueMatchesReceipts
    <2>3. ReceiptInv'
      BY <2>1 DEF LedgerInv, ReceiptInv, ReconciliationFits
    <2>4. ExecutionInv'
      BY <1>2, <2>1 DEF LedgerInv, ExecutionInv, Housekeeping, NoReceipt
    <2> QED
      BY <2>2, <2>3, <2>4 DEF LedgerInv
  <1>3. CASE receipt' = StoppedReceipts /\ queue' = queue
             /\ (lifecycle' = "Pruned" => lifecycle = "Pruned")
    <2>1. ASSUME NEW a \in Actions
          PROVE  /\ receipt[a].status = "Running" =>
                      receipt'[a].status = "Unknown" /\ receipt'[a].recon = "Required"
                 /\ receipt[a].status # "Running" => receipt'[a] = receipt[a]
      BY <1>0, <1>3, StoppedFields, Zenon
    <2>2. QueueInv'
      BY <1>3, <2>1 DEF LedgerInv, QueueInv, QueueMatchesReceipts
    <2>3. ReceiptInv'
      BY <2>1 DEF LedgerInv, ReceiptInv, ReconciliationFits
    <2>4. ExecutionInv'
      BY <1>3, <2>1 DEF LedgerInv, ExecutionInv, Housekeeping, NoReceipt
    <2> QED
      BY <2>2, <2>3, <2>4 DEF LedgerInv
  <1>4. CASE UNCHANGED <<receipt, queue>> /\ (lifecycle' = "Pruned" => lifecycle = "Pruned")
    BY <1>4 DEF LedgerInv, QueueInv, QueueMatchesReceipts, ReceiptInv, ExecutionInv, Housekeeping
  <1> QED
    BY <1>1, <1>2, <1>3, <1>4 DEF Housekeeping, Interruption

\* The steps of a dispatch that change no receipt and reach no browser.
LEMMA DispatchKeeps ==
  ASSUME WorkInv, LedgerInv, NEW o \in dispatching,
         \/ AdmitMutation(o) \/ GrantPermit(o) \/ RefuseAdmission(o) \/ RecheckDispatch(o)
         \/ RecheckFails(o) \/ BridgeDispatchFails(o) \/ FinishDispatchFails(o)
  PROVE  LedgerInv'
  <1>0. o \in DispatchOps
    BY DEF WorkInv, WorkType
  <1>1. UNCHANGED <<lifecycle, receipt, queue, executed>>
    BY DEF AdmitMutation, GrantPermit, RefuseAdmission, RecheckDispatch, RecheckFails,
           BridgeDispatchFails, FinishDispatchFails, DispatchStep, actionVars, bridgeVars, authorityVars
  <1>2. QueueInv' /\ ReceiptInv'
    BY <1>1 DEF LedgerInv, QueueInv, QueueMatchesReceipts, ReceiptInv
  <1> DEFINE Moved == \E q \in DispatchOps :
                         /\ q.action = o.action
                         /\ o.at # "finish"
                         /\ q.outcome # "Succeeded" \/ q.at # "finish"
                         /\ dispatching' = (dispatching \ {o}) \cup {q}
  <1>3. dispatching' \subseteq dispatching \/ Moved
    <2>1. ASSUME NEW at \in {"wait", "recheck", "bridge"}, o.at # "finish",
                 DispatchStep(o, {[o EXCEPT !.at = at]})
          PROVE  Moved
      <3> DEFINE q == [o EXCEPT !.at = at]
      <3>1. q \in DispatchOps /\ q.at = at /\ q.action = o.action
        BY <1>0 DEF DispatchOps
      <3>2. dispatching' = (dispatching \ {o}) \cup {q}
        BY <2>1, Zenon DEF DispatchStep
      <3> HIDE DEF q
      <3> QED
        BY <2>1, <3>1, <3>2
    <2>2. ASSUME NEW r \in {"Failed", "Unknown"}, o.at # "finish",
                 DispatchStep(o, {[o EXCEPT !.at = "finish", !.outcome = r]})
          PROVE  Moved
      <3> DEFINE q == [o EXCEPT !.at = "finish", !.outcome = r]
      <3>1. q \in DispatchOps /\ q.action = o.action /\ q.outcome = r
        BY <1>0 DEF DispatchOps
      <3>2. dispatching' = (dispatching \ {o}) \cup {q}
        BY <2>2, Zenon DEF DispatchStep
      <3> HIDE DEF q
      <3> QED
        BY <2>2, <3>1, <3>2
    <2>3. ASSUME DispatchStep(o, {}) PROVE dispatching' \subseteq dispatching
      BY <2>3 DEF DispatchStep
    <2>4. CASE AdmitMutation(o)
      BY <2>4, <2>1 DEF AdmitMutation
    <2>5. CASE GrantPermit(o)
      BY <2>5, <2>1 DEF GrantPermit
    <2>6. CASE RecheckDispatch(o)
      BY <2>6, <2>1 DEF RecheckDispatch
    <2>7. CASE RefuseAdmission(o) \/ RecheckFails(o) \/ FinishDispatchFails(o)
      BY <2>7, <2>3 DEF RefuseAdmission, RecheckFails, FinishDispatchFails
    <2>8. CASE BridgeDispatchFails(o)
      BY <2>8, <2>2 DEF BridgeDispatchFails
    <2> QED
      BY <2>4, <2>5, <2>6, <2>7, <2>8
  <1>4. ExecutionInv'
    <2>1. CASE dispatching' \subseteq dispatching
      BY <1>1, <2>1 DEF LedgerInv, ExecutionInv
    <2>2. ASSUME NEW q \in DispatchOps, q.action = o.action, o.at # "finish",
                 q.outcome # "Succeeded" \/ q.at # "finish",
                 dispatching' = (dispatching \ {o}) \cup {q}
          PROVE  ExecutionInv'
      BY <1>1, <2>2 DEF LedgerInv, ExecutionInv
    <2> QED
      BY <1>3, <2>1, <2>2
  <1> QED
    BY <1>2, <1>4 DEF LedgerInv

\* The browser performs the action.
LEMMA BridgePerforms ==
  ASSUME WorkInv, LedgerInv, NEW o \in dispatching, BridgeDispatch(o) PROVE LedgerInv'
  <1>0. o \in DispatchOps /\ o.action \in Actions /\ o.at = "bridge"
    BY DEF WorkInv, WorkType, DispatchOps, BridgeDispatch
  <1>1. /\ UNCHANGED <<lifecycle, receipt, queue>>
        /\ executed' = [executed EXCEPT ![o.action] = @ + 1]
    BY DEF BridgeDispatch, DispatchStep, Perform, actionVars, authorityVars
  <1>2. PICK r \in {"Succeeded", "Failed", "Unknown"} :
          DispatchStep(o, {[o EXCEPT !.at = "finish", !.outcome = r]})
    BY DEF BridgeDispatch
  <1> DEFINE q == [o EXCEPT !.at = "finish", !.outcome = r]
  <1>3. q \in DispatchOps /\ q.action = o.action /\ q.at = "finish"
    BY <1>0 DEF DispatchOps
  <1>4. dispatching' = (dispatching \ {o}) \cup {q}
    BY <1>2, Zenon DEF DispatchStep
  <1> HIDE DEF q
  <1>5. /\ executed[o.action] = 0
        /\ receipt[o.action].status \notin {"Queued", "Cancelled", "Succeeded"}
        /\ ~(receipt[o.action].status = "Absent" /\ lifecycle # "Pruned")
    BY <1>0 DEF LedgerInv, ExecutionInv
  <1>6. /\ executed' \in [Actions -> Nat]
        /\ executed'[o.action] = 1
        /\ \A b \in Actions \ {o.action} : executed'[b] = executed[b]
    BY <1>0, <1>1, <1>5 DEF LedgerInv, ExecutionInv
  <1>7. QueueInv' /\ ReceiptInv'
    BY <1>1 DEF LedgerInv, QueueInv, QueueMatchesReceipts, ReceiptInv
  <1>8. \A x \in dispatching' : x = q \/ (x \in dispatching /\ x.action # o.action /\ x.action \in Actions)
    BY <1>4 DEF LedgerInv, ExecutionInv, WorkInv, WorkType, DispatchOps
  <1>9. \A x, y \in dispatching' : x.action = y.action => x = y
    BY <1>3, <1>8 DEF LedgerInv, ExecutionInv
  <1>10. \A x \in dispatching' :
          /\ x.at # "finish" => executed'[x.action] = 0
          /\ x.at = "finish" /\ x.outcome = "Succeeded" => executed'[x.action] = 1
    BY <1>3, <1>6, <1>8 DEF LedgerInv, ExecutionInv
  <1>11. \A a \in Actions :
          /\ executed'[a] <= 1
          /\ \/ receipt[a].status \in {"Queued", "Cancelled"}
             \/ receipt[a].status = "Absent" /\ lifecycle # "Pruned"
             => executed'[a] = 0 /\ \A x \in dispatching' : x.action # a
          /\ receipt[a].status = "Succeeded" => executed'[a] = 1
    BY <1>3, <1>5, <1>6, <1>8 DEF LedgerInv, ExecutionInv
  <1>12. ExecutionInv'
    BY <1>1, <1>6, <1>9, <1>10, <1>11 DEF LedgerInv, ExecutionInv
  <1> QED
    BY <1>7, <1>12 DEF LedgerInv

\* What is queued after a step was queued before it, on the same page.
QueueShrinks ==
    \A a \in Actions : receipt'[a].status = "Queued" =>
        receipt[a].status = "Queued" /\ receipt'[a].page = receipt[a].page

\* What is settled before a step stays so.
SettledStays ==
    \A a \in Actions :
        receipt[a].status \in {"Succeeded", "Failed", "Cancelled"} => receipt'[a] = receipt[a]

\* A receipt is replaced while the queue stays: neither side is Queued, and a
\* mutation does not begin to run.
LEMMA ReceiptReplaced ==
  ASSUME WorkInv, LedgerInv, NEW a \in Actions, NEW r \in Receipts,
         receipt' = [receipt EXCEPT ![a] = r], UNCHANGED <<lifecycle, queue, executed>>,
         dispatching' \subseteq dispatching,
         r = receipt[a] \/ (/\ receipt[a].status \in {"Running", "Unknown"}
                            /\ r.status \in {"Succeeded", "Failed", "Unknown"}
                            /\ r.status = "Succeeded" => executed[a] = 1
                            /\ ReconciliationFits(r))
  PROVE  LedgerInv' /\ QueueShrinks /\ SettledStays
  <1>1. /\ receipt'[a] = r
        /\ \A b \in Actions \ {a} : receipt'[b] = receipt[b]
    BY OneReceipt DEF WorkInv, WorkType
  <1>2. CASE r = receipt[a]
    <2>1. receipt' = receipt
      BY <1>2 DEF WorkInv, WorkType
    <2> QED
      BY <2>1 DEF LedgerInv, QueueInv, QueueMatchesReceipts, ReceiptInv, ExecutionInv, QueueShrinks,
                  SettledStays
  <1>3. CASE /\ receipt[a].status \in {"Running", "Unknown"}
             /\ r.status \in {"Succeeded", "Failed", "Unknown"}
             /\ r.status = "Succeeded" => executed[a] = 1
             /\ ReconciliationFits(r)
    <2>1. QueueInv'
      BY <1>1, <1>3 DEF LedgerInv, QueueInv, QueueMatchesReceipts
    <2>2. ReceiptInv'
      <3>1. \A b \in Actions : ReconciliationFits(receipt'[b])
        BY <1>1, <1>3 DEF LedgerInv, ReceiptInv
      <3>2. \A b \in Actions : receipt'[b].status = "Running" => receipt[b].status = "Running"
        BY <1>1, <1>3
      <3> QED
        BY <3>1, <3>2 DEF LedgerInv, ReceiptInv, ReconciliationFits
    <2>3. lifecycle # "Pruned"
      BY <1>3 DEF LedgerInv, ExecutionInv, NoReceipt
    <2>4. \A b \in Actions :
            /\ receipt'[b].status \in {"Queued", "Cancelled", "Absent"} => receipt'[b] = receipt[b]
            /\ receipt'[b].status = "Succeeded" => executed[b] = 1
      BY <1>1, <1>3 DEF LedgerInv, ExecutionInv
    <2>5. ExecutionInv'
      BY <2>3, <2>4 DEF LedgerInv, ExecutionInv
    <2>6. QueueShrinks /\ SettledStays
      BY <1>1, <1>3 DEF QueueShrinks, SettledStays
    <2> QED
      BY <2>1, <2>2, <2>5, <2>6 DEF LedgerInv
  <1> QED
    BY <1>2, <1>3

\* An outcome is recorded, or reconciliation begins or ends.
LEMMA OutcomeSteps ==
  ASSUME WorkInv, LedgerInv
  PROVE  /\ \A o \in dispatching : FinishDispatch(o) => LedgerInv' /\ QueueShrinks /\ SettledStays
         /\ \A c \in Conns, a \in Actions : BeginReconcile(c, a) => LedgerInv' /\ QueueShrinks /\ SettledStays
         /\ \A o \in reconciling : FinishReconcile(o) => LedgerInv' /\ QueueShrinks /\ SettledStays
  <1>1. ASSUME NEW o \in dispatching, FinishDispatch(o) PROVE LedgerInv' /\ QueueShrinks /\ SettledStays
    <2>0. o.action \in Actions /\ receipt[o.action] \in Receipts
          /\ o.outcome \in {"Succeeded", "Failed", "Unknown"}
      BY <1>1 DEF FinishDispatch, WorkInv, WorkType, DispatchOps
    <2>1. dispatching' \subseteq dispatching /\ UNCHANGED <<lifecycle, queue, executed>>
      BY <1>1 DEF FinishDispatch, DispatchStep, authorityVars, bridgeVars
    <2>2. RecordOutcome(o)
      BY <1>1 DEF FinishDispatch
    <2>3. CASE receipt[o.action].status # "Running"
      <3>1. receipt' = [receipt EXCEPT ![o.action] = receipt[o.action]]
        BY <2>0, <2>2, <2>3 DEF RecordOutcome, WorkInv, WorkType
      <3> QED
        BY <2>0, <2>1, <3>1, ReceiptReplaced
    <2>4. CASE receipt[o.action].status = "Running" /\ LeaseCurrent(o) /\ o.outcome # "Unknown"
      <3> DEFINE r == [receipt[o.action] EXCEPT !.status = o.outcome]
      <3>1. r \in Receipts /\ r.status = o.outcome /\ r.recon = receipt[o.action].recon
        BY <2>0 DEF Receipts
      <3>2. receipt' = [receipt EXCEPT ![o.action] = r]
        BY <2>2, <2>4, Zenon DEF RecordOutcome
      <3> HIDE DEF r
      <3>3. r.recon = "NotRequired"
        BY <2>0, <2>4, <3>1 DEF LedgerInv, ReceiptInv, ReconciliationFits
      <3>4. ReconciliationFits(r)
        BY <2>0, <2>4, <3>1, <3>3 DEF ReconciliationFits
      <3>5. r.status = "Succeeded" => executed[o.action] = 1
        BY <1>1, <3>1 DEF FinishDispatch, LedgerInv, ExecutionInv
      <3> QED
        BY <2>0, <2>1, <2>4, <3>1, <3>2, <3>4, <3>5, ReceiptReplaced
    <2>5. CASE receipt[o.action].status = "Running" /\ ~(LeaseCurrent(o) /\ o.outcome # "Unknown")
      <3> DEFINE r == [receipt[o.action] EXCEPT !.status = "Unknown", !.recon = "Required"]
      <3>1. r \in Receipts /\ r.status = "Unknown" /\ r.recon = "Required"
        BY <2>0 DEF Receipts
      <3>2. receipt' = [receipt EXCEPT ![o.action].status = "Unknown",
                                       ![o.action].recon = "Required"]
        BY <2>2, <2>5, Zenon DEF RecordOutcome
      <3>3. receipt' = [receipt EXCEPT ![o.action] = r]
        BY <2>0, <3>2 DEF WorkInv, WorkType
      <3> HIDE DEF r
      <3>4. ReconciliationFits(r)
        BY <3>1 DEF ReconciliationFits
      <3> QED
        BY <2>0, <2>1, <2>5, <3>1, <3>3, <3>4, ReceiptReplaced
    <2> QED
      BY <2>3, <2>4, <2>5
  <1>2. ASSUME NEW c \in Conns, NEW a \in Actions, BeginReconcile(c, a) PROVE LedgerInv' /\ QueueShrinks /\ SettledStays
    <2> DEFINE r == [receipt[a] EXCEPT !.recon = "InProgress"]
    <2>0. receipt[a] \in Receipts
      BY DEF WorkInv, WorkType
    <2>1. receipt[a].status = "Unknown" /\ dispatching' \subseteq dispatching
          /\ UNCHANGED <<lifecycle, queue, executed>>
      BY <1>2 DEF BeginReconcile, ReconcileClaim, authorityVars, bridgeVars, notReconciling
    <2>2. receipt' = [receipt EXCEPT ![a] = r]
      BY <1>2, Zenon DEF BeginReconcile
    <2>3. r \in Receipts /\ r.status = "Unknown" /\ r.recon = "InProgress"
      BY <2>0, <2>1 DEF Receipts
    <2> HIDE DEF r
    <2>4. ReconciliationFits(r)
      BY <2>3 DEF ReconciliationFits
    <2> QED
      BY <2>1, <2>2, <2>3, <2>4, ReceiptReplaced
  <1>3. ASSUME NEW o \in reconciling, FinishReconcile(o) PROVE LedgerInv' /\ QueueShrinks /\ SettledStays
    <2>0. o.action \in Actions /\ receipt[o.action] \in Receipts
      BY DEF WorkInv, WorkType, ReconcileOps
    <2>1. PICK k \in Answers(o.action) : receipt' = [receipt EXCEPT ![o.action] = Reconciled(o, k)]
      BY <1>3 DEF FinishReconcile
    <2>2. dispatching' \subseteq dispatching /\ UNCHANGED <<lifecycle, queue, executed>>
      BY <1>3 DEF FinishReconcile, authorityVars, bridgeVars, notReconciling
    <2>3. /\ \/ k[1] = "Unknown" /\ k[2] = "Required"
             \/ k[1] = "Succeeded" /\ k[2] = "Reconciled"
             \/ k[1] = "Failed" /\ k[2] \in {"Reconciled", "RequiresConfirmation"}
          /\ k[1] = "Succeeded" => executed[o.action] > 0
      BY DEF Answers
    <2>4. k[1] = "Succeeded" => executed[o.action] = 1
      BY <2>0, <2>3 DEF LedgerInv, ExecutionInv
    <2>5. CASE receipt[o.action].status # "Unknown"
      <3>1. receipt' = [receipt EXCEPT ![o.action] = receipt[o.action]]
        BY <2>1, <2>5 DEF Reconciled
      <3> QED
        BY <2>0, <2>2, <3>1, ReceiptReplaced
    <2>6. CASE receipt[o.action].status = "Unknown"
               /\ Ready /\ ReconcileClaim(o.conn, o.action, o.epoch)
      <3> DEFINE r == [receipt[o.action] EXCEPT !.status = k[1], !.recon = k[2]]
      <3>1. receipt' = [receipt EXCEPT ![o.action] = r]
        BY <2>1, <2>6, Zenon DEF Reconciled
      <3>2. r \in Receipts /\ r.status = k[1] /\ r.recon = k[2]
        BY <2>0, <2>3 DEF Receipts
      <3> HIDE DEF r
      <3>3. ReconciliationFits(r) /\ r.status \in {"Succeeded", "Failed", "Unknown"}
        BY <2>3, <3>2 DEF ReconciliationFits
      <3> QED
        BY <2>0, <2>2, <2>4, <2>6, <3>1, <3>2, <3>3, ReceiptReplaced
    <2>7. CASE receipt[o.action].status = "Unknown"
               /\ ~(Ready /\ ReconcileClaim(o.conn, o.action, o.epoch))
      <3> DEFINE r == [receipt[o.action] EXCEPT !.recon = "Required"]
      <3>1. receipt' = [receipt EXCEPT ![o.action] = r]
        BY <2>1, <2>7, Zenon DEF Reconciled
      <3>2. r \in Receipts /\ r.status = "Unknown" /\ r.recon = "Required"
        BY <2>0, <2>7 DEF Receipts
      <3> HIDE DEF r
      <3>3. ReconciliationFits(r)
        BY <3>2 DEF ReconciliationFits
      <3> QED
        BY <2>0, <2>2, <2>7, <3>1, <3>2, <3>3, ReceiptReplaced
    <2> QED
      BY <2>5, <2>6, <2>7
  <1> QED
    BY <1>1, <1>2, <1>3

\* An action is queued: it was new, so that the browser never saw it.
LEMMA EnqueueKeeps ==
  ASSUME WorkInv, LedgerInv, NEW c \in Conns, NEW a \in Actions, NEW p \in Pages,
         EnqueueAction(c, a, p), lease.epoch \in Nat
  PROVE  LedgerInv'
  <1> DEFINE r == [status |-> "Queued", epoch |-> lease.epoch, page |-> p, recon |-> "NotRequired"]
  <1>1. r \in Receipts /\ r.status = "Queued" /\ r.page \in Pages /\ r.recon = "NotRequired"
    BY DEF Receipts
  <1>2. /\ receipt' = [receipt EXCEPT ![a] = r] /\ lifecycle = "AgentOwned"
        /\ receipt[a] = NoReceipt
        /\ queue' = Append(queue, a) /\ Len(queue) < MaxQueuedActions
        /\ UNCHANGED <<lifecycle, dispatching, executed>>
    BY DEF EnqueueAction, NewAction, AuthorizeSpace, authorityVars, opVars, bridgeVars
  <1> HIDE DEF r
  <1>3. receipt[a].status = "Absent"
    BY <1>2 DEF NoReceipt
  <1>4. receipt'[a] = r /\ \A b \in Actions \ {a} : receipt'[b] = receipt[b]
    BY <1>1, <1>2, OneReceipt DEF WorkInv
  <1>5. QueueInv'
    <2>1. queue \in Seq(Actions) /\ QueueMatchesReceipts
      BY DEF LedgerInv, QueueInv
    <2>2. queue' \in Seq(Actions) /\ Len(queue') = Len(queue) + 1 /\ queue'[Len(queue) + 1] = a
          /\ \A i \in 1 .. Len(queue) : queue'[i] = queue[i]
      BY <1>2, <2>1
    <2>3. DOMAIN queue = 1 .. Len(queue) /\ DOMAIN queue' = 1 .. Len(queue')
      BY <2>1, <2>2
    <2>4. \A i \in DOMAIN queue : queue[i] # a
      BY <1>3, <2>1 DEF QueueMatchesReceipts
    <2>5. Len(queue') <= MaxQueuedActions
      BY <1>2, <2>1, <2>2, BrokerAssumption
    <2>6. \A i, j \in DOMAIN queue' : queue'[i] = queue'[j] => i = j
      BY <2>1, <2>2, <2>3, <2>4 DEF QueueMatchesReceipts
    <2>7. \A b \in Actions : receipt'[b].status = "Queued" <=> \E i \in DOMAIN queue' : queue'[i] = b
      BY <1>1, <1>4, <2>1, <2>2, <2>3 DEF QueueMatchesReceipts
    <2> QED
      BY <2>2, <2>5, <2>6, <2>7 DEF QueueInv, QueueMatchesReceipts
  <1>6. ReceiptInv'
    <2>1. ReconciliationFits(r)
      BY <1>1 DEF ReconciliationFits
    <2>2. \A b \in Actions : receipt'[b].status = "Running" => receipt[b].status = "Running"
      BY <1>1, <1>4
    <2>3. \A b \in Actions : ReconciliationFits(receipt'[b])
      BY <1>4, <2>1 DEF LedgerInv, ReceiptInv
    <2> QED
      BY <2>2, <2>3 DEF LedgerInv, ReceiptInv, ReconciliationFits
  <1>7. ExecutionInv'
    BY <1>1, <1>2, <1>3, <1>4 DEF LedgerInv, ExecutionInv
  <1> QED
    BY <1>5, <1>6, <1>7 DEF LedgerInv

\* The head of the queue is dispatched: it was never performed, and the space has
\* no running mutation.
LEMMA DispatchBegins ==
  ASSUME WorkInv, LedgerInv, NEW c \in Conns, NEW a \in Actions, DispatchAction(c, a)
  PROVE  LedgerInv'
  <1> DEFINE r == [receipt[a] EXCEPT !.status = "Running"]
             q == [at |-> IF Mutating(a) THEN "admit" ELSE "recheck", conn |-> c, action |-> a,
                   epoch |-> receipt[a].epoch, page |-> receipt[a].page, outcome |-> "None"]
  <1>0. receipt[a] \in Receipts /\ receipt[a].status = "Queued"
    BY DEF DispatchAction, WorkInv, WorkType
  <1>1. r \in Receipts /\ r.status = "Running" /\ r.recon = receipt[a].recon
    BY <1>0 DEF Receipts
  <1>2. q.action = a /\ q.at # "finish"
    OBVIOUS
  <1>3. receipt' = [receipt EXCEPT ![a] = r]
    BY Zenon DEF DispatchAction
  <1>4. /\ dispatching' = dispatching \cup {q} /\ lifecycle = "AgentOwned"
        /\ queue # <<>> /\ Head(queue) = a /\ queue' = Tail(queue)
        /\ UNCHANGED <<lifecycle, executed>>
        /\ NoneInFlight(a)
    BY DEF DispatchAction, TakeFromQueue, AuthorizeSpace, authorityVars, bridgeVars
  <1> HIDE DEF r, q
  <1>5. receipt'[a] = r /\ \A b \in Actions \ {a} : receipt'[b] = receipt[b]
    BY <1>1, <1>3, OneReceipt DEF WorkInv
  <1>6. QueueInv'
    <2>1. queue \in Seq(Actions) /\ QueueMatchesReceipts
      BY DEF LedgerInv, QueueInv
    <2>2. queue' \in Seq(Actions) /\ Len(queue') = Len(queue) - 1 /\ queue[1] = a
          /\ \A i \in 1 .. Len(queue') : queue'[i] = queue[i + 1]
      BY <1>4, <2>1
    <2>3. DOMAIN queue = 1 .. Len(queue) /\ DOMAIN queue' = 1 .. Len(queue') /\ Len(queue) \in Nat
          /\ Len(queue) > 0
      BY <1>4, <2>1, <2>2
    <2>4. Len(queue') <= MaxQueuedActions
      BY <2>1, <2>2, <2>3, BrokerAssumption DEF QueueMatchesReceipts
    <2>5. ASSUME NEW i \in DOMAIN queue', NEW j \in DOMAIN queue', queue'[i] = queue'[j]
          PROVE  i = j
      <3>1. i \in Nat /\ j \in Nat /\ i + 1 \in DOMAIN queue /\ j + 1 \in DOMAIN queue
        BY <2>2, <2>3
      <3>2. queue[i + 1] = queue[j + 1]
        BY <2>2, <2>3, <2>5
      <3>3. i + 1 = j + 1
        BY <2>1, <3>1, <3>2 DEF QueueMatchesReceipts
      <3> QED
        BY <3>1, <3>3
    <2>6. \A i \in DOMAIN queue' : queue'[i] # a
      BY <2>1, <2>2, <2>3 DEF QueueMatchesReceipts
    <2>7. ASSUME NEW b \in Actions
          PROVE  receipt'[b].status = "Queued" <=> \E i \in DOMAIN queue' : queue'[i] = b
      <3>1. CASE b = a
        BY <1>1, <1>5, <2>6, <3>1
      <3>2. CASE b # a
        <4>1. receipt[b].status = "Queued" <=> \E i \in DOMAIN queue : queue[i] = b
          BY <2>1 DEF QueueMatchesReceipts
        <4>2. ASSUME NEW i \in DOMAIN queue, queue[i] = b
              PROVE  i - 1 \in DOMAIN queue' /\ queue'[i - 1] = b
          BY <2>2, <2>3, <3>2, <4>2
        <4>3. ASSUME NEW i \in DOMAIN queue', queue'[i] = b
              PROVE  i + 1 \in DOMAIN queue /\ queue[i + 1] = b
          BY <2>2, <2>3, <4>3
        <4> QED
          BY <1>5, <3>2, <4>1, <4>2, <4>3
      <3> QED
        BY <3>1, <3>2
    <2> QED
      BY <2>2, <2>4, <2>5, <2>7 DEF QueueInv, QueueMatchesReceipts
  <1>7. ReceiptInv'
    <2>1. r.recon = "NotRequired"
      BY <1>0, <1>1 DEF LedgerInv, ReceiptInv, ReconciliationFits
    <2>2. ReconciliationFits(r)
      BY <1>1, <2>1 DEF ReconciliationFits
    <2>3. \A b \in Actions : ReconciliationFits(receipt'[b])
      BY <1>5, <2>2 DEF LedgerInv, ReceiptInv
    <2>4. \A b, d \in Actions \ ReadOnlyActions :
            receipt'[b].status = "Running" /\ receipt'[d].status = "Running" => b = d
      BY <1>4, <1>5 DEF NoneInFlight, Mutating, LedgerInv, ReceiptInv
    <2> QED
      BY <2>3, <2>4 DEF ReceiptInv, ReconciliationFits
  <1>8. ExecutionInv'
    BY <1>0, <1>1, <1>2, <1>4, <1>5 DEF LedgerInv, ExecutionInv
  <1> QED
    BY <1>6, <1>7, <1>8 DEF LedgerInv

\* The queue, the receipts and what the browser did fit in every reachable state.
THEOREM LedgerSafety == Spec => []LedgerInv
  <1>1. LedgerInv /\ WorkInv /\ AuthorityInv /\ [Next]_vars => LedgerInv'
    <2> SUFFICES ASSUME LedgerInv, WorkInv, AuthorityInv, [Next]_vars PROVE LedgerInv'
      OBVIOUS
    <2>0. lease.epoch \in Nat
      BY DEF AuthorityInv, AuthorityType, Leases
    <2>1. CASE ActionNext
      BY <2>0, <2>1, EnqueueKeeps, DispatchBegins, DispatchKeeps, BridgePerforms, OutcomeSteps
         DEF ActionNext
    <2>2. CASE ~ActionNext
      BY <2>2, OthersKeep, HousekeepingSteps
    <2> QED
      BY <2>1, <2>2
  <1> QED
    BY <1>1, LedgerInit, WorkSafety, AuthoritySafety, PTL DEF Spec

\* For any number of actions, leases, fences, restarts and lost answers: the
\* browser performs an action at most once, never one that is queued or was
\* cancelled, and a receipt says Succeeded only of an action it performed.
THEOREM ActionsPerformedOnce == Spec => []ExecutionMatchesReceipt
  <1>1. LedgerInv => ExecutionMatchesReceipt
    BY DEF LedgerInv, ExecutionInv, ExecutionMatchesReceipt
  <1> QED
    BY <1>1, LedgerSafety, PTL

-----------------------------------------------------------------------------
(* The pages.                                                              *)

\* What PagesValid says of one page.
ValidPage(r) ==
    \/ r \in {AbsentPage, PlannedPage, ManagedPage, ClosedPage, UserPage,
              PageIn("Closing", "Agent", "Bound")}
    \/ r.lc = "TargetLost" /\ r.bind = "Lost"

PageInv ==
    /\ page \in [Pages -> PageRecords]
    /\ \A p \in Pages : ValidPage(page[p])
    /\ \A a \in Actions \ ReadOnlyActions :
          receipt[a].status = "Queued" => page[receipt[a].page] = ManagedPage

\* The invariants together give every rule of the ledger.
LEMMA LedgerRules == AuthorityInv /\ LedgerInv /\ PageInv => LedgerValid
  <1> SUFFICES ASSUME AuthorityInv, LedgerInv, PageInv PROVE LedgerValid
    OBVIOUS
  <1>1. AuthorityValid
    BY AuthorityInvImplies
  <1>2. QueueMatchesReceipts
    BY DEF LedgerInv, QueueInv
  <1>3. ReceiptsValid
    BY DEF LedgerInv, ReceiptInv, PageInv, ReceiptsValid, AdmitsMutations
  <1>4. PagesValid
    BY DEF PageInv, ValidPage, PagesValid
  <1> QED
    BY <1>1, <1>2, <1>3, <1>4 DEF LedgerValid

\* The records a page is given.
LEMMA PageValues ==
  /\ \A r \in {AbsentPage, PlannedPage, ManagedPage, ClosedPage, UserPage,
               PageIn("Closing", "Agent", "Bound"), PageIn("TargetLost", "Agent", "Lost")} :
        r \in PageRecords /\ ValidPage(r)
  /\ \A r \in PageRecords : LostPage(r) \in PageRecords /\ ValidPage(LostPage(r))
  /\ [ManagedPage EXCEPT !.lc = "Closing"] = PageIn("Closing", "Agent", "Bound")
  /\ AbsentPage.lc = "Absent" /\ PlannedPage.lc = "Planned" /\ ManagedPage.lc = "Managed"
  /\ ClosedPage.lc = "Closed" /\ UserPage.lc = "UserOwned"
  /\ PageIn("Closing", "Agent", "Bound").lc = "Closing"
  /\ \A r \in PageRecords : LostPage(r).lc = "TargetLost"
  <1> USE DEF PageIn, AbsentPage, PlannedPage, ManagedPage, ClosedPage, UserPage
  <1>1. \A r \in {AbsentPage, PlannedPage, ManagedPage, ClosedPage, UserPage,
                 PageIn("Closing", "Agent", "Bound"), PageIn("TargetLost", "Agent", "Lost")} :
          r \in PageRecords /\ ValidPage(r)
    BY DEF PageRecords, ValidPage
  <1>2. ASSUME NEW r \in PageRecords
        PROVE  LostPage(r) \in PageRecords /\ ValidPage(LostPage(r)) /\ LostPage(r).lc = "TargetLost"
    BY DEF PageRecords, ValidPage, LostPage
  <1>3. [ManagedPage EXCEPT !.lc = "Closing"] = PageIn("Closing", "Agent", "Bound")
    OBVIOUS
  <1> QED
    BY <1>1, <1>2, <1>3

\* It holds in the initial state.
LEMMA PageInit == Init => PageInv
  <1> SUFFICES ASSUME Init PROVE PageInv
    OBVIOUS
  <1>1. page = [p \in Pages |-> AbsentPage] /\ \A a \in Actions : receipt[a].status = "Absent"
    BY DEF Init, NoReceipt
  <1>2. AbsentPage \in PageRecords /\ ValidPage(AbsentPage)
    BY PageValues
  <1> QED
    BY <1>1, <1>2 DEF PageInv

\* Housekeeping queues nothing.
LEMMA HousekeepingShrinks ==
  ASSUME WorkInv, Housekeeping PROVE QueueShrinks
  <1>0. receipt \in [Actions -> Receipts]
    BY DEF WorkInv, WorkType
  <1>1. CASE Forgotten
    BY <1>1 DEF Forgotten, NoReceipt, QueueShrinks
  <1>2. CASE receipt' = InterruptedReceipts
    BY <1>0, <1>2, InterruptionQuiet DEF QueueShrinks
  <1>3. CASE receipt' = StoppedReceipts
    <2> SUFFICES ASSUME NEW a \in Actions, receipt'[a].status = "Queued"
                 PROVE  receipt'[a] = receipt[a]
      BY DEF QueueShrinks
    <2>1. CASE receipt[a].status = "Running"
      BY <1>0, <1>3, <2>1, StoppedFields
    <2>2. CASE receipt[a].status # "Running"
      BY <1>0, <1>3, <2>2, StoppedFields
    <2> QED
      BY <2>1, <2>2
  <1>4. CASE receipt' = receipt
    BY <1>4 DEF QueueShrinks
  <1> QED
    BY <1>1, <1>2, <1>3, <1>4 DEF Housekeeping, Interruption

\* A step that changes no page.
LEMMA PagesUntouched ==
  ASSUME PageInv, QueueShrinks, UNCHANGED page PROVE PageInv'
  BY DEF PageInv, QueueShrinks

\* A step that changes one page, and no receipt.  A page on which a mutation is
\* queued stays managed.
LEMMA OnePage ==
  ASSUME PageInv, NEW p \in Pages, NEW r \in PageRecords, ValidPage(r),
         page' = [page EXCEPT ![p] = r], UNCHANGED receipt,
         r = ManagedPage \/ page[p] # ManagedPage \/ ~QueuedOn(p)
  PROVE  PageInv'
  <1>1. page' \in [Pages -> PageRecords] /\ page'[p] = r
        /\ \A q \in Pages \ {p} : page'[q] = page[q]
    BY DEF PageInv
  <1>2. \A q \in Pages : ValidPage(page'[q])
    BY <1>1 DEF PageInv
  <1>3. ASSUME NEW a \in Actions \ ReadOnlyActions, receipt[a].status = "Queued"
        PROVE  page'[receipt[a].page] = ManagedPage
    <2>1. page[receipt[a].page] = ManagedPage
      BY <1>3 DEF PageInv
    <2>2. CASE receipt[a].page = p
      BY <1>1, <1>3, <2>1, <2>2 DEF QueuedOn, Mutating
    <2>3. CASE receipt[a].page # p
      BY <2>1, <2>3
    <2> QED
      BY <2>2, <2>3
  <1> QED
    BY <1>1, <1>2, <1>3 DEF PageInv, ValidPage

\* Requests that are outside the lock with a page.
RequestType ==
    /\ creating \subseteq CreateOps
    /\ closing \subseteq CloseOps
    /\ finishing \subseteq FinishOps
    /\ \A o \in finishing : o.at \in {"close", "closed", "lost"} => o.page \in Pages

\* Only the operations on pages and on the end of a space have such requests.
LEMMA RequestFrame ==
  ASSUME HostNext \/ LeaseNext \/ ActionNext \/ UNCHANGED vars
  PROVE  \/ UNCHANGED <<creating, closing, finishing>>
         \/ creating' = {} /\ closing' = {} /\ finishing' = {}
  <1> DEFINE Kept == UNCHANGED <<creating, closing, finishing>>
  <1> USE DEF opVars, otherOps, notDispatching, notReconciling
  <1>1. ASSUME NEW c \in Conns, Hello(c) \/ Disconnect(c) PROVE Kept
    BY <1>1 DEF Hello, Disconnect
  <1>2. CASE HostTransition \/ Shutdown \/ BridgeLost
    BY <1>2 DEF HostTransition, Shutdown, BridgeLost
  <1>3. CASE Restart
    BY <1>3 DEF Restart
  <1>4. CASE LeaseNext
    <2>1. CASE LeaseExpires
      BY <2>1 DEF LeaseExpires
    <2>2. ASSUME NEW c \in Conns,
                 \/ CreateSpace(c) \/ AcquireLease(c) \/ ReturnControl(c) \/ ControlTicket(c)
                 \/ AcknowledgeFence(c) \/ AcknowledgeReturnControl(c)
          PROVE  Kept
      BY <2>2 DEF CreateSpace, AcquireLease, ReturnControl, ControlTicket, AcknowledgeFence,
                  AcknowledgeReturnControl
    <2>3. ASSUME NEW c \in Conns, NEW then, Takeover(c, then) PROVE Kept
      BY <2>3 DEF Takeover
    <2>4. ASSUME NEW c \in Conns, NEW t, TakeoverWithControlTicket(c, t) PROVE Kept
      BY <2>4 DEF TakeoverWithControlTicket
    <2>5. ASSUME NEW o \in fencing,
                 BridgeFence(o) \/ RebindPages(o) \/ FinishFence(o) \/ FinishUserReturn(o)
                 \/ SettleFencedSpace(o) \/ FenceEnds(o)
          PROVE  Kept
      BY <2>5 DEF BridgeFence, RebindPages, FinishFence, FinishUserReturn, SettleFencedSpace, FenceEnds
    <2> QED
      BY <1>4, <2>1, <2>2, <2>3, <2>4, <2>5 DEF LeaseNext
  <1>5. CASE ActionNext
    <2>1. ASSUME NEW c \in Conns, NEW a \in Actions, DispatchAction(c, a) \/ BeginReconcile(c, a)
          PROVE  Kept
      BY <2>1 DEF DispatchAction, BeginReconcile
    <2>2. ASSUME NEW c \in Conns, NEW a \in Actions, NEW p \in Pages, EnqueueAction(c, a, p)
          PROVE  Kept
      BY <2>2 DEF EnqueueAction
    <2>3. ASSUME NEW o \in dispatching,
                 AdmitMutation(o) \/ GrantPermit(o) \/ RefuseAdmission(o) \/ RecheckDispatch(o)
                 \/ RecheckFails(o) \/ BridgeDispatch(o) \/ BridgeDispatchFails(o)
                 \/ FinishDispatch(o) \/ FinishDispatchFails(o)
          PROVE  Kept
      <3>1. \E next : DispatchStep(o, next)
        BY <2>3, Zenon DEF AdmitMutation, GrantPermit, RefuseAdmission, RecheckDispatch,
           RecheckFails, BridgeDispatch, BridgeDispatchFails, FinishDispatch, FinishDispatchFails
      <3> QED
        BY <3>1 DEF DispatchStep
    <2>4. ASSUME NEW o \in reconciling, FinishReconcile(o) PROVE Kept
      BY <2>4 DEF FinishReconcile
    <2> QED
      BY <1>5, <2>1, <2>2, <2>3, <2>4 DEF ActionNext
  <1>6. CASE UNCHANGED vars
    BY <1>6 DEF vars
  <1> QED
    BY <1>1, <1>2, <1>3, <1>4, <1>5, <1>6 DEF HostNext

Closing == {"cleanup", "close", "closed", "lost"}

FinishStep(o) ==
    \/ ListMissingPages(o) \/ DrainSpace(o) \/ BridgeCleanup(o) \/ BridgeCleanupFails(o)
    \/ FinishPageCleanup(o) \/ RecordCleanupFailure(o) \/ CompleteFinish(o) \/ FinishEnds(o)
    \/ \E p \in Pages : SweepPage(o, p) \/ CleanupPage(o, p)

\* What becomes of a finish request: it goes, or it moves on with its epoch; it
\* comes to the closing of pages only by draining the space.
LEMMA FinishRequest ==
  ASSUME RequestType, NEW o \in finishing, FinishStep(o)
  PROVE  \/ finishing' = finishing \ {o}
         \/ \E q \in FinishOps :
              /\ finishing' = (finishing \ {o}) \cup {q}
              /\ q.epoch = o.epoch
              /\ q.at \in {"close", "closed", "lost"} => q.page \in Pages
              /\ q.at \in Closing => o.at \in Closing \/ DrainSpace(o)
  <1> DEFINE Moved(q) == /\ finishing' = (finishing \ {o}) \cup {q}
                         /\ q.epoch = o.epoch
                         /\ q.at \in {"close", "closed", "lost"} => q.page \in Pages
                         /\ q.at \in Closing => o.at \in Closing \/ DrainSpace(o)
             Goal == finishing' = finishing \ {o} \/ \E q \in FinishOps : Moved(q)
  <1> SUFFICES Goal
    OBVIOUS
  <1>0. o \in FinishOps /\ o.todo \subseteq Pages
        /\ (o.at \in {"close", "closed", "lost"} => o.page \in Pages)
    BY DEF RequestType, FinishOps
  <1>1. CASE ListMissingPages(o)
    <2> DEFINE t == {p \in Pages : page[p].lc = "Closing"} \ o.todo
               q == [o EXCEPT !.at = "sweep", !.todo = t]
    <2>1. finishing' = (finishing \ {o}) \cup {q}
      BY <1>1, Zenon DEF ListMissingPages
    <2>2. t \in SUBSET Pages
      OBVIOUS
    <2> HIDE DEF t
    <2>3. q \in FinishOps /\ q.at = "sweep" /\ q.epoch = o.epoch
      BY <1>0, <2>2 DEF FinishOps
    <2> HIDE DEF q
    <2>4. Moved(q)
      BY <2>1, <2>3 DEF Closing
    <2> QED
      BY <2>3, <2>4
  <1>2. CASE DrainSpace(o)
    <2> DEFINE t == {p \in Pages : AdmitsMutations(p)
                                   \/ (lifecycle = "Draining" /\ page[p].lc = "Closing")}
               q == [o EXCEPT !.at = "cleanup", !.todo = t]
    <2>1. finishing' = (finishing \ {o}) \cup {q}
      BY <1>2, Zenon DEF DrainSpace
    <2>2. t \in SUBSET Pages
      OBVIOUS
    <2> HIDE DEF t
    <2>3. q \in FinishOps /\ q.at = "cleanup" /\ q.epoch = o.epoch
      BY <1>0, <2>2 DEF FinishOps
    <2> HIDE DEF q
    <2>4. Moved(q)
      BY <1>2, <2>1, <2>3
    <2> QED
      BY <2>3, <2>4
  <1>3. ASSUME NEW at \in {"closed", "lost"}, o.at = "close",
               finishing' = (finishing \ {o}) \cup {[o EXCEPT !.at = at]}
        PROVE  Goal
    <2> DEFINE q == [o EXCEPT !.at = at]
    <2>1. q \in FinishOps /\ q.at = at /\ q.page = o.page /\ q.epoch = o.epoch
      BY <1>0 DEF FinishOps
    <2>2. finishing' = (finishing \ {o}) \cup {q}
      BY <1>3
    <2> HIDE DEF q
    <2>3. Moved(q)
      BY <1>0, <1>3, <2>1, <2>2 DEF Closing
    <2> QED
      BY <2>1, <2>3
  <1>4. CASE BridgeCleanup(o) \/ BridgeCleanupFails(o)
    BY <1>3, <1>4 DEF BridgeCleanup, BridgeCleanupFails
  <1>5. CASE FinishPageCleanup(o)
    <2> DEFINE q == [o EXCEPT !.at = "cleanup", !.page = NoOne]
    <2>1. q \in FinishOps /\ q.at = "cleanup" /\ q.epoch = o.epoch
      BY <1>0 DEF FinishOps
    <2>2. finishing' = (finishing \ {o}) \cup {q} /\ o.at = "closed"
      BY <1>5, Zenon DEF FinishPageCleanup
    <2> HIDE DEF q
    <2>3. Moved(q)
      BY <2>1, <2>2 DEF Closing
    <2> QED
      BY <2>1, <2>3
  <1>6. CASE RecordCleanupFailure(o) \/ CompleteFinish(o) \/ FinishEnds(o)
    BY <1>6 DEF RecordCleanupFailure, CompleteFinish, FinishEnds
  <1>7. ASSUME NEW p \in Pages, SweepPage(o, p) PROVE Goal
    <2> DEFINE q == [o EXCEPT !.todo = o.todo \ {p}]
    <2>1. finishing' = (finishing \ {o}) \cup {q} /\ o.at = "sweep"
      BY <1>7, Zenon DEF SweepPage
    <2>2. q \in FinishOps /\ q.at = o.at /\ q.epoch = o.epoch
      BY <1>0 DEF FinishOps
    <2> HIDE DEF q
    <2>3. Moved(q)
      BY <2>1, <2>2 DEF Closing
    <2> QED
      BY <2>2, <2>3
  <1>8. ASSUME NEW p \in Pages, CleanupPage(o, p) PROVE Goal
    <2> DEFINE q == [o EXCEPT !.at = "close", !.page = p, !.todo = o.todo \ {p}]
    <2>1. finishing' = (finishing \ {o}) \cup {q} /\ o.at = "cleanup"
      BY <1>8, Zenon DEF CleanupPage
    <2>2. q \in FinishOps /\ q.page = p /\ q.epoch = o.epoch
      BY <1>0 DEF FinishOps
    <2> HIDE DEF q
    <2>3. Moved(q)
      BY <2>1, <2>2 DEF Closing
    <2> QED
      BY <2>2, <2>3
  <1> QED
    BY <1>1, <1>2, <1>4, <1>5, <1>6, <1>7, <1>8 DEF FinishStep

\* Every step keeps the requests well formed.
LEMMA RequestSteps ==
  ASSUME AuthorityInv, RequestType, [Next]_vars PROVE RequestType'
  <1>0. lease.epoch \in Nat
    BY DEF AuthorityInv, AuthorityType, Leases
  <1>1. CASE HostNext \/ LeaseNext \/ ActionNext \/ UNCHANGED vars
    BY <1>1, RequestFrame DEF RequestType
  <1>2. CASE PageNext
    <2>0. UNCHANGED finishing
      <3> USE DEF opVars, notCreating, notClosing
      <3>1. ASSUME NEW c \in Conns, NEW p \in Pages,
                   CreatePageAt(c, p) \/ CreateManagedPage(c, p) \/ BindPage(c, p)
                   \/ MarkPageLost(c, p) \/ ClosePage(c, p)
            PROVE  UNCHANGED finishing
        BY <3>1 DEF CreatePageAt, CreateManagedPage, BindPage, MarkPageLost, ClosePage
      <3>2. ASSUME NEW p \in Pages, TargetLostEvent(p) PROVE UNCHANGED finishing
        BY <3>2 DEF TargetLostEvent
      <3>3. ASSUME NEW o \in creating, BridgeCreatePage(o) \/ BindManagedPage(o) \/ CreateEnds(o)
            PROVE  UNCHANGED finishing
        BY <3>3 DEF BridgeCreatePage, BindManagedPage, CreateEnds
      <3>4. ASSUME NEW o \in closing,
                   BridgeClosePage(o) \/ BridgeCloseFails(o) \/ FinishClosePage(o) \/ CloseFailed(o)
                   \/ CloseEnds(o)
            PROVE  UNCHANGED finishing
        BY <3>4 DEF BridgeClosePage, BridgeCloseFails, FinishClosePage, CloseFailed, CloseEnds
      <3> QED
        BY <1>2, <3>1, <3>2, <3>3, <3>4 DEF PageNext
    <2>1. \A o \in creating : [o EXCEPT !.at = "bind"] \in CreateOps
      BY DEF RequestType, CreateOps
    <2>2. \A o \in closing : [o EXCEPT !.at = "closed"] \in CloseOps /\ [o EXCEPT !.at = "failed"] \in CloseOps
      BY DEF RequestType, CloseOps
    <2> DEFINE Typed == creating' \subseteq CreateOps /\ closing' \subseteq CloseOps
    <2>3. Typed
      <3> USE DEF opVars, notCreating, notClosing
      <3>1. ASSUME NEW c \in Conns, NEW p \in Pages,
                   CreatePageAt(c, p) \/ BindPage(c, p) \/ MarkPageLost(c, p)
            PROVE  UNCHANGED <<creating, closing>>
        BY <3>1 DEF CreatePageAt, BindPage, MarkPageLost
      <3>2. ASSUME NEW p \in Pages, TargetLostEvent(p) PROVE UNCHANGED <<creating, closing>>
        BY <3>2 DEF TargetLostEvent
      <3>3. ASSUME NEW c \in Conns, NEW p \in Pages, CreateManagedPage(c, p) PROVE Typed
        BY <1>0, <3>3 DEF CreateManagedPage, RequestType, CreateOps
      <3>4. ASSUME NEW c \in Conns, NEW p \in Pages, ClosePage(c, p) PROVE Typed
        BY <1>0, <3>4 DEF ClosePage, RequestType, CloseOps
      <3>5. ASSUME NEW o \in creating, BridgeCreatePage(o) PROVE Typed
        BY <2>1, <3>5 DEF BridgeCreatePage, RequestType
      <3>6. ASSUME NEW o \in creating, BindManagedPage(o) \/ CreateEnds(o) PROVE Typed
        BY <3>6 DEF BindManagedPage, CreateEnds, RequestType
      <3>7. ASSUME NEW o \in closing, BridgeClosePage(o) \/ BridgeCloseFails(o) PROVE Typed
        BY <2>2, <3>7 DEF BridgeClosePage, BridgeCloseFails, RequestType
      <3>8. ASSUME NEW o \in closing, FinishClosePage(o) \/ CloseFailed(o) \/ CloseEnds(o)
            PROVE  Typed
        BY <3>8 DEF FinishClosePage, CloseFailed, CloseEnds, RequestType
      <3> QED
        BY <1>2, <3>1, <3>2, <3>3, <3>4, <3>5, <3>6, <3>7, <3>8 DEF PageNext, RequestType
    <2> QED
      BY <2>0, <2>3 DEF RequestType
  <1>3. CASE FinishNext
    <2>1. UNCHANGED <<creating, closing>>
      <3> USE DEF opVars, notFinishing
      <3>1. ASSUME NEW c \in Conns, FinishSpace(c) \/ ReleaseSpace(c) \/ PruneReleasedSpaces(c)
            PROVE  UNCHANGED <<creating, closing>>
        BY <3>1 DEF FinishSpace, ReleaseSpace, PruneReleasedSpaces
      <3>2. ASSUME NEW o \in finishing,
                   ListMissingPages(o) \/ DrainSpace(o) \/ BridgeCleanup(o) \/ BridgeCleanupFails(o)
                   \/ FinishPageCleanup(o) \/ RecordCleanupFailure(o) \/ CompleteFinish(o)
                   \/ FinishEnds(o)
            PROVE  UNCHANGED <<creating, closing>>
        BY <3>2 DEF ListMissingPages, DrainSpace, BridgeCleanup, BridgeCleanupFails,
                    FinishPageCleanup, RecordCleanupFailure, CompleteFinish, FinishEnds
      <3>3. ASSUME NEW o \in finishing, NEW p \in Pages, SweepPage(o, p) \/ CleanupPage(o, p)
            PROVE  UNCHANGED <<creating, closing>>
        BY <3>3 DEF SweepPage, CleanupPage
      <3> QED
        BY <1>3, <3>1, <3>2, <3>3 DEF FinishNext
    <2>2. ASSUME NEW c \in Conns, ReleaseSpace(c) \/ PruneReleasedSpaces(c) PROVE UNCHANGED finishing
      BY <2>2 DEF ReleaseSpace, PruneReleasedSpaces, opVars
    <2>3. ASSUME NEW c \in Conns, FinishSpace(c) PROVE RequestType'
      BY <1>0, <2>1, <2>3 DEF FinishSpace, RequestType, FinishOps, Observed
    <2>4. ASSUME NEW o \in finishing, FinishStep(o) PROVE RequestType'
      <3>1. CASE finishing' = finishing \ {o}
        BY <2>1, <3>1 DEF RequestType
      <3>2. ASSUME NEW q \in FinishOps, finishing' = (finishing \ {o}) \cup {q},
                   q.at \in {"close", "closed", "lost"} => q.page \in Pages
            PROVE  RequestType'
        BY <2>1, <3>2 DEF RequestType
      <3> QED
        BY <2>4, <3>1, <3>2, FinishRequest
    <2> QED
      BY <1>3, <2>1, <2>2, <2>3, <2>4 DEF FinishNext, FinishStep, RequestType
  <1> QED
    BY <1>1, <1>2, <1>3 DEF Next

\* The operations on pages.
LEMMA PageOperations ==
  ASSUME PageInv, RequestType, PageNext PROVE PageInv'
  <1>0. UNCHANGED receipt
    <2> USE DEF actionVars
    <2>1. ASSUME NEW c \in Conns, NEW p \in Pages,
                 CreatePageAt(c, p) \/ CreateManagedPage(c, p) \/ BindPage(c, p)
                 \/ MarkPageLost(c, p) \/ ClosePage(c, p)
          PROVE  UNCHANGED receipt
      BY <2>1 DEF CreatePageAt, CreateManagedPage, PlanPage, BindPage, MarkPageLost, ClosePage
    <2>2. ASSUME NEW p \in Pages, TargetLostEvent(p) PROVE UNCHANGED receipt
      BY <2>2 DEF TargetLostEvent
    <2>3. ASSUME NEW o \in creating, BridgeCreatePage(o) \/ BindManagedPage(o) \/ CreateEnds(o)
          PROVE  UNCHANGED receipt
      BY <2>3 DEF BridgeCreatePage, BindManagedPage, CreateEnds
    <2>4. ASSUME NEW o \in closing,
                 BridgeClosePage(o) \/ BridgeCloseFails(o) \/ FinishClosePage(o) \/ CloseFailed(o)
                 \/ CloseEnds(o)
          PROVE  UNCHANGED receipt
      BY <2>4 DEF BridgeClosePage, BridgeCloseFails, FinishClosePage, CloseFailed, CloseEnds
    <2> QED
      BY <2>1, <2>2, <2>3, <2>4 DEF PageNext
  <1>1. ASSUME UNCHANGED page PROVE PageInv'
    BY <1>0, <1>1 DEF PageInv
  <1>2. ASSUME NEW p \in Pages, page' = [page EXCEPT ![p] = PlannedPage], page[p] = AbsentPage
        PROVE  PageInv'
    <2>1. page[p] # ManagedPage
      BY <1>2, PageValues
    <2> QED
      BY <1>0, <1>2, <2>1, PageValues, OnePage
  <1>3. ASSUME NEW p \in Pages, page' = [page EXCEPT ![p] = ManagedPage] PROVE PageInv'
    BY <1>0, <1>3, PageValues, OnePage
  <1>4. ASSUME NEW p \in Pages, LosePage(p) PROVE PageInv'
    <2>1. page[p] \in PageRecords
      BY DEF PageInv
    <2>2. LostPage(page[p]) \in PageRecords /\ ValidPage(LostPage(page[p]))
      BY <2>1, PageValues
    <2>3. page' = [page EXCEPT ![p] = LostPage(page[p])] /\ ~QueuedOn(p)
      BY <1>4 DEF LosePage
    <2> QED
      BY <1>0, <2>2, <2>3, OnePage
  <1>5. ASSUME NEW c \in Conns, NEW p \in Pages, CreatePageAt(c, p) \/ CreateManagedPage(c, p)
        PROVE  PageInv'
    BY <1>2, <1>5 DEF CreatePageAt, CreateManagedPage, PlanPage
  <1>6. ASSUME NEW c \in Conns, NEW p \in Pages, BindPage(c, p) PROVE PageInv'
    BY <1>3, <1>6 DEF BindPage
  <1>7. ASSUME NEW c \in Conns, NEW p \in Pages, MarkPageLost(c, p) PROVE PageInv'
    BY <1>4, <1>7 DEF MarkPageLost
  <1>8. ASSUME NEW p \in Pages, TargetLostEvent(p) PROVE PageInv'
    BY <1>4, <1>8 DEF TargetLostEvent
  <1>9. ASSUME NEW c \in Conns, NEW p \in Pages, ClosePage(c, p) PROVE PageInv'
    <2>1. page[p] = ManagedPage /\ ~QueuedOn(p)
      BY <1>9 DEF ClosePage, AdmitsMutations
    <2>2. page' = [page EXCEPT ![p] = [page[p] EXCEPT !.lc = "Closing"]]
      BY <1>9, Zenon DEF ClosePage
    <2>3. page' = [page EXCEPT ![p] = PageIn("Closing", "Agent", "Bound")]
      BY <2>1, <2>2, PageValues
    <2> QED
      BY <1>0, <2>1, <2>3, PageValues, OnePage
  <1>10. ASSUME NEW o \in creating, BridgeCreatePage(o) \/ BindManagedPage(o) \/ CreateEnds(o)
         PROVE  PageInv'
    <2>1. o.page \in Pages
      BY DEF RequestType, CreateOps
    <2> QED
      BY <1>1, <1>3, <1>10, <2>1 DEF BridgeCreatePage, BindManagedPage, CreateEnds
  <1>11. ASSUME NEW o \in closing,
                BridgeClosePage(o) \/ BridgeCloseFails(o) \/ CloseFailed(o) \/ CloseEnds(o)
         PROVE  PageInv'
    <2>1. o.page \in Pages
      BY DEF RequestType, CloseOps
    <2> QED
      BY <1>1, <1>4, <1>11, <2>1 DEF BridgeClosePage, BridgeCloseFails, CloseFailed, CloseEnds
  <1>12. ASSUME NEW o \in closing, FinishClosePage(o) PROVE PageInv'
    <2>1. o.page \in Pages
      BY DEF RequestType, CloseOps
    <2>2. page[o.page].lc = "Closing" /\ page' = [page EXCEPT ![o.page] = ClosedPage]
      BY <1>12 DEF FinishClosePage
    <2>3. page[o.page] # ManagedPage
      BY <2>2, PageValues
    <2> QED
      BY <1>0, <2>1, <2>2, <2>3, PageValues, OnePage
  <1> QED
    BY <1>5, <1>6, <1>7, <1>8, <1>9, <1>10, <1>11, <1>12 DEF PageNext

\* Several pages at once change only where nothing is queued.
LEMMA ManyPages ==
  ASSUME PageInv, page' \in [Pages -> PageRecords], \A p \in Pages : ValidPage(page'[p]),
         \A a \in Actions : receipt'[a].status # "Queued"
  PROVE  PageInv'
  BY DEF PageInv, ValidPage

\* The end of a space.
LEMMA PageEnds ==
  ASSUME WorkInv, PageInv, RequestType, FinishNext PROVE PageInv'
  <1>1. ASSUME UNCHANGED <<page, receipt>> PROVE PageInv'
    BY <1>1 DEF PageInv
  <1>2. ASSUME NEW o, NEW p \in Pages, NEW r \in {ClosedPage, PageIn("TargetLost", "Agent", "Lost")},
               CleanupClaim(o, p), page' = [page EXCEPT ![p] = r], UNCHANGED receipt
        PROVE  PageInv'
    <2>1. page[p] # ManagedPage
      BY <1>2, PageValues DEF CleanupClaim
    <2>2. r \in PageRecords /\ ValidPage(r)
      BY <1>2, PageValues
    <2> QED
      BY <1>2, <2>1, <2>2, OnePage
  <1>3. ASSUME NEW c \in Conns, FinishSpace(c) \/ ReleaseSpace(c) PROVE PageInv'
    BY <1>1, <1>3 DEF FinishSpace, ReleaseSpace, actionVars
  <1>4. ASSUME NEW c \in Conns, PruneReleasedSpaces(c) PROVE PageInv'
    <2>1. page' = [p \in Pages |-> AbsentPage] /\ \A a \in Actions : receipt'[a].status # "Queued"
      BY <1>4 DEF PruneReleasedSpaces, NoReceipt
    <2>2. AbsentPage \in PageRecords /\ ValidPage(AbsentPage)
      BY PageValues
    <2> QED
      BY <2>1, <2>2, ManyPages
  <1>5. ASSUME NEW o \in finishing,
               ListMissingPages(o) \/ BridgeCleanup(o) \/ BridgeCleanupFails(o) \/ CompleteFinish(o)
               \/ FinishEnds(o)
        PROVE  PageInv'
    BY <1>1, <1>5 DEF ListMissingPages, BridgeCleanup, BridgeCleanupFails, CompleteFinish,
                      FinishEnds, actionVars
  <1>6. ASSUME NEW o \in finishing, NEW p \in Pages, CleanupPage(o, p) PROVE PageInv'
    BY <1>1, <1>6 DEF CleanupPage, actionVars
  <1>7. ASSUME NEW o \in finishing, NEW p \in Pages, SweepPage(o, p) PROVE PageInv'
    BY <1>2, <1>7 DEF SweepPage, actionVars
  <1>8. ASSUME NEW o \in finishing, FinishPageCleanup(o) \/ RecordCleanupFailure(o) PROVE PageInv'
    <2>1. o.page \in Pages
      BY <1>8 DEF FinishPageCleanup, RecordCleanupFailure, RequestType
    <2> QED
      BY <1>2, <1>8, <2>1 DEF FinishPageCleanup, RecordCleanupFailure, actionVars
  <1>9. ASSUME NEW o \in finishing, DrainSpace(o) PROVE PageInv'
    <2> DEFINE cleanup == {p \in Pages : AdmitsMutations(p)
                                         \/ (lifecycle = "Draining" /\ page[p].lc = "Closing")}
    <2>1. page' = [p \in Pages |-> IF p \in cleanup THEN [page[p] EXCEPT !.lc = "Closing"]
                                                    ELSE page[p]]
      BY <1>9 DEF DrainSpace
    <2>2. \A p \in cleanup : AdmitsMutations(p) \/ page[p].lc = "Closing"
      OBVIOUS
    <2>3. \A a \in Actions : receipt'[a].status # "Queued"
      BY <1>9 DEF DrainSpace, NothingUnresolved, Unresolved, actionVars
    <2> HIDE DEF cleanup
    <2>4. ASSUME NEW p \in Pages PROVE page'[p] \in PageRecords /\ ValidPage(page'[p])
      <3>0. page[p] \in PageRecords /\ ValidPage(page[p])
        BY DEF PageInv
      <3>1. CASE p \in cleanup /\ AdmitsMutations(p)
        <4>1. page'[p] = [page[p] EXCEPT !.lc = "Closing"] /\ page[p] = ManagedPage
          BY <2>1, <3>1 DEF AdmitsMutations
        <4>2. page'[p] = PageIn("Closing", "Agent", "Bound")
          BY <4>1, PageValues
        <4> QED
          BY <4>2, PageValues
      <3>2. CASE p \in cleanup /\ page[p].lc = "Closing"
        <4>1. page'[p] = [page[p] EXCEPT !.lc = "Closing"]
          BY <2>1, <3>2
        <4>2. page'[p] = page[p]
          BY <3>0, <3>2, <4>1 DEF PageRecords
        <4> QED
          BY <3>0, <4>2
      <3>3. CASE p \notin cleanup
        BY <2>1, <3>0, <3>3
      <3> QED
        BY <2>2, <3>1, <3>2, <3>3
    <2>5. page' \in [Pages -> PageRecords]
      <3>1. page' = [p \in Pages |-> page'[p]]
        BY <2>1, Zenon
      <3> QED
        BY <2>4, <3>1
    <2> QED
      BY <2>3, <2>4, <2>5, ManyPages
  <1> QED
    BY <1>3, <1>4, <1>5, <1>6, <1>7, <1>8, <1>9 DEF FinishNext

\* Fences hand pages to the user and back.
LEMMA PageLeases ==
  ASSUME AuthorityInv, WorkInv, LedgerInv, PageInv, LeaseNext PROVE PageInv'
  <1>0. QueueShrinks
    BY LeaseKeeps, HousekeepingShrinks
  <1>1. ASSUME UNCHANGED page PROVE PageInv'
    BY <1>0, <1>1, PagesUntouched
  <1>2. CASE LeaseExpires
    BY <1>1, <1>2 DEF LeaseExpires
  <1>3. ASSUME NEW c \in Conns,
               \/ CreateSpace(c) \/ AcquireLease(c) \/ ReturnControl(c) \/ ControlTicket(c)
               \/ AcknowledgeFence(c) \/ AcknowledgeReturnControl(c)
        PROVE  PageInv'
    BY <1>1, <1>3 DEF CreateSpace, AcquireLease, ReturnControl, ControlTicket, AcknowledgeFence,
                      AcknowledgeReturnControl
  <1>4. ASSUME NEW c \in Conns, NEW then, Takeover(c, then) PROVE PageInv'
    BY <1>1, <1>4 DEF Takeover
  <1>5. ASSUME NEW c \in Conns, NEW t, TakeoverWithControlTicket(c, t) PROVE PageInv'
    BY <1>1, <1>5 DEF TakeoverWithControlTicket
  <1>6. ASSUME NEW o \in fencing,
               BridgeFence(o) \/ RebindPages(o) \/ SettleFencedSpace(o) \/ FenceEnds(o)
        PROVE  PageInv'
    BY <1>1, <1>6 DEF BridgeFence, RebindPages, SettleFencedSpace, FenceEnds
  <1>7. ASSUME NEW o \in fencing, FinishFence(o) \/ FinishUserReturn(o) PROVE PageInv'
    <2>1. lifecycle = "FencePending" /\ UNCHANGED receipt
      BY <1>7 DEF FinishFence, FinishUserReturn, FenceClaim, UserReturnClaim, AuthorityInv, FenceInv,
                  actionVars
    <2>2. \A a \in Actions : receipt'[a].status # "Queued"
      BY <2>1 DEF WorkInv, FenceStopsWork
    <2>3. \A p \in Pages : page'[p] \in {page[p], ManagedPage, UserPage}
      BY <1>7 DEF FinishFence, FinishUserReturn
    <2>4. \A p \in Pages : page'[p] \in PageRecords /\ ValidPage(page'[p])
      BY <2>3, PageValues DEF PageInv
    <2>5. page' = [p \in Pages |-> page'[p]]
      BY <1>7, Zenon DEF FinishFence, FinishUserReturn
    <2>6. page' \in [Pages -> PageRecords]
      BY <2>4, <2>5
    <2> QED
      BY <2>2, <2>4, <2>6, ManyPages
  <1> QED
    BY <1>2, <1>3, <1>4, <1>5, <1>6, <1>7 DEF LeaseNext

\* Actions change no page; one is queued only on a managed page.
LEMMA PageActions ==
  ASSUME WorkInv, LedgerInv, PageInv, ActionNext, lease.epoch \in Nat PROVE PageInv'
  <1>1. ASSUME NEW c \in Conns, NEW a \in Actions, DispatchAction(c, a) PROVE PageInv'
    <2>1. receipt' = [receipt EXCEPT ![a].status = "Running"] /\ UNCHANGED page
      BY <1>1 DEF DispatchAction
    <2>2. receipt[a] \in Receipts /\ receipt \in [Actions -> Receipts]
      BY DEF WorkInv, WorkType
    <2>3. QueueShrinks
      BY <2>1, <2>2 DEF QueueShrinks, Receipts
    <2> QED
      BY <2>1, <2>3, PagesUntouched
  <1>2. ASSUME NEW c \in Conns, NEW a \in Actions, NEW p \in Pages, EnqueueAction(c, a, p)
        PROVE  PageInv'
    <2> DEFINE r == [status |-> "Queued", epoch |-> lease.epoch, page |-> p, recon |-> "NotRequired"]
    <2>1. r \in Receipts /\ r.page = p
      BY DEF Receipts
    <2>2. receipt' = [receipt EXCEPT ![a] = r] /\ page[p] = ManagedPage /\ UNCHANGED page
      BY <1>2 DEF EnqueueAction, AdmitsMutations
    <2> HIDE DEF r
    <2>3. receipt'[a] = r /\ \A b \in Actions \ {a} : receipt'[b] = receipt[b]
      BY <2>1, <2>2, OneReceipt DEF WorkInv
    <2> QED
      BY <2>1, <2>2, <2>3 DEF PageInv
  <1>3. ASSUME NEW o \in dispatching,
               AdmitMutation(o) \/ GrantPermit(o) \/ RefuseAdmission(o) \/ RecheckDispatch(o)
               \/ RecheckFails(o) \/ BridgeDispatch(o) \/ BridgeDispatchFails(o)
               \/ FinishDispatchFails(o)
        PROVE  PageInv'
    <2>1. UNCHANGED <<page, receipt>>
      BY <1>3 DEF AdmitMutation, GrantPermit, RefuseAdmission, RecheckDispatch, RecheckFails,
         BridgeDispatch, BridgeDispatchFails, FinishDispatchFails, DispatchStep, actionVars
    <2> QED
      BY <2>1 DEF PageInv
  <1>4. ASSUME NEW o \in dispatching, FinishDispatch(o) PROVE PageInv'
    BY <1>4, OutcomeSteps, PagesUntouched DEF FinishDispatch, DispatchStep
  <1>5. ASSUME NEW c \in Conns, NEW a \in Actions, BeginReconcile(c, a) PROVE PageInv'
    BY <1>5, OutcomeSteps, PagesUntouched DEF BeginReconcile
  <1>6. ASSUME NEW o \in reconciling, FinishReconcile(o) PROVE PageInv'
    BY <1>6, OutcomeSteps, PagesUntouched DEF FinishReconcile
  <1> QED
    BY <1>1, <1>2, <1>3, <1>4, <1>5, <1>6 DEF ActionNext

\* Requests and pages fit in every reachable state.
THEOREM PageSafety == Spec => [](RequestType /\ PageInv)
  <1>1. Init => RequestType
    BY DEF Init, RequestType
  <1>2. RequestType /\ PageInv /\ LedgerInv /\ WorkInv /\ AuthorityInv /\ [Next]_vars
        => RequestType' /\ PageInv'
    <2> SUFFICES ASSUME RequestType, PageInv, LedgerInv, WorkInv, AuthorityInv, [Next]_vars
                 PROVE  PageInv'
      BY RequestSteps
    <2>0. lease.epoch \in Nat
      BY DEF AuthorityInv, AuthorityType, Leases
    <2>1. CASE HostNext
      <3>1. UNCHANGED page
        BY <2>1 DEF HostNext, Hello, Disconnect, HostTransition, Shutdown, BridgeLost, Restart
      <3> QED
        BY <2>1, <3>1, HostKeeps, HousekeepingShrinks, PagesUntouched
    <2>2. CASE UNCHANGED vars
      BY <2>2 DEF vars, actionVars, PageInv
    <2> QED
      BY <2>0, <2>1, <2>2, PageLeases, PageOperations, PageEnds, PageActions DEF Next
  <1> QED
    BY <1>1, <1>2, PageInit, LedgerSafety, WorkSafety, AuthoritySafety, PTL DEF Spec

\* For any number of connections, pages, actions, restarts and requests in flight,
\* no operation of the broker ever reaches a state that validate_state refuses.
THEOREM LedgerStaysValid == Spec => []LedgerValid
  BY PageSafety, LedgerSafety, AuthoritySafety, LedgerRules, PTL

-----------------------------------------------------------------------------
(* The end of a space.                                                     *)

Ending == {"Draining", "Finished", "Released"}
Held == {"AgentOwned", "FencePending"}

\* A space that drains has nothing left open; a request that has come to the
\* closing of pages belongs to the epoch in which it drained the space.
FinishInv ==
    /\ lifecycle \in Ending => \A a \in Actions : ~Unresolved(a)
    /\ lifecycle \in {"Finished", "Released"} => \A p \in Pages : ~Unclosed(p)
    /\ \A o \in finishing : lifecycle # "Pruned" =>
          /\ o.epoch <= lease.epoch
          /\ o.at \in Closing /\ o.epoch = lease.epoch => lifecycle \notin Held

\* How the epoch and the lifecycle of a space move: a space is not held again
\* without a new epoch, and comes to an end by finish_space only.
EpochMoves ==
    lifecycle' # "Pruned" =>
        /\ lifecycle # "Pruned"
        /\ lease'.epoch \in Nat
        /\ lease'.epoch >= lease.epoch
        /\ lifecycle' \in Held => lifecycle \in Held \/ lease'.epoch > lease.epoch

EndMoves ==
    lifecycle' \in Ending =>
        \/ lifecycle' = lifecycle
        \/ \E o \in finishing : DrainSpace(o) \/ CompleteFinish(o)
        \/ \E c \in Conns : ReleaseSpace(c)

\* What a step may do to the lifecycle of the space.
LEMMA SpaceMoves ==
  ASSUME AuthorityInv, [Next]_vars PROVE EpochMoves /\ EndMoves
  <1>0. lease \in Leases /\ lease.epoch \in Nat /\ lifecycle \in SpaceStates
    BY DEF AuthorityInv, AuthorityType, Leases
  <1>1. ASSUME UNCHANGED <<lifecycle, lease>> PROVE EpochMoves /\ EndMoves
    BY <1>0, <1>1 DEF EpochMoves, EndMoves
  <1>2. CASE PageNext \/ ActionNext \/ UNCHANGED vars
    BY <1>1, <1>2, PageFrame, ActionFrame DEF authorityState, vars, authorityVars
  <1>3. CASE HostNext
    <2>1. ASSUME NEW c \in Conns, Hello(c) \/ Disconnect(c) PROVE UNCHANGED <<lifecycle, lease>>
      BY <2>1 DEF Hello, Disconnect, authorityVars
    <2>2. CASE HostTransition \/ Shutdown \/ BridgeLost
      BY <1>1, <2>2 DEF HostTransition, Shutdown, BridgeLost, authorityVars
    <2>3. CASE Restart
      <3>1. lease'.epoch = lease.epoch
        BY <1>0, <2>3 DEF Restart, RecoverLease, Leases
      <3>2. lifecycle' = lifecycle \/ (lifecycle' = "Orphaned" /\ lifecycle # "Pruned")
        BY <2>3 DEF Restart, Interrupted
      <3> QED
        BY <1>0, <3>1, <3>2 DEF EpochMoves, EndMoves, Held, Ending
    <2> QED
      BY <1>1, <1>3, <2>1, <2>2, <2>3 DEF HostNext
  <1>4. CASE LeaseNext
    <2>1. ASSUME lease'.epoch = lease.epoch, UNCHANGED lifecycle PROVE EpochMoves /\ EndMoves
      BY <1>0, <2>1 DEF EpochMoves, EndMoves
    <2>2. ASSUME lease'.epoch = lease.epoch + 1, lifecycle' \in Held, lifecycle # "Pruned"
          PROVE  EpochMoves /\ EndMoves
      BY <1>0, <2>2 DEF EpochMoves, EndMoves, Held, Ending
    <2>3. CASE LeaseExpires
      BY <1>0, <2>1, <2>3 DEF LeaseExpires, Leases
    <2>4. ASSUME NEW c \in Conns, CreateSpace(c) PROVE EpochMoves /\ EndMoves
      BY <1>0, <2>4 DEF CreateSpace, EpochMoves, EndMoves, Held, Ending
    <2>5. ASSUME NEW c \in Conns, AcquireLease(c) PROVE EpochMoves /\ EndMoves
      <3>1. lease'.epoch = lease.epoch + 1 /\ lifecycle' = "AgentOwned" /\ lifecycle # "Pruned"
        BY <2>5 DEF AcquireLease, ActiveLease, LeaseAvailable
      <3> QED
        BY <2>2, <3>1 DEF Held
    <2>6. ASSUME NEW c \in Conns, ReturnControl(c) PROVE EpochMoves /\ EndMoves
      <3>1. lease'.epoch = lease.epoch + 1 /\ lifecycle' = "FencePending" /\ lifecycle # "Pruned"
        BY <1>0, <2>6 DEF ReturnControl, AuthorizeSpace, BeginFence, Leases
      <3> QED
        BY <2>2, <3>1 DEF Held
    <2>7. ASSUME NEW c \in Conns, NEW then, Takeover(c, then) PROVE EpochMoves /\ EndMoves
      <3>1. lease'.epoch = lease.epoch + 1 /\ lifecycle' = "FencePending" /\ lifecycle # "Pruned"
        BY <2>7 DEF Takeover, Exists, BeginFence, ActiveLease
      <3> QED
        BY <2>2, <3>1 DEF Held
    <2>8. ASSUME NEW c \in Conns, NEW t, TakeoverWithControlTicket(c, t) PROVE EpochMoves /\ EndMoves
      <3>1. lease'.epoch = lease.epoch + 1 /\ lifecycle' = "FencePending" /\ lifecycle # "Pruned"
        BY <2>8 DEF TakeoverWithControlTicket, BeginFence, ActiveLease
      <3> QED
        BY <2>2, <3>1 DEF Held
    <2>9. ASSUME NEW c \in Conns,
                 ControlTicket(c) \/ AcknowledgeFence(c) \/ AcknowledgeReturnControl(c)
          PROVE  EpochMoves /\ EndMoves
      <3>1. lease'.epoch = lease.epoch /\ UNCHANGED lifecycle
        BY <1>0, <2>9 DEF ControlTicket, AcknowledgeFence, AcknowledgeReturnControl, authorityVars,
                          Leases
      <3> QED
        BY <2>1, <3>1
    <2>10. ASSUME NEW o \in fencing, BridgeFence(o) \/ RebindPages(o) \/ FenceEnds(o)
           PROVE  EpochMoves /\ EndMoves
      BY <1>1, <2>10 DEF BridgeFence, RebindPages, FenceEnds, authorityVars
    <2>11. ASSUME NEW o \in fencing, FinishFence(o) PROVE EpochMoves /\ EndMoves
      <3>1. lifecycle = "FencePending" /\ lifecycle' = "AgentOwned" /\ UNCHANGED lease
        BY <2>11 DEF FinishFence, FenceClaim, AuthorityInv, FenceInv
      <3> QED
        BY <1>0, <3>1 DEF EpochMoves, EndMoves, Held, Ending
    <2>12. ASSUME NEW o \in fencing, FinishUserReturn(o) PROVE EpochMoves /\ EndMoves
      <3>1. lifecycle = "FencePending" /\ lifecycle' = "UserOwned" /\ lease'.epoch = lease.epoch
        BY <1>0, <2>12 DEF FinishUserReturn, UserReturnClaim, Leases
      <3> QED
        BY <1>0, <3>1 DEF EpochMoves, EndMoves, Held, Ending
    <2>13. ASSUME NEW o \in fencing, SettleFencedSpace(o) PROVE EpochMoves /\ EndMoves
      <3>1. /\ lifecycle = "AgentOwned" /\ lifecycle' \in {"Paused", "HandoffRequested"}
            /\ lease'.epoch = lease.epoch
        BY <1>0, <2>13 DEF SettleFencedSpace, StillAuthorized, AuthorityInv, SettleInv, Leases
      <3> QED
        BY <1>0, <3>1 DEF EpochMoves, EndMoves, Held, Ending
    <2> QED
      BY <1>4, <2>3, <2>4, <2>5, <2>6, <2>7, <2>8, <2>9, <2>10, <2>11, <2>12, <2>13 DEF LeaseNext
  <1>5. CASE FinishNext
    <2>1. ASSUME NEW c \in Conns, FinishSpace(c) PROVE EpochMoves /\ EndMoves
      BY <1>1, <2>1 DEF FinishSpace, authorityVars
    <2>2. ASSUME NEW c \in Conns, ReleaseSpace(c) PROVE EpochMoves /\ EndMoves
      BY <1>0, <2>2 DEF ReleaseSpace, EpochMoves, EndMoves, Held
    <2>3. ASSUME NEW c \in Conns, PruneReleasedSpaces(c) PROVE EpochMoves /\ EndMoves
      BY <2>3 DEF PruneReleasedSpaces, EpochMoves, EndMoves, Ending
    <2>4. ASSUME NEW o \in finishing, DrainSpace(o) PROVE EpochMoves /\ EndMoves
      <3>1. lifecycle' = "Draining" /\ lifecycle # "Pruned" /\ UNCHANGED lease
        BY <2>4 DEF DrainSpace, FinishClaim
      <3> QED
        BY <1>0, <2>4, <3>1 DEF EpochMoves, EndMoves, Held
    <2>5. ASSUME NEW o \in finishing, CompleteFinish(o) PROVE EpochMoves /\ EndMoves
      BY <1>0, <2>5 DEF CompleteFinish, FinishClaim, EpochMoves, EndMoves, Held, Leases
    <2>6. ASSUME NEW o \in finishing,
                 ListMissingPages(o) \/ BridgeCleanup(o) \/ BridgeCleanupFails(o)
                 \/ FinishPageCleanup(o) \/ RecordCleanupFailure(o) \/ FinishEnds(o)
          PROVE  EpochMoves /\ EndMoves
      BY <1>1, <2>6 DEF ListMissingPages, BridgeCleanup, BridgeCleanupFails, FinishPageCleanup,
                        RecordCleanupFailure, FinishEnds, authorityVars
    <2>7. ASSUME NEW o \in finishing, NEW p \in Pages, SweepPage(o, p) \/ CleanupPage(o, p)
          PROVE  EpochMoves /\ EndMoves
      BY <1>1, <2>7 DEF SweepPage, CleanupPage, authorityVars
    <2> QED
      BY <1>5, <2>1, <2>2, <2>3, <2>4, <2>5, <2>6, <2>7 DEF FinishNext
  <1> QED
    BY <1>2, <1>3, <1>4, <1>5 DEF Next

\* When nothing is open, no step but a submission or the end of the space changes a
\* receipt.
LEMMA ResolvedStays ==
  ASSUME AuthorityInv, WorkInv, LedgerInv, [Next]_vars, lifecycle \in Ending,
         \A a \in Actions : ~Unresolved(a), lifecycle' # "Pruned"
  PROVE  receipt' = receipt
  <1>0. receipt \in [Actions -> Receipts] /\ lifecycle # "AgentOwned"
        /\ \A a \in Actions : receipt[a].status \notin {"Queued", "Running", "Unknown"}
    BY DEF WorkInv, WorkType, Unresolved, Ending
  <1>1. CASE Housekeeping
    <2>1. CASE receipt' = InterruptedReceipts
      <3>1. \A a \in Actions : InterruptedReceipts[a] = receipt[a]
        BY <1>0, InterruptedFields
      <3>2. InterruptedReceipts \in [Actions -> Receipts]
        BY <1>0, InterruptionQuiet
      <3> QED
        BY <1>0, <2>1, <3>1, <3>2
    <2>2. CASE receipt' = StoppedReceipts
      <3>1. \A a \in Actions : StoppedReceipts[a] = receipt[a]
        BY <1>0, StoppedFields
      <3>2. StoppedReceipts \in [Actions -> Receipts]
        BY <1>0, StopQuiet
      <3> QED
        BY <1>0, <2>2, <3>1, <3>2
    <2> QED
      BY <1>1, <2>1, <2>2 DEF Housekeeping, Forgotten, Interruption
  <1>2. CASE ActionNext
    <2>1. ASSUME NEW c \in Conns, NEW a \in Actions, DispatchAction(c, a) \/ BeginReconcile(c, a)
          PROVE  FALSE
      BY <1>0, <2>1 DEF DispatchAction, AuthorizeSpace, BeginReconcile, ReconcileClaim,
                        StillAuthorized
    <2>2. ASSUME NEW c \in Conns, NEW a \in Actions, NEW p \in Pages, EnqueueAction(c, a, p)
          PROVE  FALSE
      BY <1>0, <2>2 DEF EnqueueAction, AuthorizeSpace
    <2>3. ASSUME NEW o \in dispatching,
                 AdmitMutation(o) \/ GrantPermit(o) \/ RefuseAdmission(o) \/ RecheckDispatch(o)
                 \/ RecheckFails(o) \/ BridgeDispatch(o) \/ BridgeDispatchFails(o)
                 \/ FinishDispatchFails(o)
          PROVE  receipt' = receipt
      BY <2>3 DEF AdmitMutation, GrantPermit, RefuseAdmission, RecheckDispatch, RecheckFails,
         BridgeDispatch, BridgeDispatchFails, FinishDispatchFails, actionVars
    <2>4. ASSUME NEW o \in dispatching, FinishDispatch(o) PROVE receipt' = receipt
      <3>1. o.action \in Actions
        BY DEF WorkInv, WorkType, DispatchOps
      <3> QED
        BY <1>0, <2>4, <3>1 DEF FinishDispatch, RecordOutcome
    <2>5. ASSUME NEW o \in reconciling, FinishReconcile(o) PROVE receipt' = receipt
      <3>1. o.action \in Actions
        BY DEF WorkInv, WorkType, ReconcileOps
      <3>2. receipt' = [receipt EXCEPT ![o.action] = receipt[o.action]]
        BY <1>0, <2>5, <3>1 DEF FinishReconcile, Reconciled
      <3> QED
        BY <1>0, <3>1, <3>2
    <2> QED
      BY <1>2, <2>1, <2>2, <2>3, <2>4, <2>5 DEF ActionNext
  <1> QED
    BY <1>1, <1>2, OthersKeep

\* What may happen to the pages of a finished or released space: they may be lost.
LEMMA FinishedPages ==
  ASSUME AuthorityInv, PageInv, [Next]_vars, lifecycle \in {"Finished", "Released"},
         lifecycle' \in {"Finished", "Released"}
  PROVE  \A p \in Pages : page'[p] = page[p] \/ page'[p].lc = "TargetLost"
  <1>0. lifecycle \notin {"AgentOwned", "FencePending", "Draining"} /\ lease.state # "Active"
        /\ pending.purpose = "None"
    BY DEF AuthorityInv, LeaseMatchesLifecycle, FenceInv
  <1> DEFINE Kept == \A p \in Pages : page'[p] = page[p] \/ page'[p].lc = "TargetLost"
  <1>1. ASSUME UNCHANGED page PROVE Kept
    BY <1>1
  <1>2. ASSUME NEW p \in Pages, LosePage(p) PROVE Kept
    <2>1. page' = [page EXCEPT ![p] = LostPage(page[p])] /\ page \in [Pages -> PageRecords]
      BY <1>2 DEF LosePage, PageInv
    <2>2. LostPage(page[p]).lc = "TargetLost"
      BY <2>1, PageValues
    <2> QED
      BY <2>1, <2>2
  <1>3. CASE HostNext
    BY <1>1, <1>3 DEF HostNext, Hello, Disconnect, HostTransition, Shutdown, BridgeLost, Restart
  <1>4. CASE LeaseNext
    <2>1. CASE LeaseExpires
      BY <1>1, <2>1 DEF LeaseExpires
    <2>2. ASSUME NEW c \in Conns,
                 \/ CreateSpace(c) \/ AcquireLease(c) \/ ReturnControl(c) \/ ControlTicket(c)
                 \/ AcknowledgeFence(c) \/ AcknowledgeReturnControl(c)
          PROVE  Kept
      BY <1>1, <2>2 DEF CreateSpace, AcquireLease, ReturnControl, ControlTicket, AcknowledgeFence,
                        AcknowledgeReturnControl
    <2>3. ASSUME NEW c \in Conns, NEW then, Takeover(c, then) PROVE Kept
      BY <1>1, <2>3 DEF Takeover
    <2>4. ASSUME NEW c \in Conns, NEW t, TakeoverWithControlTicket(c, t) PROVE Kept
      BY <1>1, <2>4 DEF TakeoverWithControlTicket
    <2>5. ASSUME NEW o \in fencing,
                 BridgeFence(o) \/ RebindPages(o) \/ SettleFencedSpace(o) \/ FenceEnds(o)
          PROVE  Kept
      BY <1>1, <2>5 DEF BridgeFence, RebindPages, SettleFencedSpace, FenceEnds
    <2>6. ASSUME NEW o \in fencing, FinishFence(o) \/ FinishUserReturn(o) PROVE FALSE
      BY <1>0, <2>6 DEF FinishFence, FinishUserReturn, UserReturnClaim, FenceClaim
    <2> QED
      BY <1>4, <2>1, <2>2, <2>3, <2>4, <2>5, <2>6 DEF LeaseNext
  <1>5. CASE PageNext
    <2>1. ASSUME NEW c \in Conns, NEW p \in Pages,
                 CreatePageAt(c, p) \/ CreateManagedPage(c, p) \/ BindPage(c, p)
                 \/ MarkPageLost(c, p) \/ ClosePage(c, p)
          PROVE  FALSE
      BY <1>0, <2>1 DEF CreatePageAt, CreateManagedPage, PlanPage, BindPage, MarkPageLost, ClosePage,
                        AuthorizeSpace, HoldsLease
    <2>2. ASSUME NEW p \in Pages, TargetLostEvent(p) PROVE Kept
      BY <1>2, <2>2 DEF TargetLostEvent
    <2>3. ASSUME NEW o \in creating, BridgeCreatePage(o) \/ BindManagedPage(o) \/ CreateEnds(o)
          PROVE  Kept
      BY <1>0, <1>1, <2>3 DEF BridgeCreatePage, BindManagedPage, StillAuthorized, CreateEnds
    <2>4. ASSUME NEW o \in closing,
                 BridgeClosePage(o) \/ BridgeCloseFails(o) \/ FinishClosePage(o) \/ CloseFailed(o)
                 \/ CloseEnds(o)
          PROVE  Kept
      BY <1>0, <1>1, <2>4 DEF BridgeClosePage, BridgeCloseFails, FinishClosePage, StillAuthorized,
                              CloseFailed, HoldsLease, CloseEnds
    <2> QED
      BY <1>5, <2>1, <2>2, <2>3, <2>4 DEF PageNext
  <1>6. CASE FinishNext
    <2>1. ASSUME NEW c \in Conns, FinishSpace(c) \/ ReleaseSpace(c) \/ PruneReleasedSpaces(c)
          PROVE  Kept
      BY <1>1, <2>1 DEF FinishSpace, ReleaseSpace, PruneReleasedSpaces
    <2>2. ASSUME NEW o \in finishing,
                 ListMissingPages(o) \/ BridgeCleanup(o) \/ BridgeCleanupFails(o)
                 \/ CompleteFinish(o) \/ FinishEnds(o)
          PROVE  Kept
      BY <1>1, <2>2 DEF ListMissingPages, BridgeCleanup, BridgeCleanupFails, CompleteFinish,
                        FinishEnds
    <2>3. ASSUME NEW o \in finishing, DrainSpace(o) \/ FinishPageCleanup(o) \/ RecordCleanupFailure(o)
          PROVE  FALSE
      BY <1>0, <2>3 DEF DrainSpace, FinishPageCleanup, RecordCleanupFailure, CleanupClaim, FinishClaim
    <2>4. ASSUME NEW o \in finishing, NEW p \in Pages, SweepPage(o, p) \/ CleanupPage(o, p)
          PROVE  FALSE
      BY <1>0, <2>4 DEF SweepPage, CleanupPage, CleanupClaim, FinishClaim
    <2> QED
      BY <1>6, <2>1, <2>2, <2>3, <2>4 DEF FinishNext
  <1>7. CASE ActionNext
    <2>1. ASSUME NEW c \in Conns, NEW a \in Actions, DispatchAction(c, a) \/ BeginReconcile(c, a)
          PROVE  Kept
      BY <1>1, <2>1 DEF DispatchAction, BeginReconcile
    <2>2. ASSUME NEW c \in Conns, NEW a \in Actions, NEW p \in Pages, EnqueueAction(c, a, p)
          PROVE  Kept
      BY <1>1, <2>2 DEF EnqueueAction
    <2>3. ASSUME NEW o \in dispatching,
                 AdmitMutation(o) \/ GrantPermit(o) \/ RefuseAdmission(o) \/ RecheckDispatch(o)
                 \/ RecheckFails(o) \/ BridgeDispatch(o) \/ BridgeDispatchFails(o)
                 \/ FinishDispatch(o) \/ FinishDispatchFails(o)
          PROVE  Kept
      BY <1>1, <2>3 DEF AdmitMutation, GrantPermit, RefuseAdmission, RecheckDispatch,
         RecheckFails, BridgeDispatch, BridgeDispatchFails, FinishDispatch, FinishDispatchFails,
         DispatchStep
    <2>4. ASSUME NEW o \in reconciling, FinishReconcile(o) PROVE Kept
      BY <1>1, <2>4 DEF FinishReconcile
    <2> QED
      BY <1>7, <2>1, <2>2, <2>3, <2>4 DEF ActionNext
  <1>8. CASE UNCHANGED vars
    BY <1>1, <1>8 DEF vars
  <1> QED
    BY <1>3, <1>4, <1>5, <1>6, <1>7, <1>8 DEF Next

\* Finish requests do not outlive the epoch they claim.
LEMMA FinishClaims ==
  ASSUME AuthorityInv, RequestType, FinishInv, [Next]_vars
  PROVE  \A o \in finishing' : lifecycle' # "Pruned" =>
            /\ o.epoch <= lease'.epoch
            /\ o.at \in Closing /\ o.epoch = lease'.epoch => lifecycle' \notin Held
  <1> SUFFICES ASSUME lifecycle' # "Pruned", NEW o \in finishing'
               PROVE  /\ o.epoch <= lease'.epoch
                      /\ o.at \in Closing /\ o.epoch = lease'.epoch => lifecycle' \notin Held
    OBVIOUS
  <1>0. /\ lease.epoch \in Nat /\ \A x \in finishing : x.epoch \in Nat
        /\ EpochMoves
    BY SpaceMoves DEF AuthorityInv, AuthorityType, Leases, RequestType, FinishOps
  <1>1. ASSUME NEW x \in finishing
        PROVE  /\ x.epoch <= lease'.epoch
               /\ x.at \in Closing /\ x.epoch = lease'.epoch => lifecycle' \notin Held
    <2>1. x.epoch <= lease.epoch /\ (x.at \in Closing /\ x.epoch = lease.epoch => lifecycle \notin Held)
      BY <1>0 DEF FinishInv, EpochMoves
    <2> QED
      BY <1>0, <2>1 DEF EpochMoves
  <1>2. CASE o \in finishing
    BY <1>1, <1>2
  <1>3. CASE o \notin finishing
    <2>1. ~(HostNext \/ LeaseNext \/ ActionNext \/ UNCHANGED vars)
      BY <1>3, RequestFrame
    <2>2. ASSUME PageNext PROVE FALSE
      <3> USE DEF opVars, notCreating, notClosing
      <3>1. ASSUME NEW c \in Conns, NEW p \in Pages,
                   CreatePageAt(c, p) \/ CreateManagedPage(c, p) \/ BindPage(c, p)
                   \/ MarkPageLost(c, p) \/ ClosePage(c, p)
            PROVE  FALSE
        BY <1>3, <3>1 DEF CreatePageAt, CreateManagedPage, BindPage, MarkPageLost, ClosePage
      <3>2. ASSUME NEW p \in Pages, TargetLostEvent(p) PROVE FALSE
        BY <1>3, <3>2 DEF TargetLostEvent
      <3>3. ASSUME NEW x \in creating, BridgeCreatePage(x) \/ BindManagedPage(x) \/ CreateEnds(x)
            PROVE  FALSE
        BY <1>3, <3>3 DEF BridgeCreatePage, BindManagedPage, CreateEnds
      <3>4. ASSUME NEW x \in closing,
                   BridgeClosePage(x) \/ BridgeCloseFails(x) \/ FinishClosePage(x) \/ CloseFailed(x)
                   \/ CloseEnds(x)
            PROVE  FALSE
        BY <1>3, <3>4 DEF BridgeClosePage, BridgeCloseFails, FinishClosePage, CloseFailed, CloseEnds
      <3> QED
        BY <2>2, <3>1, <3>2, <3>3, <3>4 DEF PageNext
    <2>3. ASSUME NEW c \in Conns, ReleaseSpace(c) \/ PruneReleasedSpaces(c) PROVE FALSE
      BY <1>3, <2>3 DEF ReleaseSpace, PruneReleasedSpaces, opVars
    <2>4. ASSUME NEW c \in Conns, FinishSpace(c)
          PROVE  /\ o.epoch <= lease'.epoch
                 /\ o.at \notin Closing
      <3>1. o = [at |-> "list", conn |-> c, epoch |-> lease.epoch, todo |-> Observed, page |-> NoOne]
        BY <1>3, <2>4 DEF FinishSpace
      <3>2. UNCHANGED lease
        BY <2>4 DEF FinishSpace, authorityVars
      <3> QED
        BY <1>0, <3>1, <3>2 DEF Closing
    <2>5. ASSUME NEW x \in finishing, FinishStep(x)
          PROVE  /\ o.epoch <= lease'.epoch
                 /\ o.at \in Closing /\ o.epoch = lease'.epoch => lifecycle' \notin Held
      <3>1. /\ o.epoch = x.epoch
            /\ o.at \in Closing => x.at \in Closing \/ DrainSpace(x)
        BY <1>3, <2>5, FinishRequest
      <3>2. DrainSpace(x) => lifecycle' \notin Held
        BY DEF DrainSpace, Held
      <3> QED
        BY <1>1, <3>1, <3>2
    <2> QED
      BY <2>1, <2>2, <2>3, <2>4, <2>5 DEF Next, FinishNext, FinishStep
  <1> QED
    BY <1>2, <1>3

\* The invariant holds in every reachable state.
THEOREM FinishSafety == Spec => []FinishInv
  <1>1. Init => FinishInv
    BY DEF Init, FinishInv, Ending
  <1>2. FinishInv /\ RequestType /\ PageInv /\ LedgerInv /\ WorkInv /\ AuthorityInv /\ [Next]_vars
        => FinishInv'
    <2> SUFFICES ASSUME FinishInv, RequestType, PageInv, LedgerInv, WorkInv, AuthorityInv,
                        [Next]_vars
                 PROVE  FinishInv'
      OBVIOUS
    <2>0. EndMoves
      BY SpaceMoves
    <2>1. ASSUME NEW o \in finishing, CompleteFinish(o) PROVE lifecycle = "Draining"
      <3>1. o.at = "cleanup" /\ o.epoch = lease.epoch /\ lifecycle \in {"AgentOwned", "Draining"}
        BY <2>1 DEF CompleteFinish, FinishClaim, HoldsLease
      <3> QED
        BY <3>1 DEF FinishInv, Closing, Held
    <2>2. ASSUME lifecycle' \in Ending, NEW a \in Actions PROVE ~Unresolved(a)'
      <3>1. ASSUME NEW o \in finishing, DrainSpace(o) PROVE ~Unresolved(a)'
        BY <3>1 DEF DrainSpace, NothingUnresolved, Unresolved, actionVars
      <3>2. ASSUME lifecycle \in Ending PROVE ~Unresolved(a)'
        <4>1. receipt' = receipt
          BY <2>2, <3>2, ResolvedStays DEF FinishInv, Ending
        <4> QED
          BY <3>2, <4>1 DEF FinishInv, Unresolved
      <3>3. ASSUME NEW c \in Conns, ReleaseSpace(c) PROVE lifecycle \in Ending
        BY <3>3 DEF ReleaseSpace, Ending
      <3> QED
        BY <2>0, <2>1, <2>2, <3>1, <3>2, <3>3 DEF EndMoves, Ending
    <2>3. ASSUME lifecycle' \in {"Finished", "Released"}, NEW p \in Pages PROVE ~Unclosed(p)'
      <3>1. ASSUME lifecycle \in {"Finished", "Released"} PROVE ~Unclosed(p)'
        <4>1. page'[p] = page[p] \/ page'[p].lc = "TargetLost"
          BY <2>3, <3>1, FinishedPages
        <4>2. ~(page[p] = ManagedPage \/ page[p].lc = "Closing")
          BY <3>1 DEF FinishInv, Unclosed, AdmitsMutations
        <4> QED
          BY <4>1, <4>2, PageValues DEF Unclosed, AdmitsMutations
      <3>2. ASSUME NEW o \in finishing, CompleteFinish(o) PROVE ~Unclosed(p)'
        BY <3>2 DEF CompleteFinish, AllPagesSettled, Unclosed, AdmitsMutations
      <3>3. ASSUME NEW o \in finishing, DrainSpace(o) PROVE FALSE
        BY <2>3, <3>3 DEF DrainSpace
      <3>4. ASSUME NEW c \in Conns, ReleaseSpace(c) PROVE lifecycle \in {"Finished", "Released"}
        BY <3>4 DEF ReleaseSpace
      <3> QED
        BY <2>0, <2>3, <3>1, <3>2, <3>3, <3>4 DEF EndMoves, Ending
    <2> QED
      BY <2>2, <2>3, FinishClaims DEF FinishInv
  <1> QED
    BY <1>1, <1>2, PageSafety, LedgerSafety, WorkSafety, AuthoritySafety, PTL DEF Spec

\* However finish_space races takeovers, page operations, late dispatches and other
\* finish requests: a finished or released space has no page left to close and no
\* action whose outcome is open.
THEOREM FinishedSpaceIsClean == Spec => []FinishedIsClean
  <1>1. FinishInv => FinishedIsClean
    BY DEF FinishInv, FinishedIsClean, Ending
  <1> QED
    BY <1>1, FinishSafety, PTL

-----------------------------------------------------------------------------
(* Outcomes.                                                               *)

\* What a step may do to a receipt whose outcome is settled or unknown.
LEMMA OutcomeKept ==
  ASSUME AuthorityInv, WorkInv, LedgerInv, [Next]_vars, lifecycle' # "Pruned", NEW a \in Actions
  PROVE  /\ receipt[a].status \in {"Succeeded", "Failed", "Cancelled"} => receipt'[a] = receipt[a]
         /\ receipt[a].status = "Unknown" /\ receipt'[a].status # "Unknown" =>
               \E o \in reconciling \ reconciling' : o.action = a
  <1>0. receipt \in [Actions -> Receipts] /\ receipt[a] \in Receipts
    BY DEF WorkInv, WorkType
  <1> DEFINE Kept == /\ receipt[a].status \in {"Succeeded", "Failed", "Cancelled"} =>
                           receipt'[a] = receipt[a]
                     /\ receipt[a].status = "Unknown" => receipt'[a].status = "Unknown"
  <1>1. CASE Housekeeping
    <2>1. CASE receipt' = InterruptedReceipts
      BY <1>0, <2>1, InterruptedFields
    <2>2. CASE receipt' = StoppedReceipts
      BY <1>0, <2>2, StoppedFields
    <2> QED
      BY <1>1, <2>1, <2>2 DEF Housekeeping, Forgotten, Interruption
  <1>2. CASE ActionNext
    <2>1. ASSUME NEW c \in Conns, NEW b \in Actions, NEW p \in Pages, EnqueueAction(c, b, p)
          PROVE  Kept
      <3>1. receipt[b].status = "Absent"
        BY <2>1 DEF EnqueueAction, NewAction, NoReceipt
      <3>2. a # b => receipt'[a] = receipt[a]
        BY <1>0, <2>1 DEF EnqueueAction
      <3> QED
        BY <3>1, <3>2
    <2>2. ASSUME NEW c \in Conns, NEW b \in Actions, DispatchAction(c, b) PROVE Kept
      <3>1. receipt[b].status = "Queued"
        BY <2>2 DEF DispatchAction
      <3>2. a # b => receipt'[a] = receipt[a]
        BY <1>0, <2>2 DEF DispatchAction
      <3> QED
        BY <3>1, <3>2
    <2>3. ASSUME NEW c \in Conns, NEW b \in Actions, BeginReconcile(c, b) PROVE Kept
      <3>1. receipt[b].status = "Unknown" /\ receipt' = [receipt EXCEPT ![b].recon = "InProgress"]
        BY <2>3 DEF BeginReconcile, ReconcileClaim
      <3>2. a # b => receipt'[a] = receipt[a]
        BY <1>0, <3>1
      <3>3. receipt'[b].status = receipt[b].status
        BY <1>0, <3>1 DEF Receipts
      <3> QED
        BY <3>1, <3>2, <3>3
    <2>4. ASSUME NEW o \in dispatching,
                 AdmitMutation(o) \/ GrantPermit(o) \/ RefuseAdmission(o) \/ RecheckDispatch(o)
                 \/ RecheckFails(o) \/ BridgeDispatch(o) \/ BridgeDispatchFails(o)
                 \/ FinishDispatchFails(o)
          PROVE  Kept
      <3>1. receipt' = receipt
        BY <2>4 DEF AdmitMutation, GrantPermit, RefuseAdmission, RecheckDispatch, RecheckFails,
           BridgeDispatch, BridgeDispatchFails, FinishDispatchFails, actionVars
      <3> QED
        BY <3>1
    <2>5. ASSUME NEW o \in dispatching, FinishDispatch(o) PROVE Kept
      <3>1. RecordOutcome(o) /\ o.action \in Actions
        BY <2>5 DEF FinishDispatch, WorkInv, WorkType, DispatchOps
      <3>2. CASE receipt[o.action].status # "Running"
        BY <3>1, <3>2 DEF RecordOutcome
      <3>3. CASE receipt[o.action].status = "Running"
        <4>1. a # o.action => receipt'[a] = receipt[a]
          BY <1>0, <3>1 DEF RecordOutcome
        <4> QED
          BY <3>3, <4>1
      <3> QED
        BY <3>2, <3>3
    <2>6. ASSUME NEW o \in reconciling, FinishReconcile(o)
          PROVE  /\ receipt[a].status \in {"Succeeded", "Failed", "Cancelled"} =>
                       receipt'[a] = receipt[a]
                 /\ receipt[a].status = "Unknown" /\ receipt'[a].status # "Unknown" =>
                       \E x \in reconciling \ reconciling' : x.action = a
      <3>1. o \in reconciling \ reconciling'
        BY <2>6 DEF FinishReconcile
      <3>2. PICK k \in Answers(o.action) : receipt' = [receipt EXCEPT ![o.action] = Reconciled(o, k)]
        BY <2>6 DEF FinishReconcile
      <3>3. a # o.action => receipt'[a] = receipt[a]
        BY <1>0, <3>2
      <3>4. SettledStays
        BY <2>6, OutcomeSteps
      <3> QED
        BY <3>1, <3>3, <3>4 DEF SettledStays
    <2> QED
      BY <1>2, <2>1, <2>2, <2>3, <2>4, <2>5, <2>6 DEF ActionNext
  <1> QED
    BY <1>1, <1>2, OthersKeep

\* A settled receipt does not change while its space exists, and only reconciliation
\* settles an unknown one, however late a dispatch returns.
THEOREM OutcomesStayFinal == Spec => OutcomesFinal
  <1>1. AuthorityInv /\ WorkInv /\ LedgerInv /\ [Next]_vars =>
          [\A a \in Actions : lifecycle' # "Pruned" =>
             /\ receipt[a].status \in {"Succeeded", "Failed", "Cancelled"} => receipt'[a] = receipt[a]
             /\ receipt[a].status = "Unknown" /\ receipt'[a].status # "Unknown" =>
                   \E o \in reconciling \ reconciling' : o.action = a]_vars
    BY OutcomeKept
  <1> QED
    BY <1>1, LedgerSafety, WorkSafety, AuthoritySafety, PTL DEF Spec, OutcomesFinal
=============================================================================
