--------------------------- MODULE BrokerActions ---------------------------
(***************************************************************************)
(* Queued actions: enqueue_action, dispatch_action, reconcile_action.      *)
(*                                                                         *)
(* An action is dispatched at most once.  dispatch_action checks the lease *)
(* three times: when it takes the action off the queue, before the bridge  *)
(* call and when it records the outcome; the bridge compares the epoch     *)
(* once more.  Between those critical sections a fence, an expiry, a       *)
(* disconnect or a shutdown may have taken the authority away.             *)
(***************************************************************************)
EXTENDS BrokerState

notDispatching == <<fencing, creating, closing, finishing, reconciling>>
notReconciling == <<fencing, creating, closing, finishing, dispatching>>

\* Altered: a failed action may be submitted again under its identity.
NewActionOrFailed(a) == receipt[a] = NoReceipt \/ receipt[a].status = "Failed"

NewAction(a) == receipt[a] = NoReceipt

\* enqueue_action.  A second request with the same identity and hash gets the
\* receipt of the first and changes nothing.
EnqueueAction(c, a, p) ==
    /\ Ready
    /\ AuthorizeSpace(c, lease.epoch)
    /\ NewAction(a)
    /\ AdmitsMutations(p)
    /\ Len(queue) < MaxQueuedActions
    /\ receipt' = [receipt EXCEPT ![a] = [status |-> "Queued", epoch |-> lease.epoch, page |-> p,
                                          recon |-> "NotRequired"]]
    /\ queue' = Append(queue, a)
    /\ UNCHANGED <<memoryVars, brokerEpoch, authorityVars, page, bridgeVars, opVars>>

\* Altered: a second mutation may be dispatched while one runs.
NoneInFlightUnchecked(a) == TRUE

\* One running mutation per space.
NoneInFlight(a) ==
    Mutating(a) => \A b \in Actions : Mutating(b) => receipt[b].status # "Running"

TakeFromQueue(a) ==
    /\ queue # <<>> /\ Head(queue) = a
    /\ queue' = Tail(queue)

\* dispatch_action, its first critical section.
DispatchAction(c, a) ==
    /\ Room
    /\ Ready
    /\ receipt[a].status = "Queued"
    /\ AuthorizeSpace(c, receipt[a].epoch)
    /\ NoneInFlight(a)
    /\ TakeFromQueue(a)
    /\ receipt' = [receipt EXCEPT ![a].status = "Running"]
    /\ dispatching' = dispatching \cup
         {[at |-> IF Mutating(a) THEN "admit" ELSE "recheck", conn |-> c, action |-> a,
           epoch |-> receipt[a].epoch, page |-> receipt[a].page, outcome |-> "None"]}
    /\ UNCHANGED <<memoryVars, brokerEpoch, authorityVars, page, bridgeVars, notDispatching>>

DispatchStep(o, next) ==
    /\ o \in dispatching
    /\ dispatching' = (dispatching \ {o}) \cup next
    /\ UNCHANGED <<memoryVars, brokerEpoch, authorityVars, page, notDispatching>>

\* The space's mutation permit, held from the admission to the recorded outcome.
PermitOut == \E o \in dispatching : Mutating(o.action) /\ o.at \in {"recheck", "bridge", "finish"}
Waiting == {o \in dispatching : o.at = "wait"}

\* Altered: every mutation is admitted at once.
PermitFreeAlways == TRUE

PermitFree == ~PermitOut

\* Scheduler::acquire_mutation (module Scheduler).
AdmitMutation(o) ==
    /\ o.at = "admit"
    /\ IF PermitFree /\ Waiting = {}
       THEN DispatchStep(o, {[o EXCEPT !.at = "recheck"]})
       ELSE /\ Cardinality(Waiting) < MaxQueuedMutations
            /\ DispatchStep(o, {[o EXCEPT !.at = "wait"]})
    /\ UNCHANGED <<actionVars, bridgeVars>>

\* The permit comes to a waiter; its order of arrival is the scheduler's concern.
GrantPermit(o) ==
    /\ o.at = "wait"
    /\ PermitFree
    /\ DispatchStep(o, {[o EXCEPT !.at = "recheck"]})
    /\ UNCHANGED <<actionVars, bridgeVars>>

\* The wait queue is full: the request fails, its action stays Running.
RefuseAdmission(o) ==
    /\ o.at = "admit"
    /\ ~(PermitFree /\ Waiting = {})
    /\ Cardinality(Waiting) >= MaxQueuedMutations
    /\ DispatchStep(o, {})
    /\ UNCHANGED <<actionVars, bridgeVars>>

\* The second check of the lease, just before the bridge call.
Recheck(o) ==
    /\ Ready
    /\ StillAuthorized(o.conn, o.epoch)
    /\ receipt[o.action].status = "Running"

RecheckDispatch(o) ==
    /\ o.at = "recheck"
    /\ Recheck(o)
    /\ DispatchStep(o, {[o EXCEPT !.at = "bridge"]})
    /\ UNCHANGED <<actionVars, bridgeVars>>

\* It failed, or the element is not actionable any more: mark_failed is undone
\* together with the error it is returned with, and the receipt is as it was.
RecheckFails(o) ==
    /\ o.at = "recheck"
    /\ DispatchStep(o, {})
    /\ UNCHANGED <<actionVars, bridgeVars>>

\* bridge.dispatch and verify_final_postcondition: the browser performs the
\* action, and the answer may be lost or the postcondition not met.
BridgeDispatch(o) ==
    /\ o.at = "bridge"
    /\ DispatchAccepted(o.page, o.epoch)
    /\ Perform(o.action, o.page)
    /\ \E r \in {"Succeeded", "Failed", "Unknown"} :
          DispatchStep(o, {[o EXCEPT !.at = "finish", !.outcome = r]})
    /\ UNCHANGED actionVars

\* Refused for its epoch or for want of a binding, or CDP failed before any effect.
BridgeDispatchFails(o) ==
    /\ o.at = "bridge"
    /\ \E r \in {"Failed", "Unknown"} :
          /\ DispatchAccepted(o.page, o.epoch) \/ r = "Failed"
          /\ DispatchStep(o, {[o EXCEPT !.at = "finish", !.outcome = r]})
    /\ UNCHANGED <<actionVars, bridgeVars>>

LeaseCurrent(o) == Ready /\ StillAuthorized(o.conn, o.epoch)

\* Altered: a receipt that a fence has settled meanwhile is overwritten.
RecordOutcomeAlways(o) ==
    receipt' = [receipt EXCEPT ![o.action].status =
                    IF LeaseCurrent(o) THEN o.outcome ELSE "Unknown"]

\* Altered: nothing is recorded when the lease is gone.
RecordOutcomeIfCurrent(o) ==
    receipt' = IF receipt[o.action].status = "Running" /\ LeaseCurrent(o)
               THEN [receipt EXCEPT ![o.action].status = o.outcome]
               ELSE receipt

RecordOutcome(o) ==
    receipt' = IF receipt[o.action].status # "Running" THEN receipt
               ELSE IF LeaseCurrent(o) /\ o.outcome # "Unknown"
               THEN [receipt EXCEPT ![o.action].status = o.outcome]
               ELSE [receipt EXCEPT ![o.action].status = "Unknown", ![o.action].recon = "Required"]

\* finish_dispatch, and the permit is dropped.
FinishDispatch(o) ==
    /\ o.at = "finish"
    /\ RecordOutcome(o)
    /\ DispatchStep(o, {})
    /\ UNCHANGED <<queue, bridgeVars>>

\* The outcome cannot be written.
FinishDispatchFails(o) ==
    /\ LedgerMayFail
    /\ o.at = "finish"
    /\ DispatchStep(o, {})
    /\ UNCHANGED <<actionVars, bridgeVars>>

-----------------------------------------------------------------------------
(* Reconciliation: find out what came of an unknown action, never repeat it.*)

\* authorize_reconciliation_authority.  Proofs are forgotten on restart, so their
\* broker epoch is the current one.
ReconcileClaim(c, a, e) ==
    /\ receipt[a].status = "Unknown"
    /\ StillAuthorized(c, e)
    /\ owner = PrincipalOf[c]
    /\ \/ receipt[a].epoch = lease.epoch
       \/ [previous |-> receipt[a].epoch, current |-> lease.epoch, principal |-> PrincipalOf[c]]
             \in proofs

BeginReconcile(c, a) ==
    /\ Room
    /\ CanReconcile
    /\ ReconcileClaim(c, a, lease.epoch)
    /\ ~lease.expired
    /\ receipt[a].recon = "Required"
    /\ receipt' = [receipt EXCEPT ![a].recon = "InProgress"]
    /\ reconciling' = reconciling \cup {[conn |-> c, action |-> a, epoch |-> lease.epoch]}
    /\ UNCHANGED <<memoryVars, brokerEpoch, authorityVars, page, queue, bridgeVars, notReconciling>>

\* What the bridge may answer; it sees what the browser did.
Answers(a) ==
    {<<"Unknown", "Required">>} \cup
    IF executed[a] > 0 THEN {<<"Succeeded", "Reconciled">>}
                       ELSE {<<"Failed", "Reconciled">>, <<"Failed", "RequiresConfirmation">>}

Reconciled(o, r) ==
    IF receipt[o.action].status # "Unknown" THEN receipt[o.action]
    ELSE IF Ready /\ ReconcileClaim(o.conn, o.action, o.epoch)
    THEN [receipt[o.action] EXCEPT !.status = r[1], !.recon = r[2]]
    ELSE [receipt[o.action] EXCEPT !.recon = "Required"]

\* The bridge call and the second critical section of reconcile_action.
FinishReconcile(o) ==
    /\ o \in reconciling
    /\ \E r \in Answers(o.action) :
          receipt' = [receipt EXCEPT ![o.action] = Reconciled(o, r)]
    /\ reconciling' = reconciling \ {o}
    /\ UNCHANGED <<memoryVars, brokerEpoch, authorityVars, page, queue, bridgeVars, notReconciling>>

-----------------------------------------------------------------------------
ActionNext ==
    \/ \E c \in Conns, a \in Actions :
          \/ DispatchAction(c, a) \/ BeginReconcile(c, a)
          \/ \E p \in Pages : EnqueueAction(c, a, p)
    \/ \E o \in dispatching :
          \/ AdmitMutation(o) \/ GrantPermit(o) \/ RefuseAdmission(o) \/ RecheckDispatch(o)
          \/ RecheckFails(o) \/ BridgeDispatch(o) \/ BridgeDispatchFails(o) \/ FinishDispatch(o)
          \/ FinishDispatchFails(o)
    \/ \E o \in reconciling : FinishReconcile(o)
=============================================================================
