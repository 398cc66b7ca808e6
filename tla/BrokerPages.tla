---------------------------- MODULE BrokerPages ----------------------------
(***************************************************************************)
(* Logical pages, and the end of a space.                                  *)
(*                                                                         *)
(* A page is planned in the ledger, then given a browser target by the     *)
(* bridge, then bound; closing marks it first and asks the bridge          *)
(* afterwards.  finish_space closes every managed page that way, one after *)
(* the other, and leaves the lock around each bridge call.                 *)
(*                                                                         *)
(* The generation counters of a page are not kept.  They can only refuse   *)
(* the last step of an operation whose page was replaced under it, and     *)
(* that refusal is always allowed here.                                    *)
(***************************************************************************)
EXTENDS BrokerState

notCreating == <<fencing, closing, finishing, dispatching, reconciling>>
notClosing == <<fencing, creating, finishing, dispatching, reconciling>>
notFinishing == <<fencing, creating, closing, dispatching, reconciling>>

-----------------------------------------------------------------------------
(* Creation and binding.                                                   *)

\* create_page_at: the page exists in the ledger only.
PlanPage(c, p) ==
    /\ Ready
    /\ AuthorizeSpace(c, lease.epoch)
    /\ page[p] = AbsentPage
    /\ page' = [page EXCEPT ![p] = PlannedPage]
    /\ UNCHANGED <<memoryVars, brokerEpoch, authorityVars, actionVars, bridgeVars>>

CreatePageAt(c, p) ==
    /\ PlanPage(c, p)
    /\ UNCHANGED opVars

\* create_managed_page, up to the bridge call.
CreateManagedPage(c, p) ==
    /\ Room
    /\ PlanPage(c, p)
    /\ creating' = creating \cup {[at |-> "bridge", conn |-> c, epoch |-> lease.epoch, page |-> p]}
    /\ UNCHANGED notCreating

\* The bridge makes the target.
BridgeCreatePage(o) ==
    /\ o \in creating /\ o.at = "bridge"
    /\ CreateTarget(o.page, o.epoch)
    /\ creating' = (creating \ {o}) \cup {[o EXCEPT !.at = "bind"]}
    /\ UNCHANGED <<memoryVars, brokerEpoch, authorityVars, page, actionVars, notCreating>>

\* The lifecycles bind_page_with_generations accepts; nothing sets the others.
Bindable(p) == page[p].lc \in {"Planned", "TargetLost"}

BindManagedPage(o) ==
    /\ o \in creating /\ o.at = "bind"
    /\ Ready
    /\ StillAuthorized(o.conn, o.epoch)
    /\ Bindable(o.page)
    /\ page' = [page EXCEPT ![o.page] = ManagedPage]
    /\ creating' = creating \ {o}
    /\ UNCHANGED <<memoryVars, brokerEpoch, authorityVars, actionVars, bridgeVars, notCreating>>

\* The bridge fails, or the lease or the page changed meanwhile.  The target, if
\* there is one, stays.
CreateEnds(o) ==
    /\ o \in creating
    /\ creating' = creating \ {o}
    /\ UNCHANGED <<memoryVars, brokerEpoch, authorityVars, page, actionVars, bridgeVars, notCreating>>

\* bind_page, as a request of its own: the ledger takes the caller's word.
BindPage(c, p) ==
    /\ Ready
    /\ AuthorizeSpace(c, lease.epoch)
    /\ Bindable(p)
    /\ page' = [page EXCEPT ![p] = ManagedPage]
    /\ UNCHANGED <<memoryVars, brokerEpoch, authorityVars, actionVars, bridgeVars, opVars>>

-----------------------------------------------------------------------------
(* Losing and closing a page.                                              *)

LosePage(p) ==
    /\ ~QueuedOn(p)
    /\ page' = [page EXCEPT ![p] = LostPage(page[p])]

\* mark_page_lost: any page of the space, whatever its lifecycle, and in every
\* lifecycle of the space but UserOwned.
MarkPageLost(c, p) ==
    /\ HoldsLease(c, lease.epoch)
    /\ ~lease.expired
    /\ lifecycle # "UserOwned"
    /\ page[p] # AbsentPage
    /\ LosePage(p)
    /\ UNCHANGED <<memoryVars, brokerEpoch, authorityVars, actionVars, bridgeVars, opVars>>

\* apply_bridge_event(TargetLost).
TargetLostEvent(p) ==
    /\ HostMayDegrade
    /\ Exists
    /\ page[p].lc \notin {"Absent", "Closed", "Closing"}
    /\ LosePage(p)
    /\ UNCHANGED <<memoryVars, brokerEpoch, authorityVars, actionVars, bridgeVars, opVars>>

\* close_page, up to the bridge call.
ClosePage(c, p) ==
    /\ Room
    /\ Ready
    /\ AuthorizeSpace(c, lease.epoch)
    /\ AdmitsMutations(p)
    /\ ~QueuedOn(p)
    /\ page' = [page EXCEPT ![p].lc = "Closing"]
    /\ closing' = closing \cup {[at |-> "bridge", conn |-> c, epoch |-> lease.epoch, page |-> p]}
    /\ UNCHANGED <<memoryVars, brokerEpoch, authorityVars, actionVars, bridgeVars, notClosing>>

BridgeClosePage(o) ==
    /\ o \in closing /\ o.at = "bridge"
    /\ CloseTarget(o.page, o.epoch)
    /\ closing' = (closing \ {o}) \cup {[o EXCEPT !.at = "closed"]}
    /\ UNCHANGED <<memoryVars, brokerEpoch, authorityVars, page, actionVars, notClosing>>

\* No binding, another epoch, or CDP failed.
BridgeCloseFails(o) ==
    /\ o \in closing /\ o.at = "bridge"
    /\ closing' = (closing \ {o}) \cup {[o EXCEPT !.at = "failed"]}
    /\ UNCHANGED <<memoryVars, brokerEpoch, authorityVars, page, actionVars, bridgeVars, notClosing>>

FinishClosePage(o) ==
    /\ o \in closing /\ o.at = "closed"
    /\ StillAuthorized(o.conn, o.epoch)
    /\ page[o.page].lc = "Closing"
    /\ page' = [page EXCEPT ![o.page] = ClosedPage]
    /\ closing' = closing \ {o}
    /\ UNCHANGED <<memoryVars, brokerEpoch, authorityVars, actionVars, bridgeVars, notClosing>>

\* The failure path calls mark_page_lost.
CloseFailed(o) ==
    /\ o \in closing /\ o.at = "failed"
    /\ HoldsLease(o.conn, o.epoch)
    /\ lifecycle # "UserOwned"
    /\ LosePage(o.page)
    /\ closing' = closing \ {o}
    /\ UNCHANGED <<memoryVars, brokerEpoch, authorityVars, actionVars, bridgeVars, notClosing>>

CloseEnds(o) ==
    /\ o \in closing /\ o.at \in {"closed", "failed"}
    /\ closing' = closing \ {o}
    /\ UNCHANGED <<memoryVars, brokerEpoch, authorityVars, page, actionVars, bridgeVars, notClosing>>
=============================================================================
