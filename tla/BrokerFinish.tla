---------------------------- MODULE BrokerFinish ----------------------------
(***************************************************************************)
(* The end of a space: finish_space, release_space, prune_released_spaces. *)
(*                                                                         *)
(* finish_space drains the space in the ledger, then closes its pages one  *)
(* after the other.  For each it takes the lock to check its claim, leaves *)
(* it for the bridge call, and takes it again to record what came of it.   *)
(***************************************************************************)
EXTENDS BrokerPages

\* Pages the end of a space has to deal with.
Unclosed(p) == AdmitsMutations(p) \/ page[p].lc = "Closing"

\* finish_space first asks the bridge which pages it has; `todo` keeps the
\* answer until the lock is taken.
FinishSpace(c) ==
    /\ Room
    /\ Live(c)
    /\ Exists
    /\ ~lease.expired
    /\ finishing' = finishing \cup
         {[at |-> "list", conn |-> c, epoch |-> lease.epoch, todo |-> Observed, page |-> NoOne]}
    /\ UNCHANGED <<memoryVars, brokerEpoch, authorityVars, page, actionVars, bridgeVars, notFinishing>>

\* reconcile_missing_cleanup_pages: closing pages the bridge did not have are
\* taken for closed, one transaction each.
ListMissingPages(o) ==
    /\ o \in finishing /\ o.at = "list"
    /\ FinishClaim(o.conn, o.epoch, TRUE)
    /\ finishing' = (finishing \ {o}) \cup
         {[o EXCEPT !.at = "sweep", !.todo = {p \in Pages : page[p].lc = "Closing"} \ o.todo]}
    /\ UNCHANGED <<memoryVars, brokerEpoch, authorityVars, page, actionVars, bridgeVars, notFinishing>>

\* authorize_cleanup_page.
CleanupClaim(o, p) ==
    /\ FinishClaim(o.conn, o.epoch, TRUE)
    /\ page[p] = PageIn("Closing", "Agent", "Bound")

SweepPage(o, p) ==
    /\ o \in finishing /\ o.at = "sweep" /\ p \in o.todo
    /\ Ready
    /\ CleanupClaim(o, p)
    /\ page' = [page EXCEPT ![p] = ClosedPage]
    /\ finishing' = (finishing \ {o}) \cup {[o EXCEPT !.todo = @ \ {p}]}
    /\ UNCHANGED <<memoryVars, brokerEpoch, authorityVars, actionVars, bridgeVars, notFinishing>>

\* Altered: unresolved actions do not stop a space from finishing.
NothingUnresolvedQueuedOnly == \A a \in Actions : receipt[a].status # "Queued"

NothingUnresolved == \A a \in Actions : ~Unresolved(a)

\* The space drains: nothing new is admitted, its managed pages are closing.
\* Pages that were closing already join in only when the space was draining.
DrainSpace(o) ==
    LET cleanup == {p \in Pages : AdmitsMutations(p)
                                  \/ (lifecycle = "Draining" /\ page[p].lc = "Closing")}
    IN /\ o \in finishing /\ o.at = "sweep" /\ o.todo = {}
       /\ Ready
       /\ FinishClaim(o.conn, o.epoch, TRUE)
       /\ NothingUnresolved
       /\ lifecycle' = "Draining"
       /\ page' = [p \in Pages |-> IF p \in cleanup THEN [page[p] EXCEPT !.lc = "Closing"]
                                                    ELSE page[p]]
       /\ finishing' = (finishing \ {o}) \cup {[o EXCEPT !.at = "cleanup", !.todo = cleanup]}
       /\ UNCHANGED <<memoryVars, brokerEpoch, owner, lease, pending, ticket, proofs, issued,
                      spent, barrier, actionVars, bridgeVars, notFinishing>>

\* The claim is checked once more before each bridge call.
CleanupPage(o, p) ==
    /\ o \in finishing /\ o.at = "cleanup" /\ p \in o.todo
    /\ Ready
    /\ CleanupClaim(o, p)
    /\ finishing' = (finishing \ {o}) \cup
         {[o EXCEPT !.at = "close", !.page = p, !.todo = @ \ {p}]}
    /\ UNCHANGED <<memoryVars, brokerEpoch, authorityVars, page, actionVars, bridgeVars, notFinishing>>

\* The bridge closes the target; or it never had it.
BridgeCleanup(o) ==
    /\ o \in finishing /\ o.at = "close"
    /\ \/ CloseTarget(o.page, o.epoch)
       \/ target[o.page] = 0 /\ UNCHANGED bridgeVars
    /\ finishing' = (finishing \ {o}) \cup {[o EXCEPT !.at = "closed"]}
    /\ UNCHANGED <<memoryVars, brokerEpoch, authorityVars, page, actionVars, notFinishing>>

\* The outcome is unknown, or the bridge refuses and still has the page.
BridgeCleanupFails(o) ==
    /\ o \in finishing /\ o.at = "close"
    /\ target[o.page] # 0
    /\ finishing' = (finishing \ {o}) \cup {[o EXCEPT !.at = "lost"]}
    /\ UNCHANGED <<memoryVars, brokerEpoch, authorityVars, page, actionVars, bridgeVars, notFinishing>>

FinishPageCleanup(o) ==
    /\ o \in finishing /\ o.at = "closed"
    /\ Ready
    /\ CleanupClaim(o, o.page)
    /\ page' = [page EXCEPT ![o.page] = ClosedPage]
    /\ finishing' = (finishing \ {o}) \cup {[o EXCEPT !.at = "cleanup", !.page = NoOne]}
    /\ UNCHANGED <<memoryVars, brokerEpoch, authorityVars, actionVars, bridgeVars, notFinishing>>

\* record_cleanup_failure, after which finish_space returns the error.
RecordCleanupFailure(o) ==
    /\ o \in finishing /\ o.at = "lost"
    /\ CleanupClaim(o, o.page)
    /\ page' = [page EXCEPT ![o.page] = PageIn("TargetLost", "Agent", "Lost")]
    /\ finishing' = finishing \ {o}
    /\ UNCHANGED <<memoryVars, brokerEpoch, authorityVars, actionVars, bridgeVars, notFinishing>>

\* Altered: complete_finish does not look at the pages again.
AllPagesSettledUnchecked == TRUE

AllPagesSettled == \A p \in Pages : ~Unclosed(p)

\* complete_finish; which of the two depends on the space's RetentionPolicy.
CompleteFinish(o) ==
    /\ o \in finishing /\ o.at = "cleanup" /\ o.todo = {}
    /\ Ready
    /\ FinishClaim(o.conn, o.epoch, TRUE)
    /\ AllPagesSettled
    /\ lease' = [lease EXCEPT !.state = "Released"]
    /\ lifecycle' \in {"Released", "Finished"}
    /\ proofs' = {}
    /\ finishing' = finishing \ {o}
    /\ UNCHANGED <<memoryVars, brokerEpoch, owner, pending, ticket, issued, spent, barrier, page,
                   actionVars, bridgeVars, notFinishing>>

\* A check fails, a generation moved on, or the bridge cannot be observed.
FinishEnds(o) ==
    /\ o \in finishing
    /\ finishing' = finishing \ {o}
    /\ UNCHANGED <<memoryVars, brokerEpoch, authorityVars, page, actionVars, bridgeVars, notFinishing>>

-----------------------------------------------------------------------------
\* release_space: a finished space whose retention is over.
ReleaseSpace(c) ==
    /\ Ready /\ Live(c)
    /\ lifecycle = "Finished"
    /\ owner = PrincipalOf[c]
    /\ lease.principal = PrincipalOf[c]
    /\ holder = c
    /\ lease.state = "Released"
    /\ AllPagesSettled
    /\ lifecycle' = "Released"
    /\ proofs' = {}
    /\ UNCHANGED <<memoryVars, brokerEpoch, owner, lease, pending, ticket, issued, spent, barrier,
                   page, actionVars, bridgeVars, opVars>>

PrunablePages == \A p \in Pages : page[p] \in {AbsentPage, ClosedPage}

\* prune_released_spaces forgets the space, its actions and their queue.
PruneReleasedSpaces(c) ==
    /\ Ready /\ Live(c)
    /\ lifecycle = "Released"
    /\ owner = PrincipalOf[c]
    /\ PrunablePages
    /\ NothingUnresolved
    /\ lifecycle' = "Pruned"
    /\ owner' = NoOne
    /\ lease' = NoLease
    /\ proofs' = {}
    /\ page' = [p \in Pages |-> AbsentPage]
    /\ receipt' = [a \in Actions |-> NoReceipt]
    /\ queue' = <<>>
    /\ UNCHANGED <<memoryVars, brokerEpoch, pending, ticket, issued, spent, barrier, bridgeVars,
                   opVars>>

-----------------------------------------------------------------------------
PageNext ==
    \/ \E c \in Conns, p \in Pages :
          \/ CreatePageAt(c, p) \/ CreateManagedPage(c, p) \/ BindPage(c, p)
          \/ MarkPageLost(c, p) \/ ClosePage(c, p)
    \/ \E p \in Pages : TargetLostEvent(p)
    \/ \E o \in creating : BridgeCreatePage(o) \/ BindManagedPage(o) \/ CreateEnds(o)
    \/ \E o \in closing :
          \/ BridgeClosePage(o) \/ BridgeCloseFails(o) \/ FinishClosePage(o) \/ CloseFailed(o)
          \/ CloseEnds(o)

FinishNext ==
    \/ \E c \in Conns : FinishSpace(c) \/ ReleaseSpace(c) \/ PruneReleasedSpaces(c)
    \/ \E o \in finishing :
          \/ ListMissingPages(o) \/ DrainSpace(o) \/ BridgeCleanup(o) \/ BridgeCleanupFails(o)
          \/ FinishPageCleanup(o) \/ RecordCleanupFailure(o) \/ CompleteFinish(o) \/ FinishEnds(o)
          \/ \E p \in Pages : SweepPage(o, p) \/ CleanupPage(o, p)
=============================================================================
