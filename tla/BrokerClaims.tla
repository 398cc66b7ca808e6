---------------------------- MODULE BrokerClaims ----------------------------
(***************************************************************************)
(* What the repository's documents and comments say of the broker and the  *)
(* code does not keep: each was refuted by TLC.  FencedCreationRefused and *)
(* UnknownCanBeReconciled have runs of their own; for the other three a    *)
(* configuration of MCBroker like MCReconcileCrash.cfg suffices (RetrySpec *)
(* with FenceRetrySucceeds).                                               *)
(***************************************************************************)
EXTENDS Broker

\* "[A takeover] increments the lease epoch, stops old-epoch issuance, and rejects
\* stale commands before host-side CDP execution": once a fence is acknowledged,
\* the bridge makes no target for the fenced epoch.  CdpBridge::create_page does
\* not compare the epoch it is given with anything.
FencedCreationRefused ==
    [][\A p \in Pages : target[p] = 0 /\ target'[p] # 0 => target'[p] > barrier]_vars

\* "A pause cancels queued work, marks in-flight work unknown": a paused space has
\* no work queued or running.  The space is AgentOwned for a moment between the
\* fence of pause_space and set_fenced_space_lifecycle.
PausedIsQuiet ==
    lifecycle = "Paused" => \A a \in Actions : receipt[a].status \notin {"Queued", "Running"}

\* "new broker epoch; reconcile each action and live page": after a host crash an
\* unknown action can be reconciled.  recover_after_restart leaves a reconciliation
\* that was in progress in progress, and begin_reconciliation refuses it.
UnknownCanBeReconciled ==
    \A a \in Actions : receipt[a].recon = "InProgress" => \E o \in reconciling : o.action = a

\* "A different connection cannot mutate or reconcile that space, even when it
\* presents the same principal label": an action takes effect only for the
\* connection that holds the space.  acquire_lease after an expiry has no fence.
OnlyHolderActs ==
    [][\A a \in Actions : executed'[a] # executed[a] =>
          \E o \in dispatching : o.action = a /\ o.conn = holder]_vars

HolderGone == \A c \in Conns : holder = c => ~Live(c)

\* "The caller may retry with acknowledge_fence": a caller that stays connected and
\* keeps retrying gets its fence through.
FenceRetrySucceeds == lifecycle = "FencePending" ~> lifecycle # "FencePending" \/ HolderGone
=============================================================================
