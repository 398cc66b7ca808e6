----------------------------- MODULE CdpBridge -----------------------------
(***************************************************************************)
(* The live bridge to Chrome (agentyc-host/src/cdp.rs), as the broker sees *)
(* it: the CDP bindings of one space's pages, each with the lease epoch it *)
(* was last stamped with, and what the browser was made to do.  Every      *)
(* bridge call is one critical section of the bridge's own mutex, taken    *)
(* while the broker's lock is NOT held.  The bindings live in memory: they *)
(* are gone after a restart of the host, and when the CDP connection dies. *)
(***************************************************************************)
EXTENDS Naturals

CONSTANTS
    Pages,
    Actions,
    CloseActions,        \* the actions whose operation is Close
    ExtensionAttached    \* extension_epochs() is Some: always so in production

VARIABLES
    target,              \* target[p]: lease epoch of p's CDP binding, 0 without one
    executed             \* executed[a]: how often the browser performed a

bridgeVars == <<target, executed>>

BridgeTypeOK ==
    /\ target \in [Pages -> Nat]
    /\ executed \in [Actions -> Nat]

BridgeInit ==
    /\ target = [p \in Pages |-> 0]
    /\ executed = [a \in Actions |-> 0]

\* observe: the pages the bridge has a binding for.
Observed == {p \in Pages : target[p] # 0}

\* fence answers "acknowledged" only if every bound page carries the old epoch.
FenceAccepted(old) == \A p \in Observed : target[p] = old

Fence(old, new) ==
    /\ target' = IF FenceAccepted(old)
                 THEN [p \in Pages |-> IF p \in Observed THEN new ELSE 0]
                 ELSE target
    /\ UNCHANGED executed

\* create_page: refused only if the page is already bound.  The epoch of the
\* request is recorded, not compared with anything.
CreateTarget(p, epoch) ==
    /\ target[p] = 0
    /\ target' = [target EXCEPT ![p] = epoch]
    /\ UNCHANGED executed

\* close_page checks the binding and its epoch before Target.closeTarget.
CloseAccepted(p, epoch) == target[p] # 0 /\ target[p] = epoch

CloseTarget(p, epoch) ==
    /\ CloseAccepted(p, epoch)
    /\ target' = [target EXCEPT ![p] = 0]
    /\ UNCHANGED executed

DispatchAcceptedAnyEpoch(p, epoch) == target[p] # 0

\* navigate_page, dispatch_element_action and close_page all compare the epoch
\* of the request with the binding's before the first CDP command.
DispatchAccepted(p, epoch) == target[p] # 0 /\ target[p] = epoch

\* The browser performs the action; whatever is reported of it afterwards.
Perform(a, p) ==
    /\ executed' = [executed EXCEPT ![a] = @ + 1]
    /\ target' = IF a \in CloseActions THEN [target EXCEPT ![p] = 0] ELSE target

\* The CDP connection is unusable: invalidate_pages_if_client_unusable.
LoseBindings ==
    /\ target' = [p \in Pages |-> 0]
    /\ UNCHANGED executed

\* rebind_page is not implemented: the trait's default refuses.  It is not
\* called when no page is retained, nor by bridges without extension epochs.
RebindAccepted(retained) == retained = {} \/ ~ExtensionAttached
=============================================================================
