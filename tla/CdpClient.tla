----------------------------- MODULE CdpClient -----------------------------
(***************************************************************************)
(* Inside the live bridge (agentyc-host/src/cdp.rs): a call of CdpBridge   *)
(* is a series of DevTools commands on one websocket, under the bridge's   *)
(* mutex.  A command is answered, rejected or lost; after the first loss   *)
(* the client is unusable for good.  The browser, the person using it and  *)
(* the extension, which opens the tabs, go on meanwhile.                   *)
(*                                                                         *)
(* CdpBridge has the same calls in one step each, as the broker uses them. *)
(***************************************************************************)
EXTENDS Naturals, Sequences, FiniteSets

CONSTANTS
    Targets,             \* pages of one space
    MaxDocuments,        \* bound on documents loaded in a tab
    MaxCalls             \* bound on calls

ASSUME CdpAssumption == MaxDocuments \in Nat /\ MaxCalls \in Nat

VARIABLES
    usable,              \* CdpClient::usable
    call,                \* the call that has the mutex: [kind, page, todo, tab]
    binding,             \* pages: [nav, snap, nodes], nodes the document they are of
    tabs,                \* browser: tabs open for a page, in order of creation
    document,            \* browser: the document in the page's tab
    effect,              \* how much of the last call on a page took effect
    told,                \* what that call returned
    calls

cdpVars == <<usable, call, binding, tabs, document, effect, told, calls>>

-----------------------------------------------------------------------------
Unbound == [nav |-> 0, snap |-> 0, nodes |-> 0]
Idle == [kind |-> "idle", page |-> "none", todo |-> <<>>, tab |-> FALSE]

\* The commands of each call, in order.  is_node_within adds describeNode commands to
\* "hit"; they fail the same way.
Commands(kind) ==
    CASE kind = "create"   -> <<"find", "attach", "enable", "load">>
      [] kind = "navigate" -> <<"load">>
      [] kind = "click"    -> <<"document", "describe", "box", "hit", "press", "release">>
      [] kind = "input"    -> <<"document", "describe", "focus", "insert">>
      [] kind = "snapshot" -> <<"capture">>
      [] kind = "close"    -> <<"close">>
Kinds == {"create", "navigate", "click", "input", "snapshot", "close"}

CdpInit ==
    /\ usable = TRUE /\ call = Idle /\ calls = 0
    /\ binding = [p \in Targets |-> Unbound]
    /\ tabs = [p \in Targets |-> 0]
    /\ document = [p \in Targets |-> 1]
    /\ effect = [p \in Targets |-> "none"]
    /\ told = [p \in Targets |-> "none"]

-----------------------------------------------------------------------------
(* Calls.                                                                  *)

\* create_tab over the router: a tab, a refusal, or no answer before or after the tab is
\* opened.
TabAnswers == {"created", "refused", "lostBefore", "lostAfter"}

\* The checks before the first command: create_page on an unbound page; everything
\* else on a bound one, and an element action with a ref of its latest snapshot.
Admitted(kind, p) ==
    CASE kind = "create"             -> binding[p] = Unbound
      [] kind \in {"click", "input"} -> binding[p] # Unbound /\ binding[p].snap > 0
      [] OTHER                       -> binding[p] # Unbound

Begin(kind, p) ==
    /\ call = Idle /\ calls < MaxCalls
    /\ kind # "create" /\ Admitted(kind, p)
    /\ call' = [kind |-> kind, page |-> p, todo |-> Commands(kind), tab |-> FALSE]
    /\ effect' = [effect EXCEPT ![p] = "none"]
    /\ told' = [told EXCEPT ![p] = "none"]
    /\ calls' = calls + 1
    /\ UNCHANGED <<usable, binding, tabs, document>>

\* create_page up to create_tab, which asks the extension through the router; the
\* extension opened the tab or not, whatever its answer says.
BeginCreate(p, answer) ==
    /\ call = Idle /\ calls < MaxCalls
    /\ Admitted("create", p)
    /\ calls' = calls + 1
    /\ effect' = [effect EXCEPT ![p] = "none"]
    /\ call' = IF answer = "created"
               THEN [kind |-> "create", page |-> p, todo |-> Commands("create"), tab |-> FALSE]
               ELSE Idle
    /\ told' = [told EXCEPT ![p] = IF answer = "created" THEN "none" ELSE "transport"]
    /\ tabs' = [tabs EXCEPT ![p] = IF answer \in {"created", "lostAfter"} THEN @ + 1 ELSE @]
    /\ UNCHANGED <<usable, binding, document>>

-----------------------------------------------------------------------------
(* Commands.                                                               *)

Command == Head(call.todo)
Page == call.page

\* What answering a command does in the browser.
Answered ==
    LET p == Page IN
    /\ tabs' = IF Command = "close" THEN [tabs EXCEPT ![p] = 0] ELSE tabs
    /\ document' = IF Command = "load" THEN [document EXCEPT ![p] = @ + 1] ELSE document
    /\ effect' = [effect EXCEPT ![p] =
                     CASE Command = "press" -> "part"
                       [] Command \in {"release", "insert", "load", "capture", "close"} -> "done"
                       [] OTHER -> @]

\* Whether the browser can answer: the tab is there, and a node only while its
\* document is.
Answerable ==
    /\ Command = "find" => tabs[Page] = 1
    /\ Command # "find" => tabs[Page] > 0
    /\ Command \in {"describe", "box", "focus"} => document[Page] = binding[Page].nodes
    /\ Command = "load" => document[Page] < MaxDocuments

Finished == Tail(call.todo) = <<>>

\* The binding a call that succeeded leaves.
Bound ==
    LET b == binding[Page] IN
    CASE call.kind = "create"   -> [nav |-> 1, snap |-> 0, nodes |-> 0]
      [] call.kind = "navigate" -> [b EXCEPT !.nav = @ + 1]
      [] call.kind = "snapshot" -> [b EXCEPT !.snap = @ + 1, !.nodes = document[Page]]
      [] call.kind = "close"    -> Unbound
      [] OTHER                  -> b

CommandOk ==
    /\ call # Idle /\ call.todo # <<>> /\ usable
    /\ Answerable /\ Answered
    /\ call' = IF Finished THEN Idle
               ELSE [call EXCEPT !.todo = Tail(@), !.tab = @ \/ Command = "find"]
    /\ binding' = IF Finished THEN [binding EXCEPT ![Page] = Bound] ELSE binding
    /\ told' = IF Finished THEN [told EXCEPT ![Page] = "ok"] ELSE told
    /\ UNCHANGED <<usable, calls>>

Ends(report) ==
    /\ call' = Idle
    /\ told' = [told EXCEPT ![Page] = report]

\* dispatch and snapshot drop every binding of an unusable client; create_page does
\* not, nor close_page when it is called by itself.
Invalidated ==
    \/ call.kind # "create" /\ binding' = [p \in Targets |-> Unbound]
    \/ call.kind \in {"create", "close"} /\ UNCHANGED binding

\* Mutant: no answer is taken for a failure.
CommandLostAsFailed ==
    /\ call # Idle /\ call.todo # <<>> /\ usable
    /\ usable' = FALSE
    /\ (Answerable /\ Answered) \/ UNCHANGED <<tabs, document, effect>>
    /\ Ends("failed")
    /\ UNCHANGED <<binding, calls>>

\* No answer: the command took effect or not.
CommandLost ==
    /\ call # Idle /\ call.todo # <<>> /\ usable
    /\ usable' = FALSE
    /\ (Answerable /\ Answered) \/ UNCHANGED <<tabs, document, effect>>
    /\ Ends("unknown")
    /\ Invalidated
    /\ UNCHANGED calls

\* Mutant: the tab of a creation that fails stays open.
RejectedUncleaned ==
    /\ call # Idle /\ call.todo # <<>> /\ usable
    /\ Ends(IF call.kind = "create" THEN "abandoned" ELSE "failed")
    /\ UNCHANGED <<usable, binding, tabs, document, effect, calls>>

\* The answer is an error, or says that the node, the hit target or the page is not
\* what it should be.  A creation that got past its tab closes it.
CommandRejected ==
    /\ call # Idle /\ call.todo # <<>> /\ usable
    /\ IF call.kind = "create" /\ call.tab
       THEN call' = [call EXCEPT !.kind = "cleanup", !.todo = <<>>] /\ UNCHANGED told
       ELSE Ends(IF call.kind = "create" THEN "unknown" ELSE "failed")
    /\ UNCHANGED <<usable, binding, tabs, document, effect, calls>>

\* cleanup_failed_creation: closed, or not there any more, and the first error is
\* reported; anything else is an unknown outcome.
CleanupOk ==
    /\ call.kind = "cleanup"
    /\ Ends("abandoned")
    /\ tabs' = [tabs EXCEPT ![Page] = 0]
    /\ UNCHANGED <<usable, binding, document, effect, calls>>

CleanupFails ==
    /\ call.kind = "cleanup"
    /\ usable' \in {usable, FALSE}
    /\ Ends("unknown")
    /\ UNCHANGED <<binding, tabs, document, effect, calls>>

\* A client that was lost before refuses at once: nothing is sent.
Unusable ==
    /\ call # Idle /\ call.todo # <<>> /\ ~usable
    /\ Ends("unknown")
    /\ Invalidated
    /\ UNCHANGED <<usable, tabs, document, effect, calls>>

-----------------------------------------------------------------------------
(* The person at the browser closes a tab; a page loads another document.  *)

UserCloses(p) ==
    /\ tabs[p] > 0
    /\ tabs' = [tabs EXCEPT ![p] = @ - 1]
    /\ UNCHANGED <<usable, call, binding, document, effect, told, calls>>

PageLoads(p) ==
    /\ tabs[p] > 0 /\ document[p] < MaxDocuments
    /\ document' = [document EXCEPT ![p] = @ + 1]
    /\ UNCHANGED <<usable, call, binding, tabs, effect, told, calls>>

CdpNext ==
    \/ \E p \in Targets, k \in Kinds : Begin(k, p)
    \/ \E p \in Targets, a \in TabAnswers : BeginCreate(p, a)
    \/ CommandOk \/ CommandLost \/ CommandRejected \/ CleanupOk \/ CleanupFails \/ Unusable
    \/ \E p \in Targets : UserCloses(p) \/ PageLoads(p)

CdpSpec == CdpInit /\ [][CdpNext]_cdpVars

-----------------------------------------------------------------------------
\* What a call reports is true: success means that it took effect, a failure that it
\* did not, or only the press of a click did; where the host cannot know it says so.
ReportsAreTrue ==
    \A p \in Targets :
        /\ told[p] = "failed" => effect[p] # "done"
        /\ told[p] = "ok" => effect[p] = "done"

\* A creation that fails definitely once its tab is identified leaves no tab behind.
NoTabLeftBehind == \A p \in Targets : told[p] = "abandoned" => tabs[p] = 0
=============================================================================
