----------------------------- MODULE MCService -----------------------------
(* The service around the broker, part by part: what snapshot.read answers, a  *)
(* local connection with its workers, and the processes over a state directory. *)
EXTENDS Context, Requests, HostProcess, TLC

CONSTANTS e1, e2, e3

Values == {"none", "text", "raw", "masked"}
Element(p, o, v) == [parent |-> p, order |-> o, value |-> v]
Pair(p, v, w, o) == e1 :> Element(Root, o, v) @@ e2 :> Element(p, 3 - o, w)

\* Documents of up to three elements, in any order, for the deltas between any two of
\* them; and every parenthood of three elements, cycles and missing parents included.
SmallDocs ==
    {Pair(p, v, w, o) : p \in {Root, e1}, v \in Values, w \in Values, o \in {1, 2}}
    \cup {k :> Element(Root, o, v) : k \in {e1, e2}, o \in {1, 2}, v \in Values}
    \cup {Pair(Root, v, v, o) @@ e3 :> Element(e1, 3, v) : v \in {"none", "text"}, o \in {1, 2}}
TreeDocs ==
    {e1 :> Element(p, 1, "text") @@ e2 :> Element(q, 2, "none") @@ e3 :> Element(r, 3, "raw") :
        p \in {Root, e2, e3}, q \in {Root, e1, e3}, r \in {Root, e1, e2, "elsewhere"}}

Plain(d) ==
    [doc |-> d, version |-> 2, coherent |-> TRUE, truncated |-> FALSE, coverage |-> "complete",
     base |-> [present |-> FALSE], mode |-> "auto", focus |-> Root, cached |-> FALSE,
     budget |-> NoBudget, tokens |-> NoBudget, allowResync |-> TRUE, insist |-> FALSE]

Base(d, v, kind) ==
    [present |-> TRUE, doc |-> d, version |-> v, complete |-> kind # "partial",
     sameGeneration |-> kind # "other"]

DeltaAsks ==
    \E d, b \in SmallDocs, m \in {"auto", "delta"}, u \in {NoBudget, 5},
       k \in {<<1, "full">>, <<2, "full">>, <<1, "partial">>, <<1, "other">>} :
        ContextInit([Plain(d) EXCEPT !.mode = m, !.budget = u, !.base = Base(b, k[1], k[2])])

BodyAsks ==
    \E d \in TreeDocs, m \in {"auto", "full", "compact", "focus", "delta"},
       f \in {Root, "frame", e1, e3}, u \in {NoBudget, 2, 4, 6}, t \in {NoBudget, 4},
       k, i, r \in BOOLEAN, q \in {"complete", "partial", "truncated", "incoherent"} :
        /\ k => q = "complete"
        /\ r \/ u # NoBudget
        /\ ContextInit([Plain(d) EXCEPT
               !.mode = m, !.focus = f, !.budget = u, !.tokens = t, !.cached = k, !.insist = i,
               !.allowResync = r, !.coherent = q # "incoherent", !.truncated = q = "truncated",
               !.coverage = IF q = "complete" THEN q ELSE "partial"])

VARIABLE part    \* which of them a behaviour is about

serviceVars == <<contextVars, requestVars, hostVars, part>>

ServiceInit ==
    /\ RequestInit /\ HostInit
    /\ \/ part = "context" /\ (DeltaAsks \/ BodyAsks)
       \/ part \in {"requests", "hosts"} /\ ContextInit(Plain(e1 :> Element(Root, 1, "none")))

ServiceNext ==
    \/ part = "context" /\ ContextNext /\ UNCHANGED <<requestVars, hostVars, part>>
    \/ part = "requests" /\ RequestNext /\ UNCHANGED <<contextVars, hostVars, part>>
    \/ part = "hosts" /\ HostNext /\ UNCHANGED <<contextVars, requestVars, part>>

\* The processes alone, for what two recoveries at a time do to the lock.
LockSpec == part = "hosts" /\ ServiceInit /\ [][ServiceNext]_serviceVars

ServiceSpec == ServiceInit /\ [][ServiceNext]_serviceVars /\ RequestFairness
=============================================================================
