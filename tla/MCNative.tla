------------------------------ MODULE MCNative ------------------------------
(* The two pipes of the host: the extension port, the artifact transfers on it  *)
(* and the DevTools client, each by itself.                                     *)
EXTENDS NativeMessaging, NativeArtifacts, CdpClient

CONSTANTS f1, f2, x1, x2, g1, g2

\* Two chunks of which the last is shorter, for either request; nothing at all; a
\* chunk count that is wrong; too large.
MCEnvelopes ==
    {[total |-> 3, size |-> 2, count |-> 2, for |-> x] : x \in Actions}
    \cup {[total |-> t, size |-> 1, count |-> 0, for |-> NoAction] : t \in {0, 1}}
    \cup {[total |-> 5, size |-> 2, count |-> 3, for |-> NoAction]}
MCChunks ==
    {[seq |-> s, len |-> 2 - s, good |-> g] : s \in 0..2, g \in BOOLEAN}
    \cup {[seq |-> 1, len |-> 2, good |-> TRUE]}

VARIABLE part    \* which of them a behaviour is about

nativeVars == <<portVars, artifactVars, cdpVars, part>>

NativeInit ==
    PortInit /\ ArtifactInit /\ CdpInit /\ part \in {"port", "in", "out", "cdp"}

NativeNext ==
    \/ part = "port" /\ PortNext /\ UNCHANGED <<artifactVars, cdpVars, part>>
    \/ part = "in" /\ InboundNext /\ UNCHANGED <<portVars, cdpVars, part>>
    \/ part = "out" /\ OutboundNext /\ UNCHANGED <<portVars, cdpVars, part>>
    \/ part = "cdp" /\ CdpNext /\ UNCHANGED <<portVars, artifactVars, part>>

NativeSpec == NativeInit /\ [][NativeNext]_nativeVars /\ PortFairness
=============================================================================
