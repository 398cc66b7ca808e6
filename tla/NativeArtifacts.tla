-------------------------- MODULE NativeArtifacts --------------------------
(***************************************************************************)
(* Artifact transfers on one Native Messaging connection: begin, ordered   *)
(* chunks and end, in both directions (agentyc-host/src/                   *)
(* native_messaging.rs), with the progress and budget they are checked     *)
(* against (agentyc-core/src/protocol.rs), and the retention of a          *)
(* screenshot for the action that asked for it.                            *)
(*                                                                         *)
(* A chunk is its number, its length and whether its bytes are the ones    *)
(* that were digested.  Everything here happens under the session lock.    *)
(***************************************************************************)
EXTENDS Naturals, Sequences, SequencesExt, FiniteSetsExt

CONSTANTS
    Artifacts,           \* artifact ids
    Actions,             \* actions that take a screenshot, one request each
    NoAction,
    Envelopes,           \* what a begin or an end may declare
    Chunks,              \* what a chunk may be
    MaxArtifact,         \* max_artifact_bytes
    MaxChunk,            \* max_artifact_chunk_bytes
    MaxInFlight,         \* max_in_flight_artifact_bytes
    MaxCumulative,       \* MAX_CUMULATIVE_ARTIFACT_BYTES, or the negotiated one when sending
    MaxTransfers         \* MAX_NATIVE_ARTIFACT_TRANSFERS

ASSUME ArtifactAssumption ==
    /\ NoAction \notin Actions
    /\ Envelopes \subseteq [total : Nat, size : Nat, count : Nat, for : Actions \cup {NoAction}]
    /\ Chunks \subseteq [seq : Nat, len : Nat, good : BOOLEAN]
    /\ {MaxArtifact, MaxChunk, MaxInFlight, MaxCumulative, MaxTransfers} \subseteq Nat

VARIABLES
    inbound,     \* artifact_transfers
    inBudget,    \* artifact_budget: [flight, total]
    outbound,    \* outbound_artifact_transfers
    outBudget,
    completed,   \* completed_artifacts
    byAction,    \* artifacts_by_action: the handle each action's screenshot left
    taken,       \* history: which action got the bytes made for which action
    up           \* the connection is open: an error of the reader ends it

inboundVars == <<inbound, inBudget, completed>>
outboundVars == <<outbound, outBudget>>
artifactVars == <<inboundVars, outboundVars, byAction, taken, up>>

-----------------------------------------------------------------------------
(* Declarations, chunks and budgets.                                       *)

NoArtifact == [begin |-> [total |-> 0, size |-> 0, count |-> 0, for |-> NoAction], got |-> <<>>]

Bytes(got) == FoldSeq(LAMBDA c, n : c.len + n, 0, got)

\* ArtifactBeginEnvelope::validate, and the negotiated limits.
BeginValid(d) ==
    /\ d.total <= MaxArtifact
    /\ d.size \in 1..MaxChunk
    /\ d.count = (d.total + d.size - 1) \div d.size

\* ArtifactChunkEnvelope::validate_against: the last chunk has what is left.
ExpectedLen(d, seq) == IF seq + 1 = d.count THEN d.total - seq * d.size ELSE d.size

\* ArtifactTransferProgress::accept_chunk.
AcceptChunk(t, c) ==
    /\ c.seq < t.begin.count
    /\ c.len = ExpectedLen(t.begin, c.seq)
    /\ c.seq = Len(t.got)

\* Mutant: the digest is not compared.
EndUndigested(t, d) == d = t.begin /\ Len(t.got) = d.count /\ Bytes(t.got) = d.total

\* validate_complete and ArtifactEndEnvelope::validate_against; the digest is that of
\* the good chunks in their order.
EndValid(t, d) ==
    /\ d = t.begin
    /\ Len(t.got) = d.count
    /\ Bytes(t.got) = d.total
    /\ \A i \in DOMAIN t.got : t.got[i].good /\ t.got[i].seq = i - 1

\* ArtifactTransferBudget::receive and release.
Fits(b, n) == b.flight + n <= MaxInFlight /\ b.total + n <= MaxCumulative
Receives(b, n) == [flight |-> b.flight + n, total |-> b.total + n]
Released(b, n) == [b EXCEPT !.flight = @ - n]

Open(transfers, a) == a \in DOMAIN transfers
With(f, a, v) == [x \in DOMAIN f \cup {a} |-> IF x = a THEN v ELSE f[x]]
Without(f, a) == [x \in DOMAIN f \ {a} |-> f[x]]

NoTransfers == [a \in {} |-> NoArtifact]

ArtifactInit ==
    /\ inbound = NoTransfers /\ outbound = NoTransfers /\ completed = NoTransfers
    /\ inBudget = [flight |-> 0, total |-> 0] /\ outBudget = [flight |-> 0, total |-> 0]
    /\ byAction = [x \in {} |-> NoArtifact]
    /\ taken = {} /\ up = TRUE

-----------------------------------------------------------------------------
(* What the extension sends.                                               *)

Refuse == up' = FALSE /\ UNCHANGED <<inboundVars, outboundVars, byAction, taken>>

BeginAccepted(a, d) ==
    /\ BeginValid(d)
    /\ Cardinality(DOMAIN inbound) < MaxTransfers
    /\ ~Open(inbound, a)

\* handle_native_artifact_begin.
ReceiveBegin(a, d) ==
    /\ up
    /\ BeginAccepted(a, d)
    /\ inbound' = With(inbound, a, [begin |-> d, got |-> <<>>])
    /\ UNCHANGED <<inBudget, completed, outboundVars, byAction, taken, up>>

ChunkAccepted(a, c) == Fits(inBudget, c.len) /\ Open(inbound, a) /\ AcceptChunk(inbound[a], c)

\* handle_native_artifact_chunk.
ReceiveChunk(a, c) ==
    /\ up
    /\ ChunkAccepted(a, c)
    /\ inbound' = [inbound EXCEPT ![a].got = Append(@, c)]
    /\ inBudget' = Receives(inBudget, c.len)
    /\ UNCHANGED <<completed, outboundVars, byAction, taken, up>>

\* Mutant: the bytes of a transfer that ended stay counted.
EndKeepingBytes(a, d) ==
    /\ up /\ Open(inbound, a)
    /\ inbound' = Without(inbound, a)
    /\ up' = EndValid(inbound[a], d)
    /\ completed' = IF EndValid(inbound[a], d) THEN With(completed, a, inbound[a]) ELSE completed
    /\ UNCHANGED <<inBudget, outboundVars, byAction, taken>>

\* handle_native_artifact_end: the transfer is gone and its bytes are released
\* whether or not it is accepted.
ReceiveEnd(a, d) ==
    /\ up
    /\ Open(inbound, a)
    /\ inbound' = Without(inbound, a)
    /\ inBudget' = Released(inBudget, Bytes(inbound[a].got))
    /\ LET kept == EndValid(inbound[a], d) /\ Cardinality(DOMAIN completed) < MaxTransfers
       IN /\ completed' = IF kept THEN With(completed, a, inbound[a]) ELSE completed
          /\ up' = kept
    /\ UNCHANGED <<outboundVars, byAction, taken>>

\* Every other begin, chunk or end is an error of the reader.
ReceiveRefused ==
    /\ up
    /\ \/ \E a \in Artifacts, d \in Envelopes : ~BeginAccepted(a, d)
       \/ \E a \in Artifacts, c \in Chunks : ~ChunkAccepted(a, c)
       \/ \E a \in Artifacts : ~Open(inbound, a)
    /\ Refuse

-----------------------------------------------------------------------------
(* What the host sends.                                                    *)

\* send_artifact_begin: a begin that cannot be posted leaves nothing behind.
SendBegin(a, d) ==
    /\ BeginValid(d)
    /\ Cardinality(DOMAIN outbound) < MaxTransfers /\ ~Open(outbound, a)
    /\ outbound' = With(outbound, a, [begin |-> d, got |-> <<>>])
    /\ UNCHANGED <<inboundVars, outBudget, byAction, taken, up>>

\* send_artifact_chunk; the chunk counts even when post fails.
SendChunk(a, c) ==
    /\ Open(outbound, a)
    /\ Fits(outBudget, c.len)
    /\ AcceptChunk(outbound[a], c)
    /\ outbound' = [outbound EXCEPT ![a].got = Append(@, c)]
    /\ outBudget' = Receives(outBudget, c.len)
    /\ UNCHANGED <<inboundVars, byAction, taken, up>>

\* send_artifact_end.
SendEnd(a) ==
    /\ Open(outbound, a)
    /\ outbound' = Without(outbound, a)
    /\ outBudget' = Released(outBudget, Bytes(outbound[a].got))
    /\ UNCHANGED <<inboundVars, byAction, taken, up>>

-----------------------------------------------------------------------------
(* Screenshots.                                                            *)

\* artifact_handle_from_result and native_action_result: a screenshot that succeeded
\* names an artifact that is complete; the handle has what the answer says of it.
Retain(x, a) ==
    /\ a \in DOMAIN completed
    /\ byAction' = With(byAction, x, [id |-> a, begin |-> [completed[a].begin EXCEPT !.for = x]])
    /\ UNCHANGED <<inboundVars, outboundVars, taken, up>>

\* Mutant: the artifact is not compared with the handle.
TakeAnyOwner(x) ==
    /\ x \in DOMAIN byAction
    /\ byAction[x].id \in DOMAIN completed
    /\ taken' = taken \cup {[by |-> x, for |-> completed[byAction[x].id].begin.for]}
    /\ completed' = Without(completed, byAction[x].id)
    /\ byAction' = Without(byAction, x)
    /\ UNCHANGED <<inbound, inBudget, outboundVars, up>>

\* take_artifact: the handle and the artifact must agree, the request included.
TakeArtifact(x) ==
    /\ x \in DOMAIN byAction
    /\ LET h == byAction[x] IN
       /\ h.id \in DOMAIN completed
       /\ completed[h.id].begin = h.begin
       /\ taken' = taken \cup {[by |-> x, for |-> completed[h.id].begin.for]}
       /\ completed' = Without(completed, h.id)
    /\ byAction' = Without(byAction, x)
    /\ UNCHANGED <<inbound, inBudget, outboundVars, up>>

\* take_completed_artifact: by artifact id; the first handle that names it goes too.
TakeCompleted(a) ==
    /\ a \in DOMAIN completed
    /\ completed' = Without(completed, a)
    /\ LET named == {x \in DOMAIN byAction : byAction[x].id = a} IN
       IF named = {} THEN UNCHANGED byAction
       ELSE \E x \in named : byAction' = Without(byAction, x)
    /\ UNCHANGED <<inbound, inBudget, outboundVars, taken, up>>

-----------------------------------------------------------------------------
InboundNext ==
    \/ \E a \in Artifacts :
        \/ \E d \in Envelopes : ReceiveBegin(a, d) \/ ReceiveEnd(a, d)
        \/ \E c \in Chunks : ReceiveChunk(a, c)
        \/ \E x \in Actions : Retain(x, a)
        \/ TakeCompleted(a)
    \/ ReceiveRefused
    \/ \E x \in Actions : TakeArtifact(x)

OutboundNext ==
    \E a \in Artifacts :
        \/ \E d \in Envelopes : SendBegin(a, d)
        \/ \E c \in Chunks : SendChunk(a, c)
        \/ SendEnd(a)

ArtifactSpec == ArtifactInit /\ [][InboundNext \/ OutboundNext]_artifactVars

-----------------------------------------------------------------------------
InFlight(transfers) == MapThenSumSet(LAMBDA a : Bytes(transfers[a].got), DOMAIN transfers)

\* The bytes counted against the budget are the bytes in the buffers of open
\* transfers, in both directions: nothing that fails, ends early or is refused keeps
\* a share of the budget, and no release takes more than was counted.
BudgetExact ==
    /\ inBudget.flight = InFlight(inbound)
    /\ outBudget.flight = InFlight(outbound)

\* A completed artifact has every declared chunk, once, in order and undamaged, and
\* no other byte than it declared.
CompletedWhole ==
    \A a \in DOMAIN completed :
        LET t == completed[a] IN
        /\ [i \in DOMAIN t.got |-> t.got[i].seq] = [i \in 1..t.begin.count |-> i - 1]
        /\ Bytes(t.got) = t.begin.total
        /\ \A i \in DOMAIN t.got : t.got[i].good

\* The bytes produced for one request are handed to the action of that request,
\* even if the extension names another one's artifact in its answer.
DeliveredToOwner == \A t \in taken : t.by = t.for
=============================================================================
