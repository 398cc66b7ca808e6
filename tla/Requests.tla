------------------------------ MODULE Requests ------------------------------
(* One local connection: frames are handled one after the other by the thread  *)
(* of the connection, except that every wait.for runs in a worker of its own,  *)
(* which shares the connection's cancellation tokens and authority but not its *)
(* record of requests.  (agentyc-host/src/protocol.rs and local_ipc.rs.)       *)
(* Clients number their requests: an id names one request, which for a call    *)
(* may be sent again and for a wait is sent once.                              *)
EXTENDS Naturals, Sequences, FiniteSets

CONSTANTS
    CallIds, WaitIds,   \* request ids of calls and of waits
    MaxTracked,         \* MAX_TRACKED_REQUESTS
    MaxInbox,           \* bound: frames on their way
    MaxFrames           \* bound: frames a client sends

RequestIds == CallIds \cup WaitIds

ASSUME RequestAssumption == CallIds \cap WaitIds = {} /\ MaxTracked \in Nat

VARIABLES
    conn,       \* the session: "none" before hello, "open", "closing", "closed"
    inbox,      \* frames the client has sent and the connection has not read
    sentFrames, \* history: how many and which waits
    track,      \* ProtocolServer::request_states of the connection
    token,      \* cancellation_tokens, shared with the workers
    worker,     \* the worker of every wait
    runs,       \* history: how often execute_request ran
    confirmed,  \* history: cancels answered with cancelled = true
    early       \* history: those answered before the request ran

requestVars == <<conn, inbox, sentFrames, track, token, worker, runs, confirmed, early>>

RequestInit ==
    /\ conn = "none" /\ inbox = <<>> /\ sentFrames = [n |-> 0, waits |-> {}]
    /\ track = [i \in RequestIds |-> "none"] /\ token = [i \in RequestIds |-> "none"]
    /\ worker = [i \in WaitIds |-> "none"] /\ runs = [i \in RequestIds |-> 0]
    /\ confirmed = {} /\ early = {}

Tracked == {i \in RequestIds : track[i] # "none"}
Reads(kind) == inbox # <<>> /\ Head(inbox).kind = kind /\ inbox' = Tail(inbox)
\* validate_wire_envelope and the validators of its parts: what is refused ends the
\* connection.
Admissible(frame) == frame.kind # "bad"

Serving == conn \in {"none", "open"}

\* execute_request: one broker call, whatever its method.
Executed(i) == runs' = [runs EXCEPT ![i] = @ + 1]

\* ProtocolServer::cancel_all: the tokens that are there.
AllCancelled == [i \in RequestIds |-> IF token[i] = "none" THEN "none" ELSE "cancelled"]

-----------------------------------------------------------------------------
(* The client                                                                  *)

SendFrame(frame) ==
    /\ sentFrames.n < MaxFrames /\ Len(inbox) < MaxInbox /\ Serving
    /\ inbox' = Append(inbox, frame)
    /\ sentFrames' = [n |-> sentFrames.n + 1,
                      waits |-> sentFrames.waits \cup (IF frame.kind = "wait" THEN {frame.id} ELSE {})]
    /\ UNCHANGED <<conn, track, token, worker, runs, confirmed, early>>

ClientSends ==
    \/ \E k \in {"hello", "eof", "bad"} : SendFrame([kind |-> k])
    \/ \E i \in CallIds : SendFrame([kind |-> "call", id |-> i])
    \/ \E i \in WaitIds \ sentFrames.waits : SendFrame([kind |-> "wait", id |-> i])
    \/ \E i \in RequestIds : SendFrame([kind |-> "cancel", id |-> i])

-----------------------------------------------------------------------------
(* The thread of the connection                                                *)

\* handle_hello: refused by the broker or repeated, it ends the connection.
HandleHello ==
    /\ Serving /\ Reads("hello")
    /\ \/ conn = "none" /\ conn' = "open" /\ UNCHANGED token
       \/ conn' = "closing" /\ token' = AllCancelled
    /\ UNCHANGED <<sentFrames, track, worker, runs, confirmed, early>>

\* handle_request and execute_request for what is not a wait, from the record of the
\* request to its completion.  An id that is known is refused, and so is any new one
\* once the record is full; without a session, or past its deadline, it does not run.
HandleCall ==
    /\ Serving /\ Reads("call")
    /\ LET i == Head(inbox).id
           fresh == track[i] = "none" /\ Cardinality(Tracked) < MaxTracked IN
       IF fresh
       THEN /\ track' = [track EXCEPT ![i] = "completed"]
            /\ \/ conn = "open" /\ Executed(i)
               \/ UNCHANGED runs
            /\ token' = [token EXCEPT ![i] = "none"]        \* clear_cancellation
       ELSE UNCHANGED <<track, runs, token>>
    /\ UNCHANGED <<conn, sentFrames, worker, confirmed, early>>

\* serve_client on a wait: a worker is forked, with the session there is, and the
\* connection reads on.
ForkWait ==
    /\ Serving /\ Reads("wait")
    /\ worker' = [worker EXCEPT ![Head(inbox).id] =
                                      IF conn = "open" THEN "forked" ELSE "unbound"]
    /\ UNCHANGED <<conn, sentFrames, track, token, runs, confirmed, early>>

\* The answer "cancelled": "true".
Acknowledge(i) ==
    /\ confirmed' = confirmed \cup {i}
    /\ early' = IF runs[i] = 0 THEN early \cup {i} ELSE early

\* Mutant: the cancel of a request that runs is recorded and its token forgotten.
CancelTokenOnlyRecorded(i) ==
    /\ Acknowledge(i) /\ UNCHANGED token
    /\ track' = [track EXCEPT ![i] = "cancelled_queued"]

\* handle_cancel finds a token: a worker has it, or an earlier cancel made it.
CancelToken(i) ==
    /\ Acknowledge(i)
    /\ token' = [token EXCEPT ![i] = "cancelled"] /\ UNCHANGED track

\* handle_cancel finds none: what the record of requests says decides.
CancelTracked(i) ==
    CASE track[i] = "cancelled_queued" -> Acknowledge(i) /\ UNCHANGED <<token, track>>
      [] track[i] = "none" /\ Cardinality(Tracked) < MaxTracked ->
            /\ Acknowledge(i)
            /\ token' = [token EXCEPT ![i] = "cancelled"]
            /\ track' = [track EXCEPT ![i] = "cancelled_queued"]
      [] OTHER -> UNCHANGED <<confirmed, early, token, track>>

HandleCancel ==
    /\ Serving /\ Reads("cancel")
    /\ LET i == Head(inbox).id IN
       IF token[i] # "none" THEN CancelToken(i) ELSE CancelTracked(i)
    /\ UNCHANGED <<conn, sentFrames, worker, runs>>

\* The end of the stream, five silent minutes, a frame that is not an admissible
\* envelope, an answer that cannot be written: every token there is is cancelled,
CancelAll ==
    /\ Serving
    /\ \/ Reads("eof")
       \/ inbox # <<>> /\ ~Admissible(Head(inbox)) /\ inbox' = Tail(inbox)
       \/ UNCHANGED inbox
    /\ conn' = "closing"
    /\ token' = AllCancelled
    /\ UNCHANGED <<sentFrames, track, worker, runs, confirmed, early>>

\* and ProtocolServer::close gives the authority back.
CloseSession ==
    /\ conn = "closing" /\ conn' = "closed"
    /\ UNCHANGED <<inbox, sentFrames, track, token, worker, runs, confirmed, early>>

-----------------------------------------------------------------------------
(* The workers                                                                 *)

\* clear_cancellation when the worker's request is over.
WorkerEnds(i) ==
    /\ worker' = [worker EXCEPT ![i] = "done"]
    /\ token' = [token EXCEPT ![i] = "none"]

\* Mutant: the worker has tokens of its own.
BeginUnshared(i) ==
    /\ worker[i] \in {"forked", "unbound"}
    /\ token' = [token EXCEPT ![i] = "live"]
    /\ worker' = [worker EXCEPT ![i] = "waiting"] /\ Executed(i)
    /\ UNCHANGED <<conn, inbox, sentFrames, track, confirmed, early>>

\* handle_request in the worker, whose record of requests is empty: a token that is there
\* already is the worker's too.  Without a session the request fails.
WorkerBegins(i) ==
    /\ worker[i] \in {"forked", "unbound"}
    /\ IF token[i] = "cancelled" \/ worker[i] = "unbound"
       THEN WorkerEnds(i) /\ UNCHANGED runs
       ELSE /\ token' = [token EXCEPT ![i] = "live"]
            /\ worker' = [worker EXCEPT ![i] = "waiting"] /\ Executed(i)
    /\ UNCHANGED <<conn, inbox, sentFrames, track, confirmed, early>>

\* One round of the loop of wait.for: the authority is proved with every read of the
\* events, the wait matches, times out or is pending, and a pending one looks at its
\* token at least every 50 ms.
WorkerPolls(i) ==
    /\ worker[i] = "waiting"
    /\ \/ WorkerEnds(i)
       \/ conn = "open" /\ token[i] # "cancelled" /\ UNCHANGED <<worker, token>>
    /\ UNCHANGED <<conn, inbox, sentFrames, track, runs, confirmed, early>>

RequestNext ==
    \/ ClientSends \/ HandleHello \/ HandleCall \/ ForkWait \/ HandleCancel
    \/ CancelAll \/ CloseSession
    \/ \E i \in WaitIds : WorkerBegins(i) \/ WorkerPolls(i)

\* Threads that can run do run; neither the client nor the events have to do anything.
\* (A round that leaves a wait pending changes nothing: only one that ends it is fair.)
RequestFairness ==
    /\ WF_requestVars(CloseSession)
    /\ \A i \in WaitIds : WF_requestVars(WorkerBegins(i))
    /\ \A i \in WaitIds :
           WF_requestVars(WorkerPolls(i) /\ (conn # "open" \/ token[i] = "cancelled"))

RequestSpec == RequestInit /\ [][RequestNext]_requestVars /\ RequestFairness

-----------------------------------------------------------------------------
\* A cancel that is answered with "cancelled" before the request has run keeps it from
\* ever running, also when the request is on its way to, or already in, a worker that has
\* not begun.
CancelledNeverRuns == \A i \in early : runs[i] = 0

\* A wait whose cancel was answered with "cancelled", or whose connection is closed, ends,
\* though the events it waits for never come and its deadline is far.
CancelEndsWait ==
    \A i \in WaitIds :
        (i \in confirmed \/ conn = "closed") /\ worker[i] \notin {"none", "done"} ~> worker[i] = "done"
=============================================================================
