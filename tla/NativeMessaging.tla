-------------------------- MODULE NativeMessaging --------------------------
(***************************************************************************)
(* One Chrome Native Messaging connection: the host's bridge               *)
(* (agentyc-host/src/native_messaging.rs) and the extension's end of the   *)
(* pipe (extension/src/native-messaging.mjs).                              *)
(*                                                                         *)
(* A caller of the bridge registers its request, posts it and waits on a   *)
(* channel of its own, with a deadline; a reader thread takes what comes   *)
(* from the extension and finds the caller.  `pending`, `timed_out`, the   *)
(* session and the writer have a lock each, and every step below holds one *)
(* of them (post holds `outbound` across numbering and writing).           *)
(***************************************************************************)
EXTENDS Naturals, Sequences, FiniteSets

CONSTANTS
    Requests,            \* request ids of the host's callers, numbers as req_native_<n>
    Fences,              \* those that are sent by fence_request
    MaxPending,          \* MAX_NATIVE_PENDING_REQUESTS
    MaxTimedOut,         \* MAX_NATIVE_TIMED_OUT_REQUESTS
    MaxEvents,           \* MAX_NATIVE_EVENT_QUEUE
    MaxQueued,           \* MAX_NATIVE_REQUEST_QUEUE
    MaxUnsolicited,      \* bound on what the extension sends of its own accord
    MaxSent              \* bound on the host's sequence numbers

ASSUME NativeAssumption ==
    /\ Requests \subseteq Nat \ {0}
    /\ Fences \subseteq Requests
    /\ MaxPending \in Nat \ {0}
    /\ MaxTimedOut \in Nat \ {0}
    /\ MaxEvents \in Nat \ {0}
    /\ MaxQueued \in Nat
    /\ MaxUnsolicited \in Nat
    /\ MaxSent \in Nat

VARIABLES
    session,     \* SessionMetadata: [hello, done, in, out, cursor]
    greeting,    \* the hello_ok of complete_handshake: "none", "numbered" or "written"
    caller,      \* where each caller of request_value or fence_request is
    inbox,       \* what its channel holds
    pending,
    timedOut,
    reader,      \* the answer the reader took the sender for and has not sent yet
    closed,
    events,      \* the queue of unsolicited events
    dropped,     \* history: events were discarded since the last drain
    requests,    \* how many inbound requests wait for the supervisor
    seen,        \* request_fingerprints
    inventory,   \* which inventory was recorded last
    wire,        \* host to extension
    back,        \* extension to host
    ext,         \* the extension's end: [state, next, out, sent]
    todo,        \* requests the extension has and did not answer
    performed    \* how often the extension performed a request

hostVars == <<session, greeting, caller, inbox, pending, timedOut, reader, closed>>
queueVars == <<events, dropped, requests, seen, inventory>>
extVars == <<back, ext, todo, performed>>
portVars == <<hostVars, queueVars, wire, extVars>>

-----------------------------------------------------------------------------
Replies == {"ok", "refused"}
NoDelivery == [id |-> 0, reply |-> "refused"]
Returned == {"ok", "refused", "failed", "unknown", "timeout"}

PortTypeOK ==
    /\ session \in [hello : BOOLEAN, done : BOOLEAN, in : Nat, out : Nat, cursor : Nat]
    /\ greeting \in {"none", "numbered", "written"}
    /\ caller \in [Requests -> {"idle", "posting", "waiting", "expired"} \cup Returned]
    /\ inbox \in [Requests -> {"empty", "closed"} \cup Replies]
    /\ pending \subseteq Requests
    /\ timedOut \subseteq Requests
    /\ reader \in [id : Requests \cup {0}, reply : Replies]
    /\ closed \in BOOLEAN
    /\ events \in Seq({"event", "inventory", "gap"})
    /\ dropped \in BOOLEAN
    /\ requests \in Nat /\ seen \subseteq Nat /\ inventory \in Nat
    /\ wire \in Seq([seq : Nat, kind : {"hello_ok", "request", "event"}, id : Requests \cup {0}])
    /\ back \in Seq([seq : Nat, kind : {"hello", "answer", "event", "inventory", "request",
                                       "malformed"}, id : Nat, reply : Replies, cursor : Nat])
    /\ ext \in [state : {"off", "handshaking", "connected", "down"}, next : Nat, out : Nat,
                sent : Nat]
    /\ todo \subseteq Requests
    /\ performed \in [Requests -> Nat]

PortInit ==
    /\ session = [hello |-> FALSE, done |-> FALSE, in |-> 1, out |-> 1, cursor |-> 0]
    /\ greeting = "none"
    /\ caller = [r \in Requests |-> "idle"]
    /\ inbox = [r \in Requests |-> "empty"]
    /\ pending = {} /\ timedOut = {} /\ reader = NoDelivery /\ closed = FALSE
    /\ events = <<>> /\ dropped = FALSE /\ requests = 0 /\ seen = {} /\ inventory = 0
    /\ wire = <<>> /\ back = <<>>
    /\ ext = [state |-> "off", next |-> 1, out |-> 1, sent |-> 0]
    /\ todo = {} /\ performed = [r \in Requests |-> 0]

-----------------------------------------------------------------------------
(* Writing.                                                                *)

\* post: the sequence number is taken before the envelope is validated, measured
\* and written, and it stays taken when that fails.
Number == session' = [session EXCEPT !.out = @ + 1]
Written(kind, id) == Append(wire, [seq |-> session.out, kind |-> kind, id |-> id])

\* complete_handshake_with_resume takes a number for hello_ok and opens the session
\* under the session lock, and writes under the outbound lock afterwards.
CompleteHandshake ==
    /\ session.hello /\ ~session.done
    /\ session' = [session EXCEPT !.done = TRUE, !.out = @ + 1]
    /\ greeting' = "numbered"
    /\ UNCHANGED <<caller, inbox, pending, timedOut, reader, closed, queueVars, wire, extVars>>

WriteHelloOk ==
    /\ greeting = "numbered"
    /\ greeting' = "written"
    /\ wire' = IF ext.state = "down" THEN wire
               ELSE Append(wire, [seq |-> 1, kind |-> "hello_ok", id |-> 0])
    /\ UNCHANGED <<session, caller, inbox, pending, timedOut, reader, closed, queueVars, extVars>>

\* send_event, send_event_with_cursor.
SendEvent ==
    /\ session.done /\ ext.state # "down"
    /\ session.out < MaxSent
    /\ wire' = Written("event", 0)
    /\ Number
    /\ UNCHANGED <<greeting, caller, inbox, pending, timedOut, reader, closed, queueVars, extVars>>

\* drain_requests and respond, the supervisor's side of inbound requests.
Respond ==
    /\ requests > 0 /\ session.done /\ ext.state # "down"
    /\ requests' = requests - 1
    /\ wire' = Written("event", 0)
    /\ Number
    /\ UNCHANGED <<greeting, caller, inbox, pending, timedOut, reader, closed, events, dropped,
                   seen, inventory, extVars>>

-----------------------------------------------------------------------------
(* A caller: request_value and fence_request.                              *)

Register(r) ==
    /\ caller[r] = "idle"
    /\ session.hello
    /\ IF Cardinality(pending) >= MaxPending
       THEN /\ caller' = [caller EXCEPT ![r] = "failed"]
            /\ UNCHANGED pending
       ELSE /\ caller' = [caller EXCEPT ![r] = "posting"]
            /\ pending' = pending \cup {r}
    /\ UNCHANGED <<session, greeting, inbox, timedOut, reader, closed, queueVars, wire, extVars>>

\* Nothing here looks at `closed`: the writer outlives the reader.
Post(r) ==
    /\ caller[r] = "posting"
    /\ session.done
    /\ Number
    /\ wire' = IF ext.state = "down" THEN wire ELSE Written("request", r)
    /\ caller' = [caller EXCEPT ![r] = "waiting"]
    /\ UNCHANGED <<greeting, inbox, pending, timedOut, reader, closed, queueVars, extVars>>

\* No handshake yet, an envelope that is refused or too large, or a broken pipe.
PostFails(r) ==
    /\ caller[r] = "posting"
    /\ IF session.done THEN Number ELSE UNCHANGED session
    /\ pending' = pending \ {r}
    /\ caller' = [caller EXCEPT ![r] = "failed"]
    /\ UNCHANGED <<greeting, inbox, timedOut, reader, closed, queueVars, wire, extVars>>

\* The channel had an answer, or the error mark_closed puts there.
Receive(r) ==
    /\ caller[r] = "waiting"
    /\ inbox[r] # "empty"
    /\ caller' = [caller EXCEPT ![r] = IF inbox[r] = "closed" THEN "failed" ELSE inbox[r]]
    /\ UNCHANGED <<session, greeting, inbox, pending, timedOut, reader, closed, queueVars, wire,
                   extVars>>

\* Mutant: the deadline forgets the entry of pending.
TimeOutKeepingPending(r) ==
    /\ caller[r] = "waiting" /\ inbox[r] = "empty"
    /\ caller' = [caller EXCEPT ![r] = IF r \in Fences THEN "timeout" ELSE "expired"]
    /\ UNCHANGED <<session, greeting, inbox, pending, timedOut, reader, closed, queueVars, wire,
                   extVars>>

\* Mutant: the caller has no deadline.
WaitForever(r) == FALSE /\ UNCHANGED portVars

\* The deadline passes: pending first, the tombstone in a step of its own, and no
\* tombstone for a fence.
TimeOut(r) ==
    /\ caller[r] = "waiting"
    /\ inbox[r] = "empty"
    /\ pending' = pending \ {r}
    /\ caller' = [caller EXCEPT ![r] = IF r \in Fences THEN "timeout" ELSE "expired"]
    /\ UNCHANGED <<session, greeting, inbox, timedOut, reader, closed, queueVars, wire, extVars>>

\* remember_timed_out: a full set loses its smallest id.
RememberTimedOut(r) ==
    /\ caller[r] = "expired"
    /\ LET kept == IF Cardinality(timedOut) < MaxTimedOut THEN timedOut
                   ELSE timedOut \ {CHOOSE q \in timedOut : \A s \in timedOut : q <= s}
       IN timedOut' = kept \cup {r}
    /\ caller' = [caller EXCEPT ![r] = "unknown"]
    /\ UNCHANGED <<session, greeting, inbox, pending, reader, closed, queueVars, wire, extVars>>

-----------------------------------------------------------------------------
(* The reader: read_loop and handle_inbound.                               *)

\* mark_closed: every pending caller is sent the error.
MarkClosed ==
    /\ closed' = TRUE
    /\ inbox' = [r \in Requests |-> IF r \in pending THEN "closed" ELSE inbox[r]]
    /\ pending' = {}

Reads == ~closed /\ reader = NoDelivery /\ back # <<>>
Message == Head(back)

\* read_frame, validate_native_shape: a frame, and an envelope of a known kind with
\* the fields of its kind.
WellFormed == Message.kind # "malformed"

\* validate_common, and the handshake check before it.
Valid == session.done /\ WellFormed /\ Message.kind # "hello" /\ Message.seq = session.in

\* accept_inbound_cursor: within a connection the broker's cursor does not go back.
CursorAccepted == Message.cursor = 0 \/ Message.cursor >= session.cursor
Counted == [session EXCEPT !.in = @ + 1]
CursorMoved == [Counted EXCEPT !.cursor = IF Message.cursor = 0 THEN @ ELSE Message.cursor]

\* parse_hello; accept returns it to the caller that waits for it.
ReadHello ==
    /\ Reads /\ ~session.hello
    /\ Message.kind = "hello" /\ Message.seq = 1
    /\ session' = [session EXCEPT !.hello = TRUE, !.in = 2]
    /\ back' = Tail(back)
    /\ UNCHANGED <<greeting, caller, inbox, pending, timedOut, reader, closed, queueVars, wire,
                   ext, todo, performed>>

\* Mutant: an answer goes to whoever waits.
ReadAnswerOfAnyone ==
    /\ Reads /\ Valid /\ Message.kind = "answer" /\ pending # {}
    /\ session' = Counted
    /\ LET r == CHOOSE q \in pending : TRUE IN
       pending' = pending \ {r} /\ reader' = [id |-> r, reply |-> Message.reply]
    /\ back' = Tail(back)
    /\ UNCHANGED <<greeting, caller, inbox, timedOut, closed, queueVars, wire, ext, todo, performed>>

\* A caller waits for the answer.
ReadAnswer ==
    /\ Reads /\ Valid /\ Message.kind = "answer" /\ Message.id \in pending
    /\ session' = Counted
    /\ pending' = pending \ {Message.id}
    /\ reader' = [id |-> Message.id, reply |-> Message.reply]
    /\ back' = Tail(back)
    /\ UNCHANGED <<greeting, caller, inbox, timedOut, closed, queueVars, wire, ext, todo, performed>>

Deliver ==
    /\ reader # NoDelivery
    /\ inbox' = [inbox EXCEPT ![reader.id] = reader.reply]
    /\ reader' = NoDelivery
    /\ UNCHANGED <<session, greeting, caller, pending, timedOut, closed, queueVars, wire, extVars>>

\* The caller has timed out: only its tombstone goes.
ReadLateAnswer ==
    /\ Reads /\ Valid /\ Message.kind = "answer"
    /\ Message.id \notin pending /\ Message.id \in timedOut
    /\ session' = Counted
    /\ timedOut' = timedOut \ {Message.id}
    /\ back' = Tail(back)
    /\ UNCHANGED <<greeting, caller, inbox, pending, reader, closed, queueVars, wire, ext, todo,
                   performed>>

\* Mutant: a full queue is emptied without a marker.
EnqueuedSilently(kind) ==
    /\ events' = IF Len(events) >= MaxEvents THEN <<kind>> ELSE Append(events, kind)
    /\ dropped' = (dropped \/ Len(events) >= MaxEvents)

\* enqueue_event: a full queue is replaced by one marker that says so.
Enqueued(kind) ==
    /\ events' = IF Len(events) >= MaxEvents THEN <<"gap">> ELSE Append(events, kind)
    /\ dropped' = (dropped \/ Len(events) >= MaxEvents)

\* An event, or an inventory that replaces the recorded one.
ReadEvent ==
    /\ Reads /\ Valid /\ Message.kind \in {"event", "inventory"} /\ CursorAccepted
    /\ session' = CursorMoved
    /\ Enqueued(Message.kind)
    /\ inventory' = IF Message.kind = "inventory" THEN Message.seq ELSE inventory
    /\ back' = Tail(back)
    /\ UNCHANGED <<greeting, caller, inbox, pending, timedOut, reader, closed, requests, seen, wire,
                   ext, todo, performed>>

\* enqueue_request: a new id, and room.
ReadRequest ==
    /\ Reads /\ Valid /\ Message.kind = "request"
    /\ Message.id \notin seen /\ requests < MaxQueued
    /\ session' = Counted
    /\ seen' = seen \cup {Message.id}
    /\ requests' = requests + 1
    /\ back' = Tail(back)
    /\ UNCHANGED <<greeting, caller, inbox, pending, timedOut, reader, closed, events, dropped,
                   inventory, wire, ext, todo, performed>>

\* Everything else ends the connection, for every caller.
ReadRefused ==
    /\ Reads
    /\ \/ ~session.hello /\ ~(Message.kind = "hello" /\ Message.seq = 1)
       \/ session.hello /\ ~Valid
       \/ Valid /\ Message.kind = "answer" /\ Message.id \notin pending \cup timedOut
       \/ Valid /\ Message.kind \in {"event", "inventory"} /\ ~CursorAccepted
       \/ Valid /\ Message.kind = "request" /\ (Message.id \in seen \/ requests >= MaxQueued)
    /\ MarkClosed
    /\ back' = Tail(back)
    /\ UNCHANGED <<session, greeting, caller, timedOut, reader, queueVars, wire, ext, todo, performed>>

ReadEnd ==
    /\ ~closed /\ reader = NoDelivery /\ back = <<>> /\ ext.state = "down"
    /\ MarkClosed
    /\ UNCHANGED <<session, greeting, caller, timedOut, reader, queueVars, wire, extVars>>

DrainEvents ==
    /\ events # <<>>
    /\ events' = <<>> /\ dropped' = FALSE
    /\ UNCHANGED <<hostVars, requests, seen, inventory, wire, extVars>>

-----------------------------------------------------------------------------
(* The extension's end.                                                    *)

ExtSend(kind, id, reply, cursor) ==
    back' = Append(back, [seq |-> ext.out, kind |-> kind, id |-> id, reply |-> reply,
                          cursor |-> cursor])

\* connect and postHello.
ExtConnect ==
    /\ ext.state = "off"
    /\ ExtSend("hello", 0, "ok", 0)
    /\ ext' = [ext EXCEPT !.state = "handshaking", !.out = 2]
    /\ UNCHANGED <<hostVars, queueVars, wire, todo, performed>>

\* handleIncoming: the next number, and hello_ok first.
ExtAccepts(m) ==
    /\ m.seq = ext.next
    /\ ext.state = "handshaking" <=> m.kind = "hello_ok"

ExtReceive ==
    /\ wire # <<>> /\ ext.state \in {"handshaking", "connected"}
    /\ ExtAccepts(Head(wire))
    /\ wire' = Tail(wire)
    /\ ext' = [ext EXCEPT !.state = "connected", !.next = @ + 1]
    /\ todo' = IF Head(wire).kind = "request" THEN todo \cup {Head(wire).id} ELSE todo
    /\ UNCHANGED <<hostVars, queueVars, back, performed>>

\* failProtocol, or the worker or the port goes away.
ExtDown ==
    /\ ext.state \in {"handshaking", "connected"}
    /\ wire' = <<>> /\ todo' = {}
    /\ ext' = [ext EXCEPT !.state = "down"]
    /\ UNCHANGED <<hostVars, queueVars, back, performed>>

\* A request is performed, or refused, and answered.
ExtAnswer(r, reply) ==
    /\ r \in todo /\ ext.state = "connected"
    /\ todo' = todo \ {r}
    /\ performed' = IF reply = "ok" THEN [performed EXCEPT ![r] = @ + 1] ELSE performed
    /\ ExtSend("answer", r, reply, 0)
    /\ ext' = [ext EXCEPT !.out = @ + 1]
    /\ UNCHANGED <<hostVars, queueVars, wire>>

\* Events, inventories and requests of the extension; a request may be repeated, and
\* an extension of another version may send what the host cannot read.
ExtUnsolicited(kind, cursor) ==
    /\ ext.state = "connected" /\ ext.sent < MaxUnsolicited
    /\ ExtSend(kind, IF kind = "request" THEN 1 ELSE 0, "ok", cursor)
    /\ ext' = [ext EXCEPT !.out = @ + 1, !.sent = @ + 1]
    /\ UNCHANGED <<hostVars, queueVars, wire, todo, performed>>

-----------------------------------------------------------------------------
CallerStep(r) == Register(r) \/ Post(r) \/ PostFails(r) \/ Receive(r) \/ TimeOut(r)
                 \/ RememberTimedOut(r)

ReaderStep == ReadHello \/ ReadAnswer \/ Deliver \/ ReadLateAnswer \/ ReadEvent \/ ReadRequest
              \/ ReadRefused \/ ReadEnd

PortNext ==
    \/ CompleteHandshake \/ WriteHelloOk \/ SendEvent \/ Respond
    \/ \E r \in Requests : CallerStep(r)
    \/ ReaderStep \/ DrainEvents
    \/ ExtConnect \/ ExtReceive \/ ExtDown
    \/ \E r \in Requests, reply \in Replies : ExtAnswer(r, reply)
    \/ \E cursor \in 1..2 : ExtUnsolicited("event", cursor)
    \/ \E kind \in {"inventory", "request", "malformed"} : ExtUnsolicited(kind, 0)

\* The callers and the reader are threads; a deadline passes when no answer comes.
PortFairness ==
    /\ WF_portVars(Deliver)
    /\ \A r \in Requests :
           /\ WF_portVars(Post(r) \/ PostFails(r))
           /\ WF_portVars(Receive(r) \/ TimeOut(r))
           /\ WF_portVars(RememberTimedOut(r))

PortSpec == PortInit /\ [][PortNext]_portVars /\ PortFairness

-----------------------------------------------------------------------------
\* An entry of `pending` belongs to a caller that still waits: requests that ended,
\* in whatever way, do not use up the bound on requests in flight.
PendingHasCaller == \A r \in pending : caller[r] \in {"posting", "waiting"}

\* Events are not lost in silence: while some were discarded the queue holds the
\* marker that tells its reader to take a new inventory.
EventLossVisible == dropped => \E i \in DOMAIN events : events[i] = "gap"

\* A caller is told that its request was carried out only if the extension did so,
\* and once, whatever was late or lost.
AnswerMeansPerformed ==
    \A r \in Requests :
        /\ performed[r] <= 1
        /\ caller[r] = "ok" => performed[r] = 1
        /\ caller[r] = "refused" => performed[r] = 0

\* Every call of the bridge returns: by an answer, by the end of the connection or
\* by its deadline.
CallsReturn == \A r \in Requests : caller[r] = "posting" ~> caller[r] \in Returned
=============================================================================
