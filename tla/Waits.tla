-------------------------------- MODULE Waits --------------------------------
(* wait.for: a client registers a condition at an event cursor, and its        *)
(* connection's thread polls the broker's events into a router of its own      *)
(* until the condition is met, the deadline passes, the wait is cancelled or   *)
(* the events cannot prove the condition any more.  (agentyc-host/src/waits.rs *)
(* and the wait.for branch of protocol.rs.)                                    *)
EXTENDS EventRouter

CONSTANTS
    Conditions,     \* the conditions that clients wait for, a subset of AllConditions
    Quotes,         \* bound: the sequence numbers that clients quote
    Quiet,          \* quiet_for of the conditions on quiet
    Timeout,        \* timeout_ms of a wait
    MaxWaitEvents,  \* MAX_EVENT_LIMIT, the retention of the wait's own router
    MaxTime         \* bound: clock readings

\* "event" stands for the conditions that one event settles (URL, history, reload,
\* request, element, page, download, payload); "response" needs the request too.
AllConditions == {"event", "response", "network_idle", "stable_dom"}

ASSUME WaitAssumption ==
    /\ Conditions \subseteq AllConditions
    /\ Quiet \in Nat \ {0} /\ Timeout \in Nat \ {0} /\ MaxWaitEvents \in Nat \ {0}
    /\ MaxTime \in Nat /\ Quotes \subseteq Nat

VARIABLES
    clock,          \* the monotonic clock
    cancelled,      \* the wait's cancellation token
    wait            \* the wait: its registration, its own router and what it observed

waitVars == <<clock, cancelled, wait>>

NoWait == [pc |-> "none"]

WaitInit == clock = 0 /\ cancelled = FALSE /\ wait = NoWait

\* The cursors that a client can quote, of this epoch or of an earlier one.
Quotable == [epoch : {epoch - 1, epoch}, seq : Quotes]

\* wait.for captures the cursor before anything else; the client may quote an older
\* one (a "start" event of an action it dispatched before).
Register(condition, scope, cursor) ==
    /\ wait.pc = "none" /\ clock + Timeout <= MaxTime
    /\ wait' = [pc |-> "read", outcome |-> "none", condition |-> condition, scope |-> scope,
                from |-> cursor, cursor |-> cursor, router |-> RouterAt(cursor),
                generation |-> 0, deadline |-> clock + Timeout, finished |-> FALSE,
                observed |-> {}, active |-> {}, quiet |-> clock, requests |-> {},
                responses |-> {}, matched |-> 0, last |-> 0, polled |-> clock]
    /\ cancelled' = FALSE
    /\ UNCHANGED clock

\* The generation of the notifications is read before the events are.
ReadGeneration ==
    /\ wait.pc = "read"
    /\ wait' = [wait EXCEPT !.pc = "poll", !.generation = generation]
    /\ UNCHANGED <<clock, cancelled>>

-----------------------------------------------------------------------------
(* WaitState                                                                   *)

\* What the payload of an event says.  The matchers on URLs, labels, states and
\* generations are abstracted to whether the event is the one that is wanted.
Wanted(e) == e.tag = "wanted"
StartsRequest(e) == e.tag = "request" /\ e.request # None
Responds(e) == e.tag = "response" /\ e.request # None
FinishesRequest(e) == e.tag = "finished" /\ e.request # None
Mutates(e) == e.tag = "mutation"
SignalsResync(e) == e.resync

\* Mutant: the end of any request makes the network quiet.
ObserveNetworkForgetful(w, e) ==
    CASE e.tag = "request" -> [w EXCEPT !.active = @ \cup {e.request}, !.quiet = MaxTime + 1]
      [] e.tag = "finished" -> [w EXCEPT !.active = {}, !.quiet = clock]
      [] OTHER -> w

\* A request keeps the network busy from its start to its end.  Events without a
\* request id, and requests of the excluded kinds, do not count.
ObserveNetwork(w, e) ==
    CASE StartsRequest(e) /\ ~e.excluded ->
            [w EXCEPT !.active = @ \cup {e.request}, !.quiet = MaxTime + 1]
      [] FinishesRequest(e) ->
            [w EXCEPT !.active = @ \ {e.request},
                      !.quiet = IF w.active \subseteq {e.request} THEN clock ELSE @]
      [] OTHER -> w

\* Mutant: an early response is dropped.
ObserveResponseOnly(w, e) ==
    CASE e.tag = "request" -> [w EXCEPT !.requests = @ \cup {e.request}]
      [] e.tag = "response" /\ e.request \in w.requests -> [w EXCEPT !.matched = e.seq]
      [] OTHER -> w

\* A response that arrives before its request is kept until the request arrives.
ObserveResponse(w, e) ==
    CASE StartsRequest(e) ->
            [w EXCEPT !.requests = @ \cup {e.request},
                      !.responses = {x \in @ : x.request # e.request},
                      !.matched = IF \E x \in w.responses : x.request = e.request
                                  THEN (CHOOSE x \in w.responses : x.request = e.request).seq
                                  ELSE @]
      [] Responds(e) /\ e.request \in w.requests -> [w EXCEPT !.matched = e.seq]
      [] Responds(e) /\ e.request \notin w.requests ->
            [w EXCEPT !.responses = {x \in @ : x.request # e.request}
                                      \cup {[request |-> e.request, seq |-> e.seq]}]
      [] OTHER -> w

ObserveDom(w, e) == IF Mutates(e) THEN [w EXCEPT !.quiet = clock] ELSE w

Observe(w, e) ==
    LET noted == [w EXCEPT !.last = e.seq, !.observed = @ \cup {e.seq}] IN
    CASE w.condition = "network_idle" -> ObserveNetwork(noted, e)
      [] w.condition = "response" -> ObserveResponse(noted, e)
      [] w.condition = "stable_dom" -> ObserveDom(noted, e)
      [] OTHER -> IF Wanted(e) THEN [noted EXCEPT !.matched = e.seq] ELSE noted

Satisfied(w) ==
    \/ w.matched # 0
    \/ w.condition \in {"network_idle", "stable_dom"} /\ w.active = {} /\ clock >= w.quiet + Quiet

\* What a satisfied wait reports: the event that matched, else the last one observed.
Reported(w) == IF w.matched # 0 THEN w.matched ELSE w.last

-----------------------------------------------------------------------------
(* WaitEngine::poll and the loop around it                                     *)

Ended(w, outcome) == [w EXCEPT !.pc = "done", !.outcome = outcome, !.finished = TRUE]

\* A satisfied wait ends when it has an event to report.  One that has none is marked
\* finished all the same.
Settle(w) ==
    IF ~Satisfied(w) THEN w
    ELSE IF Reported(w) # 0 THEN Ended(w, "matched") ELSE [w EXCEPT !.finished = TRUE]

\* The events of a poll, in order, until the wait ends.
ObserveEvent(w, e) ==
    IF w.pc = "done" THEN w
    ELSE IF SignalsResync(e) THEN Ended(w, "lagged")
    ELSE Settle(Observe(w, e))

ObserveAll(w, events) ==
    LET after[n \in 0..Len(events)] == IF n = 0 THEN w ELSE ObserveEvent(after[n - 1], events[n])
    IN Settle(after[Len(events)])

\* Cancellation and deadline come before the events; nothing is done for a
\* registration that is finished.
PollRegistration(w) ==
    LET batch == Replay(w.router, w.cursor, w.scope) IN
    IF w.finished THEN w
    ELSE IF cancelled THEN Ended(w, "cancelled")
    ELSE IF clock >= w.deadline THEN Ended(w, "timeout")
    ELSE IF ~batch.accepted THEN Ended(w, "lagged")
    ELSE ObserveAll([w EXCEPT !.cursor.seq = batch.seq], batch.events)

\* The broker's events after the wait's cursor are read into the wait's router under
\* the broker lock; then the registration is polled, and the thread goes to sleep if
\* the wait is not over.
Poll ==
    /\ wait.pc = "poll"
    /\ LET batch == ResumeEvents(wait.cursor, wait.scope)
           fed == [wait EXCEPT !.router = IngestBatch(@, batch, MaxWaitEvents)]
           polled == PollRegistration(fed)
       IN wait' = IF polled.pc = "done" THEN polled ELSE [polled EXCEPT !.pc = "sleep", !.polled = clock]
    /\ UNCHANGED <<clock, cancelled>>

\* The thread wakes when the generation has changed, or after a probe interval; the
\* loop then looks at the token once more.
Wake ==
    /\ wait.pc = "sleep"
    /\ wait' = IF cancelled THEN Ended(wait, "cancelled") ELSE [wait EXCEPT !.pc = "read"]
    /\ UNCHANGED <<clock, cancelled>>

Cancel ==
    /\ wait.pc \in {"read", "poll", "sleep"} /\ ~cancelled /\ cancelled' = TRUE
    /\ UNCHANGED <<clock, wait>>

Tick == clock < MaxTime /\ clock' = clock + 1 /\ UNCHANGED <<cancelled, wait>>

-----------------------------------------------------------------------------
\* The host is gone and its waits with it; the clock of the next one starts again.
RestartHost == HostRestart /\ clock' = 0 /\ cancelled' = FALSE /\ wait' = NoWait

ReaderNext ==
    \/ \E t \in Templates : AppendEvent(t) /\ UNCHANGED waitVars
    \/ \E n \in ReadLimits : ReadEvents(n) /\ UNCHANGED waitVars
    \/ RestartHost

WaitNext(conditions, templates) ==
    \/ \E t \in templates : AppendEvent(t) /\ UNCHANGED waitVars
    \/ \E c \in conditions, s \in Scopes, q \in {Cursor} \cup Quotable :
           Register(c, s, q) /\ UNCHANGED eventVars
    \/ (ReadGeneration \/ Poll \/ Wake \/ Cancel \/ Tick) /\ UNCHANGED eventVars

\* A client that reads, and one that waits for any of the conditions.
WaitSpec ==
    /\ EventInit /\ WaitInit
    /\ [][ReaderNext \/ WaitNext(Conditions, Templates)]_<<eventVars, waitVars>>

-----------------------------------------------------------------------------
\* A wait that is not over has observed every event after the cursor it was registered
\* at that its scope and its principal's spaces admit, or a later one the event was
\* merged into, and no event of a space hidden from the principal.  The wait's own router
\* is given the admitted events alone, so it merges over the ones that are left out.
WaitMissesNothing ==
    wait.pc \in {"read", "poll", "sleep"} /\ wait.from.epoch = epoch =>
        /\ \A i \in wait.observed : log[i].scope.space \in Visible \cup {None}
        /\ \A i \in DueBetween(wait.from.seq, wait.cursor.seq, wait.scope) :
              \E j \in wait.observed :
                  i = j \/ MergedInto(i, j, DueBetween(0, Len(log), wait.scope))

\* Neither a client that waits nor one that reads loses an event of the stream (the
\* latter as long as its limits are not below what has come in since its last read).
StreamMissesNothing == WaitMissesNothing /\ ReaderMissesNothing

\* A thread that sleeps and has not been notified since it read the generation has
\* seen the last event there is: no commit slips between the read and the sleep.
SleeperIsCurrent ==
    wait.pc = "sleep" /\ ~wait.finished /\ wait.generation = generation =>
        wait.cursor.seq = Len(log)

\* A response and its request settle the wait, in whichever order they are delivered.
ResponseCorrelated ==
    wait.pc \in {"read", "poll", "sleep"} /\ wait.condition = "response" =>
        ~\E i, j \in wait.observed : /\ log[i].tag = "request" /\ log[j].tag = "response"
                                      /\ log[i].request = log[j].request /\ log[i].request # None

\* A wait that reports network idle reports it at an event up to which every request
\* that was started in its scope since the registration has ended.
IdleIsQuiet ==
    wait.pc = "done" /\ wait.outcome = "matched" /\ wait.condition = "network_idle" =>
        \A i \in DueBetween(wait.from.seq, Reported(wait), wait.scope) :
            log[i].tag = "request" /\ log[i].request # None /\ ~log[i].excluded =>
                \E j \in i + 1..Reported(wait) :
                    log[j].tag = "finished" /\ log[j].request = log[i].request

\* A wait is told that its history is gone only when it is: its cursor is of another
\* epoch or of the future, the ledger has dropped the next event, the broker's stream
\* is closed by a resync, or a batch was larger than the wait's own retention.
LaggedMeansLost ==
    wait.pc = "done" /\ wait.outcome = "lagged" =>
        \/ wait.cursor.epoch # epoch \/ wait.cursor.seq > Len(log)
        \/ HistoryLagged(wait.cursor.seq) \/ router.resync
        \/ Len(log) - wait.cursor.seq > MaxWaitEvents

\* A wait that is still pending after a poll was polled before its deadline: the
\* deadline ends every wait ("no matching event has arrived and the deadline has not
\* elapsed").
PendingBeforeDeadline == wait.pc = "sleep" => wait.polled < wait.deadline
=============================================================================
