----------------------------- MODULE EventRouter -----------------------------
(* The broker's event stream.  Every committed transaction appends events to   *)
(* the durable ledger, which keeps the last max_events; a router in memory     *)
(* follows the ledger, coalesces adjacent notifications of one page and serves *)
(* the cursors of clients.  (agentyc-host/src/event_router.rs, and the event   *)
(* half of broker.rs.)                                                         *)
EXTENDS Integers, Sequences, FiniteSets, SequencesExt

CONSTANTS
    None,           \* the missing half of a scope
    Visible,        \* the spaces the client of this model may see
    Scopes,         \* the scopes a client asks for
    Templates,      \* the events the broker appends, without their sequence numbers
    MaxEvents,      \* LedgerLimits::max_events, also the retention of the router
    ReadLimits,     \* the limits a client gives with events.read
    MaxSequence,    \* bound: events per broker epoch
    MaxEpoch        \* bound: broker epochs

ASSUME EventAssumption ==
    /\ MaxEvents \in Nat \ {0} /\ MaxSequence \in Nat /\ MaxEpoch \in Nat \ {0}
    /\ \A t \in Templates : t.resync \in BOOLEAN

VARIABLES
    epoch,          \* broker_epoch
    log,            \* every event of this epoch; the ledger keeps a suffix of it
    router,         \* BrokerInner.event_router
    generation,     \* EventNotifications.generation
    reader          \* a client of events.read: its cursor, the one it started from, what it
                    \* has been given since, and whether a batch was cut to its limit

eventVars == <<epoch, log, router, generation, reader>>

Global == [space |-> None, page |-> None]

\* The elements of a sequence that are in a set, in their order.
Chosen(s, set) ==
    LET kept[i \in 0..Len(s)] ==
            IF i = 0 THEN <<>>
            ELSE IF s[i] \in set THEN Append(kept[i - 1], s[i]) ELSE kept[i - 1]
    IN kept[Len(s)]

\* The last n elements: what draining the front of a bounded queue leaves.
Newest(s, n) == SubSeq(s, (IF Len(s) > n THEN Len(s) - n ELSE 0) + 1, Len(s))

Cursor == [epoch |-> epoch, seq |-> Len(log)]

\* The events the ledger still holds after Ledger::update has drained the oldest.
Durable == Newest(log, MaxEvents)

-----------------------------------------------------------------------------
(* EventRouter                                                                 *)

\* A router that starts at a cursor.
RouterAt(cursor) ==
    [epoch |-> cursor.epoch, seq |-> cursor.seq, events |-> <<>>, starts |-> <<>>,
     seen |-> <<>>, resync |-> FALSE]

RequireResync(r) == [r EXCEPT !.resync = TRUE]

\* Adjacent page and snapshot notifications of one scope and one source merge,
\* whatever their payloads say.
Coalescible(e) == e.kind \in {"page.changed", "snapshot.changed"}

Coalesces(r, e) ==
    /\ r.events # <<>> /\ Coalescible(e)
    /\ LET last == Last(r.events) IN
           last.kind = e.kind /\ last.scope = e.scope /\ last.source = e.source

\* One event: duplicates are dropped, anything but the next number is a gap, and an
\* event that announces a resync is kept and closes the stream.  A merged event
\* takes the place of the last one and keeps that one's first sequence number.
Ingest(r, e, limit) ==
    LET taken == [r EXCEPT !.seq = e.seq, !.resync = e.resync,
                           !.seen = Newest(Append(@, e.seq), limit)] IN
    IF e.epoch # r.epoch THEN RequireResync(r)
    ELSE IF e.seq \in ToSet(r.seen) \/ r.resync THEN r
    ELSE IF e.seq # r.seq + 1 THEN RequireResync(r)
    ELSE IF Coalesces(r, e) THEN [taken EXCEPT !.events[Len(r.events)] = e]
    ELSE [taken EXCEPT !.events = Newest(Append(@, e), limit),
                       !.starts = Newest(Append(@, e.seq), limit)]

\* An event is for a scope that names its space and page, or leaves them open; a global
\* demand to resynchronize is for every scope.
ScopeMatches(e, requested) ==
    \/ e.resync /\ e.scope = Global
    \/ /\ requested.space = None \/ e.scope.space = requested.space
       /\ requested.page = None \/ e.scope.page = requested.page

\* Events after a cursor, or the demand to resynchronize: the router itself is out of
\* step, the cursor is of another epoch or of the future, or the oldest event that is
\* retained began after the one the cursor expects next.
Replay(r, after, scope) ==
    IF \/ r.resync \/ after.epoch # r.epoch \/ after.seq > r.seq
       \/ r.starts # <<>> /\ after.seq + 1 < Head(r.starts)
    THEN [accepted |-> FALSE, epoch |-> r.epoch, events |-> <<>>, seq |-> r.seq]
    ELSE [accepted |-> TRUE, epoch |-> r.epoch, seq |-> r.seq,
          events |-> Chosen(r.events, {e \in ToSet(r.events) :
                                          e.seq > after.seq /\ ScopeMatches(e, scope)})]

\* A batch of another router: what the batch leaves out is skipped, not missed.
IngestNext(r, e, limit) ==
    IF r.resync THEN r
    ELSE Ingest(IF e.seq > r.seq + 1 THEN [r EXCEPT !.seq = e.seq - 1] ELSE r, e, limit)

IngestAll(r, events, limit) ==
    LET fed[n \in 0..Len(events)] == IF n = 0 THEN r ELSE IngestNext(fed[n - 1], events[n], limit)
    IN fed[Len(events)]

IngestBatch(r, batch, limit) ==
    LET all == IngestAll(r, batch.events, limit) IN
    IF batch.epoch # r.epoch \/ batch.seq < r.seq \/ ~batch.accepted
    THEN RequireResync(r)
    ELSE IF ~all.resync /\ batch.seq > all.seq THEN [all EXCEPT !.seq = batch.seq] ELSE all

-----------------------------------------------------------------------------
(* The broker                                                                  *)

\* A fresh ledger, and a router built from it.
EventInit ==
    /\ epoch = 1 /\ log = <<>> /\ generation = 0
    /\ router = RouterAt(Cursor)
    /\ reader = [cursor |-> Cursor, base |-> Cursor, got |-> {}, cut |-> FALSE]

\* append_event: the record of the next number.
Numbered(t) ==
    [epoch |-> epoch, seq |-> Len(log) + 1, scope |-> t.scope, kind |-> t.kind,
     source |-> t.source, tag |-> t.tag, request |-> t.request, excluded |-> t.excluded,
     resync |-> t.resync]

\* Mutant: a commit that wakes nobody.
AppendQuietly(t) ==
    /\ Len(log) < MaxSequence
    /\ log' = Append(log, Numbered(t)) /\ router' = Ingest(router, Numbered(t), MaxEvents)
    /\ UNCHANGED <<epoch, generation, reader>>

\* One transaction that appends an event: it is numbered, the router follows the
\* ledger before the broker lock is released, and sleeping waits are woken.
AppendEvent(t) ==
    /\ Len(log) < MaxSequence
    /\ log' = Append(log, Numbered(t))
    /\ router' = Ingest(router, Numbered(t), MaxEvents)
    /\ generation' = generation + 1
    /\ UNCHANGED <<epoch, reader>>

\* The oldest event kept is later than the one the cursor expects next.
HistoryLagged(seq) ==
    IF Durable = <<>> THEN Len(log) > seq ELSE seq + 1 < Head(Durable).seq

\* Mutant: hidden spaces are not left out.
ResumeUnfiltered(after, scope) ==
    IF after.epoch # epoch \/ after.seq > Len(log) \/ HistoryLagged(after.seq)
    THEN [accepted |-> FALSE, epoch |-> epoch, events |-> <<>>, seq |-> Len(log)]
    ELSE [Replay(router, after, scope) EXCEPT !.epoch = epoch, !.seq = Len(log)]

\* resume_events: the ledger decides whether the cursor is good, the router gives the
\* events, and those of spaces hidden from the principal are left out.
ResumeEvents(after, scope) ==
    LET lagged == after.epoch # epoch \/ after.seq > Len(log) \/ HistoryLagged(after.seq)
        batch == Replay(router, after, scope)
    IN IF lagged
       THEN [accepted |-> FALSE, epoch |-> epoch, events |-> <<>>, seq |-> Len(log)]
       ELSE [batch EXCEPT !.epoch = epoch, !.seq = Len(log),
                !.events = Chosen(@, {e \in ToSet(@) : e.scope.space \in Visible \cup {None}})]

\* events.read: the batch is cut to the client's limit, the cursor it is given is the
\* one of the whole batch.
ReadEvents(limit) ==
    /\ LET batch == ResumeEvents(reader.cursor, Global)
           given == SubSeq(batch.events, 1, IF limit < Len(batch.events) THEN limit ELSE Len(batch.events))
           next == [epoch |-> batch.epoch, seq |-> batch.seq]
       IN reader' = IF batch.accepted
                    THEN [reader EXCEPT !.cursor = next, !.got = @ \cup {e.seq : e \in ToSet(given)},
                                        !.cut = @ \/ limit < Len(batch.events)]
                    ELSE [cursor |-> next, base |-> next, got |-> {}, cut |-> FALSE]   \* it starts over
    /\ UNCHANGED <<epoch, log, router, generation>>

\* The host restarts: a new epoch, no events, a router built from the ledger.
HostRestart ==
    /\ epoch < MaxEpoch
    /\ epoch' = epoch + 1 /\ log' = <<>> /\ generation' = 0
    /\ router' = RouterAt([epoch |-> epoch + 1, seq |-> 0])
    /\ UNCHANGED reader

-----------------------------------------------------------------------------
\* Event number i was merged into event number j by a router that was given the events
\* "among": all of those from i to j would merge.
MergedInto(i, j, among) ==
    /\ i <= j
    /\ \A k \in among \cap i..j :
           /\ Coalescible(log[k]) /\ log[k].kind = log[i].kind
           /\ log[k].scope = log[i].scope /\ log[k].source = log[i].source

\* The events after one cursor and up to another that a client must be given.
DueBetween(from, to, scope) ==
    {i \in from + 1..to : /\ log[i].scope.space \in Visible \cup {None}
                          /\ ScopeMatches(log[i], scope)}

\* The cursor that a client is given when it must resynchronize, which is the current
\* one, is accepted when the client then resumes from it ("safe as a new registration
\* point").  The router is never reset after an event that asks for a resync.
FreshCursorAccepted == ResumeEvents(Cursor, Global).accepted

\* A client that continues from the cursor of its last events.read has been given
\* every event up to that cursor, or a later one that the event was merged into
\* ("at-least-once replay semantics").
ReadsComplete ==
    reader.cursor.epoch = epoch =>
        \A i \in DueBetween(reader.base.seq, reader.cursor.seq, Global) :
            \E j \in reader.got : j <= Len(log) /\ (i = j \/ MergedInto(i, j, 1..Len(log)))

\* So it is as long as no batch was larger than the client's limit.
ReaderMissesNothing == ~reader.cut => ReadsComplete
=============================================================================
