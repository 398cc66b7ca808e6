------------------------------ MODULE Snapshots ------------------------------
(* Snapshots of pages and the element references issued from them.  A snapshot *)
(* is kept twice, as a durable record in the ledger and in a cache in memory;  *)
(* page generations come from the browser in events and in observations, each  *)
(* of which may be late.  (agentyc-host/src/snapshots.rs, refs.rs and          *)
(* actionability.rs, and their callers in broker.rs.)  The lease that every    *)
(* one of these calls proves first is the subject of BrokerLease.              *)
EXTENDS Integers, Sequences

CONSTANTS
    SnapPages,      \* the pages of one space
    Frames,         \* the frames of a page
    MaxRefs,        \* RefRegistryLimits::max_active_refs
    MaxChanges      \* bound: changes of one page

ASSUME SnapshotAssumption == MaxRefs \in Nat \ {0} /\ MaxChanges \in Nat

VARIABLES
    live,       \* the browser: target, document and content of every page
    known,      \* the ledger: the generations of every page, and whether it is bound
    record,     \* the ledger: LedgerState::snapshots
    cache,      \* BrokerInner.snapshot_cache, the entry that its legacy index names
    refs,       \* BrokerInner.ref_registry: the active references, oldest first
    told,       \* history: the content of the page when the broker last heard of a change
    scan        \* a read_snapshot under way

snapVars == <<live, known, record, cache, refs, told, scan>>

NoSnapshot == [dom |-> 0]
NoScan == [pc |-> "idle"]

SnapInit ==
    /\ live = [p \in SnapPages |-> [target |-> 1, doc |-> 1, dom |-> 1]]
    /\ known = [p \in SnapPages |-> [target |-> 1, doc |-> 1, bound |-> TRUE]]
    /\ record = [p \in SnapPages |-> NoSnapshot]
    /\ cache = [p \in SnapPages |-> NoSnapshot]
    /\ refs = <<>> /\ told = [p \in SnapPages |-> 1]
    /\ scan = NoScan

\* The generations the ledger holds a page to be at.
Generation(p) == [target |-> known[p].target, doc |-> known[p].doc]

-----------------------------------------------------------------------------
(* The browser                                                                 *)

\* The page's content changes, in the same document, in a new one, or because the
\* tab's target is replaced.
PageChanges(p) ==
    /\ live[p].dom < MaxChanges
    /\ \E t, d \in 0..1 :
           live' = [live EXCEPT ![p] = [target |-> @.target + t, doc |-> @.doc + d, dom |-> @.dom + 1]]
    /\ UNCHANGED <<known, record, cache, refs, told, scan>>

-----------------------------------------------------------------------------
(* RefRegistry                                                                 *)

Active == {refs[i] : i \in 1..Len(refs)}

\* Registered: the oldest reference goes when the registry is full.
Registered(r) == Append(IF Len(refs) < MaxRefs THEN refs ELSE Tail(refs), r)

\* invalidate_matching: the registry with the references of a set and no other, in
\* their order.
Only(rs) ==
    LET kept[i \in 0..Len(refs)] ==
            IF i = 0 THEN <<>>
            ELSE IF refs[i] \in rs THEN Append(kept[i - 1], refs[i]) ELSE kept[i - 1]
    IN kept[Len(refs)]

\* The registry without the references of a page, or of some frames of it.
WithoutPage(p) == Only({r \in Active : r.page # p})
WithoutFrames(p, frames) == Only({r \in Active : r.page # p \/ r.frame \notin frames})

\* SnapshotCache::mark_key_dirty for the entries of one page.
Dirtied(c) == IF c = NoSnapshot THEN c ELSE [c EXCEPT !.clean = FALSE]

-----------------------------------------------------------------------------
(* What the broker hears of the browser                                        *)

\* apply_bridge_event for one page: generations, each of which the event may leave out,
\* only move forward, and a lost target unbinds the page; whatever changes the page or
\* its content invalidates the refs of the page or of the frame the event names, the
\* cache entry, and the durable snapshots of the whole space.
BridgeEvent(p) ==
    /\ \E t \in {0, live[p].target}, d \in {0, live[p].doc}, lost \in BOOLEAN :
           known' = [known EXCEPT ![p] =
                        [target |-> IF t > @.target THEN t
                                    ELSE IF lost /\ t = 0 /\ @.bound THEN @.target + 1 ELSE @.target,
                         doc |-> IF d > @.doc THEN d
                                 ELSE IF lost /\ t = 0 /\ @.bound THEN @.doc + 1 ELSE @.doc,
                         bound |-> @.bound /\ ~lost]]
    /\ \E frames \in {Frames} \cup {{f} : f \in Frames} : refs' = WithoutFrames(p, frames)
    /\ cache' = [cache EXCEPT ![p] = Dirtied(@)]
    /\ record' = [q \in SnapPages |-> NoSnapshot]
    /\ told' = [told EXCEPT ![p] = live[p].dom]
    /\ UNCHANGED <<live, scan>>

\* A reconnect or a new browser session: no ref and no snapshot survives it.
GlobalEvent ==
    /\ refs' = <<>>
    /\ cache' = [p \in SnapPages |-> Dirtied(cache[p])]
    /\ record' = [p \in SnapPages |-> NoSnapshot]
    /\ told' = [p \in SnapPages |-> live[p].dom]
    /\ UNCHANGED <<live, known, scan>>

\* Mutant: an observation that is older in one generation is applied all the same.
AdvancesInOne(seen, p) ==
    known[p].bound /\ (seen[p].target > known[p].target \/ seen[p].doc > known[p].doc)

\* reconcile_bridge_pages with an observation: pages that are bound move forward, never
\* back, and lose their durable snapshot when they do.
Advances(seen, p) ==
    /\ known[p].bound
    /\ seen[p].target >= known[p].target /\ seen[p].doc >= known[p].doc
    /\ seen[p].target > known[p].target \/ seen[p].doc > known[p].doc

Reconciled(seen) ==
    [p \in SnapPages |-> IF Advances(seen, p)
                         THEN [known[p] EXCEPT !.target = seen[p].target, !.doc = seen[p].doc]
                         ELSE known[p]]

\* mark_snapshot_dirty, by the client: the durable record decides whether anything is
\* marked at all.
MarkDirty(p) ==
    /\ known[p].bound
    /\ IF record[p] = NoSnapshot
       THEN UNCHANGED <<record, cache, refs>>
       ELSE /\ record' = [record EXCEPT ![p].dirty = TRUE]
            /\ cache' = [cache EXCEPT ![p] = Dirtied(@)]
            /\ refs' = WithoutPage(p)
    /\ told' = [told EXCEPT ![p] = live[p].dom]
    /\ UNCHANGED <<live, known, scan>>

\* The host is degraded: refs and durable snapshots go.
Degrade ==
    /\ refs' = <<>> /\ record' = [p \in SnapPages |-> NoSnapshot]
    /\ UNCHANGED <<live, known, cache, told, scan>>

\* The host restarts: the registry is empty and the cache is filled from the ledger.
Reopen ==
    /\ refs' = <<>> /\ scan' = NoScan
    /\ cache' = [p \in SnapPages |->
                    IF record[p] # NoSnapshot /\ ~record[p].dirty
                    THEN [doc |-> record[p].doc, dom |-> record[p].dom, clean |-> TRUE] ELSE NoSnapshot]
    /\ UNCHANGED <<live, known, record, told>>

-----------------------------------------------------------------------------
(* read_snapshot                                                               *)

\* What a read answers without asking the browser, if anything: the cache entry when it
\* is clean, of the page's document, and the ledger holds no dirty record; else the
\* ledger's record when it is clean and of the page's generations.
FromCache(p) ==
    /\ cache[p] # NoSnapshot /\ cache[p].clean /\ cache[p].doc = known[p].doc
    /\ record[p] = NoSnapshot \/ ~record[p].dirty

FromLedger(p) ==
    record[p] # NoSnapshot /\ ~record[p].dirty
    /\ [target |-> record[p].target, doc |-> record[p].doc] = Generation(p)

Servable(p) == known[p].bound /\ (FromCache(p) \/ FromLedger(p))
Served(p) == IF FromCache(p) THEN cache[p].dom ELSE record[p].dom

\* A miss: the live inventory is observed,
ScanObserve(p) ==
    /\ scan.pc = "idle" /\ known[p].bound /\ ~Servable(p)
    /\ scan' = [pc |-> "observed", page |-> p, seen |-> live]
    /\ UNCHANGED <<live, known, record, cache, refs, told>>

\* reconciled, and the authoritative generation is read,
ScanReconcile ==
    /\ scan.pc = "observed"
    /\ known' = Reconciled(scan.seen)
    /\ record' = [p \in SnapPages |-> IF Advances(scan.seen, p) THEN NoSnapshot ELSE record[p]]
    /\ scan' = [pc |-> "reconciled", page |-> scan.page,
                gen |-> [target |-> known'[scan.page].target, doc |-> known'[scan.page].doc]]
    /\ UNCHANGED <<live, cache, refs, told>>

\* the page is scanned,
ScanPage ==
    /\ scan.pc = "reconciled"
    /\ scan' = [pc |-> "scanned", page |-> scan.page, gen |-> scan.gen,
                doc |-> live[scan.page].doc, dom |-> live[scan.page].dom]
    /\ UNCHANGED <<live, known, record, cache, refs, told>>

\* Mutant: the generation is not read again.
ScanUnchecked == known[scan.page].bound

\* and the result is kept if the page is still at that generation, else refused.
ScanCurrent ==
    LET p == scan.page IN
    known[p].bound /\ Generation(p) = scan.gen /\ scan.doc = known[p].doc

ScanCommit ==
    /\ scan.pc = "scanned" /\ scan' = NoScan
    /\ LET p == scan.page IN
       IF ScanCurrent
       THEN /\ record' = [record EXCEPT ![p] = [target |-> known[p].target, doc |-> known[p].doc,
                                                dom |-> scan.dom, dirty |-> FALSE,
                                                from |-> scan.doc]]
            /\ \/ cache' = [cache EXCEPT ![p] = [doc |-> scan.doc, dom |-> scan.dom, clean |-> TRUE]]
               \/ UNCHANGED cache       \* the cache is full, which is not an error
       ELSE UNCHANGED <<record, cache>>
    /\ UNCHANGED <<live, known, refs, told>>

\* put_snapshot: a client seeds an envelope it holds, of the page's document; refs of any
\* other snapshot of the page go.
PutSnapshot(p) ==
    /\ known[p].bound /\ live[p].doc = known[p].doc
    /\ record' = [record EXCEPT ![p] = [target |-> known[p].target, doc |-> known[p].doc,
                                        dom |-> live[p].dom, dirty |-> FALSE, from |-> live[p].doc]]
    /\ cache' = [cache EXCEPT ![p] = [doc |-> known[p].doc, dom |-> live[p].dom, clean |-> TRUE]]
    /\ refs' = Only({r \in Active : r.page # p \/ (r.dom = live[p].dom /\ r.doc = known[p].doc)})
    /\ UNCHANGED <<live, known, told, scan>>

-----------------------------------------------------------------------------
(* Element references and the actions that carry them                          *)

\* issue_ref: only a clean record of the page's generations gives references.
IssueRef(p, f) ==
    /\ known[p].bound /\ FromLedger(p)
    /\ refs' = Registered([page |-> p, frame |-> f, doc |-> record[p].doc, dom |-> record[p].dom,
                           from |-> record[p].from])
    /\ UNCHANGED <<live, known, record, cache, told, scan>>

\* A reference expires, or is resolved with a provenance that is not its own.
DropRef(i) ==
    /\ refs' = [j \in 1..Len(refs) - 1 |-> IF j < i THEN refs[j] ELSE refs[j + 1]]
    /\ UNCHANGED <<live, known, record, cache, told, scan>>

\* ActionabilityInput::validate_for_page: the ref is of the page's document, and the
\* current record of the page, dirty or not, has the hash the ref was issued from.
ValidForPage(r) ==
    /\ known[r.page].bound /\ r.doc = known[r.page].doc
    /\ record[r.page] # NoSnapshot /\ record[r.page].dom = r.dom

\* check_with_registry: the registry knows the ref, with this provenance.  The evidence on
\* visibility, layout and hit target is the client's word, which may refuse any action.
RegistryKnows(r) == r \in Active

\* validate_actionability_for_state.
Actionable(r) == RegistryKnows(r) /\ ValidForPage(r)

\* An element action is let through, is dispatched, and dirties the page.
ActOnElement(r) ==
    /\ Actionable(r)
    /\ refs' = WithoutPage(r.page)
    /\ cache' = [cache EXCEPT ![r.page] = Dirtied(@)]
    /\ record' = [record EXCEPT ![r.page] = IF @ = NoSnapshot THEN @ ELSE [@ EXCEPT !.dirty = TRUE]]
    /\ told' = [told EXCEPT ![r.page] = live[r.page].dom]
    /\ UNCHANGED <<live, known, scan>>

SnapNext ==
    \/ \E p \in SnapPages : \/ PageChanges(p) \/ BridgeEvent(p) \/ MarkDirty(p)
                            \/ ScanObserve(p) \/ PutSnapshot(p)
                            \/ \E f \in Frames : IssueRef(p, f)
    \/ GlobalEvent \/ Degrade \/ Reopen \/ ScanReconcile \/ ScanPage \/ ScanCommit
    \/ \E i \in DOMAIN refs : DropRef(i) \/ ActOnElement(refs[i])

SnapSpec == SnapInit /\ [][SnapNext]_snapVars

-----------------------------------------------------------------------------
\* The generations of a page that the ledger holds never move back, however late the
\* observations and the events that carry them are.
GenerationsMonotone ==
    [][\A p \in SnapPages : /\ known'[p].target >= known[p].target
                            /\ known'[p].doc >= known[p].doc]_known

\* An element action that is let through carries a ref to an element that was scanned
\* from the very document the ledger holds the page to be at: no ref outlives a
\* navigation, whichever of a scan, an event and an observation arrives first, and no
\* scan of another document gives refs.
ActsOnCurrentDocument == \A r \in Active : Actionable(r) => r.from = known[r.page].doc

\* A read that answers from the cache answers with a snapshot that is not older than
\* the last change the broker was told of ("a clean read", "mark a cached page dirty").
CleanIsCurrent == \A p \in SnapPages : Servable(p) => Served(p) >= told[p]
=============================================================================
