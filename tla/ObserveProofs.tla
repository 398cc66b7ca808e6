---------------------------- MODULE ObserveProofs ----------------------------
(* Proofs about what clients observe: the generations of pages and the element  *)
(* references that actions carry; then the event stream, which the broker's     *)
(* router, a reader's cursor and a wait's own router follow without a loss.     *)
EXTENDS Waits, Snapshots, InductionProofs

-----------------------------------------------------------------------------
(* Snapshots and references.                                                   *)

Generations == [target : Nat, doc : Nat]
LivePages == [SnapPages -> [target : Nat, doc : Nat, dom : Nat]]
KnownPages == [SnapPages -> [target : Nat, doc : Nat, bound : BOOLEAN]]
Records == [target : Nat, doc : Nat, dom : Nat, dirty : BOOLEAN, from : Nat]
References == [page : SnapPages, frame : Frames, doc : Nat, dom : Nat, from : Nat]

\* A reference is of the document its element was scanned from.
TrueRefs == {r \in References : r.from = r.doc}

ScanType ==
    \/ scan = NoScan
    \/ scan \in [pc : {"observed"}, page : SnapPages, seen : LivePages]
    \/ scan \in [pc : {"reconciled"}, page : SnapPages, gen : Generations]
    \/ scan \in [pc : {"scanned"}, page : SnapPages, gen : Generations, doc : Nat, dom : Nat]

PagesType == live \in LivePages /\ known \in KnownPages

\* A durable snapshot was scanned from the document it is recorded for.
RecordInv ==
    /\ DOMAIN record = SnapPages
    /\ \A p \in SnapPages :
           record[p] = NoSnapshot \/ (record[p] \in Records /\ record[p].from = record[p].doc)

RefsInv == refs \in Seq(TrueRefs)

SnapInv == PagesType /\ ScanType /\ RecordInv /\ RefsInv

\* What is left of the registry are references that were in it.
LEMMA OnlyKeeps == RefsInv => \A rs : Only(rs) \in Seq(TrueRefs)
  <1> SUFFICES ASSUME RefsInv, NEW rs PROVE Only(rs) \in Seq(TrueRefs)
    OBVIOUS
  <1>1. Only(rs) = (CHOOSE kept : IsFilter(kept, refs, rs))[Len(refs)]
    BY Zenon DEF Only, IsFilter
  <1>2. refs \in Seq(TrueRefs)
    BY DEF RefsInv
  <1>3. \E kept : IsFilter(kept, refs, rs)
    BY <1>2, FilterExists
  <1>4. PICK kept : IsFilter(kept, refs, rs) /\ Only(rs) = kept[Len(refs)]
    BY <1>1, <1>3, Zenon
  <1>5. Len(refs) \in 0..Len(refs)
    BY <1>2
  <1>6. Only(rs) \in Seq(TrueRefs \cap rs)
    BY <1>2, <1>4, <1>5, FilterType
  <1> QED
    BY <1>6

\* The generations of a page only grow, by any step.
LEMMA KnownStep ==
    SnapInv /\ [SnapNext]_snapVars =>
        /\ known' \in KnownPages
        /\ \A p \in SnapPages : /\ known'[p].target >= known[p].target
                                /\ known'[p].doc >= known[p].doc
  <1> SUFFICES ASSUME SnapInv, [SnapNext]_snapVars
               PROVE  /\ known' \in KnownPages
                      /\ \A p \in SnapPages : /\ known'[p].target >= known[p].target
                                              /\ known'[p].doc >= known[p].doc
    OBVIOUS
  <1>0. known \in KnownPages /\ live \in LivePages
    BY DEF SnapInv, PagesType
  <1>1. CASE UNCHANGED known
    BY <1>0, <1>1 DEF KnownPages
  <1>2. ASSUME NEW p \in SnapPages, BridgeEvent(p)
        PROVE  /\ known' \in KnownPages
               /\ \A q \in SnapPages : /\ known'[q].target >= known[q].target
                                       /\ known'[q].doc >= known[q].doc
    <2>1. PICK t \in {0, live[p].target}, d \in {0, live[p].doc}, lost \in BOOLEAN :
              known' = [known EXCEPT ![p] =
                        [target |-> IF t > @.target THEN t
                                    ELSE IF lost /\ t = 0 /\ @.bound THEN @.target + 1 ELSE @.target,
                         doc |-> IF d > @.doc THEN d
                                 ELSE IF lost /\ t = 0 /\ @.bound THEN @.doc + 1 ELSE @.doc,
                         bound |-> @.bound /\ ~lost]]
      BY <1>2 DEF BridgeEvent
    <2>2. t \in Nat /\ d \in Nat /\ known[p].target \in Nat /\ known[p].doc \in Nat
          /\ known[p].bound \in BOOLEAN
      BY <1>0 DEF KnownPages, LivePages
    <2>3. PICK nt \in Nat, nd \in Nat, nb \in BOOLEAN :
              /\ nt >= known[p].target /\ nd >= known[p].doc
              /\ known' = [known EXCEPT ![p] = [target |-> nt, doc |-> nd, bound |-> nb]]
      <3> DEFINE nt == IF t > known[p].target THEN t
                       ELSE IF lost /\ t = 0 /\ known[p].bound THEN known[p].target + 1
                       ELSE known[p].target
                 nd == IF d > known[p].doc THEN d
                       ELSE IF lost /\ t = 0 /\ known[p].bound THEN known[p].doc + 1
                       ELSE known[p].doc
                 nb == known[p].bound /\ ~lost
      <3>1. known' = [known EXCEPT ![p] = [target |-> nt, doc |-> nd, bound |-> nb]]
        BY <2>1, Zenon
      <3>2. nt \in Nat /\ nt >= known[p].target
        BY <2>2
      <3>3. nd \in Nat /\ nd >= known[p].doc
        BY <2>2
      <3>4. nb \in BOOLEAN
        BY <2>2
      <3> HIDE DEF nt, nd, nb
      <3> QED
        BY <3>1, <3>2, <3>3, <3>4
    <2> QED
      BY <1>0, <2>3 DEF KnownPages
  <1>3. CASE ScanReconcile
    <2>1. scan.pc = "observed" /\ known' = Reconciled(scan.seen)
      BY <1>3 DEF ScanReconcile
    <2>2. scan.seen \in LivePages
      BY <2>1 DEF SnapInv, ScanType, NoScan
    <2>3. PICK seen \in LivePages : known' = Reconciled(seen)
      BY <2>1, <2>2
    <2>4. ASSUME NEW p \in SnapPages
          PROVE  /\ known'[p] \in [target : Nat, doc : Nat, bound : BOOLEAN]
                 /\ known'[p].target >= known[p].target /\ known'[p].doc >= known[p].doc
      <3>1. known'[p] = IF Advances(seen, p)
                        THEN [known[p] EXCEPT !.target = seen[p].target, !.doc = seen[p].doc]
                        ELSE known[p]
        BY <2>3 DEF Reconciled
      <3>2. known[p] \in [target : Nat, doc : Nat, bound : BOOLEAN] /\ seen[p] \in [target : Nat, doc : Nat, dom : Nat]
        BY <1>0 DEF KnownPages, LivePages
      <3>3. CASE Advances(seen, p)
        BY <3>1, <3>2, <3>3 DEF Advances
      <3>4. CASE ~Advances(seen, p)
        BY <3>1, <3>2, <3>4
      <3> QED
        BY <3>3, <3>4
    <2>5. known' = [p \in SnapPages |-> known'[p]]
      BY <2>3 DEF Reconciled
    <2> QED
      BY <2>4, <2>5 DEF KnownPages
  <1>4. ASSUME NEW p \in SnapPages,
               \/ PageChanges(p) \/ MarkDirty(p) \/ ScanObserve(p) \/ PutSnapshot(p)
               \/ \E f \in Frames : IssueRef(p, f)
        PROVE  UNCHANGED known
    BY <1>4 DEF PageChanges, MarkDirty, ScanObserve, PutSnapshot, IssueRef
  <1>5. ASSUME \/ GlobalEvent \/ Degrade \/ Reopen \/ ScanPage \/ ScanCommit \/ UNCHANGED snapVars
               \/ \E i \in DOMAIN refs : DropRef(i) \/ ActOnElement(refs[i])
        PROVE  UNCHANGED known
    BY <1>5 DEF GlobalEvent, Degrade, Reopen, ScanPage, ScanCommit, DropRef, ActOnElement, snapVars
  <1> QED
    BY <1>1, <1>2, <1>3, <1>4, <1>5 DEF SnapNext

\* The browser and the scan under way keep their types; what is scanned is read from
\* the pages as they are.
LEMMA ScanStep == SnapInv /\ [SnapNext]_snapVars => live' \in LivePages /\ ScanType'
  <1> SUFFICES ASSUME SnapInv, [SnapNext]_snapVars PROVE live' \in LivePages /\ ScanType'
    OBVIOUS
  <1>0. known \in KnownPages /\ live \in LivePages /\ ScanType
    BY DEF SnapInv, PagesType
  <1>1. CASE UNCHANGED <<live, scan>>
    BY <1>0, <1>1 DEF ScanType
  <1>2. ASSUME NEW p \in SnapPages, PageChanges(p) PROVE live' \in LivePages /\ ScanType'
    <2>1. PICK t \in 0..1, d \in 0..1 :
              live' = [live EXCEPT ![p] = [target |-> live[p].target + t, doc |-> live[p].doc + d,
                                           dom |-> live[p].dom + 1]]
      BY <1>2, Zenon DEF PageChanges
    <2>2. scan' = scan
      BY <1>2 DEF PageChanges
    <2> QED
      BY <1>0, <2>1, <2>2 DEF LivePages, ScanType
  <1>3. ASSUME NEW p \in SnapPages, ScanObserve(p) PROVE live' \in LivePages /\ ScanType'
    BY <1>0, <1>3 DEF ScanObserve, ScanType
  <1>4. CASE ScanReconcile
    <2>1. /\ scan.pc = "observed" /\ UNCHANGED live
          /\ scan' = [pc |-> "reconciled", page |-> scan.page,
                      gen |-> [target |-> known'[scan.page].target, doc |-> known'[scan.page].doc]]
      BY <1>4 DEF ScanReconcile
    <2>2. scan.page \in SnapPages
      BY <1>0, <2>1 DEF ScanType, NoScan
    <2>3. known' \in KnownPages
      BY KnownStep
    <2>4. [target |-> known'[scan.page].target, doc |-> known'[scan.page].doc] \in Generations
      BY <2>2, <2>3 DEF KnownPages, Generations
    <2> QED
      BY <1>0, <2>1, <2>2, <2>4 DEF ScanType
  <1>5. CASE ScanPage
    <2>1. /\ scan.pc = "reconciled" /\ UNCHANGED live
          /\ scan' = [pc |-> "scanned", page |-> scan.page, gen |-> scan.gen,
                      doc |-> live[scan.page].doc, dom |-> live[scan.page].dom]
      BY <1>5 DEF ScanPage
    <2>2. scan.page \in SnapPages /\ scan.gen \in Generations
      BY <1>0, <2>1 DEF ScanType, NoScan
    <2>3. live[scan.page].doc \in Nat /\ live[scan.page].dom \in Nat
      BY <1>0, <2>2 DEF LivePages
    <2> QED
      BY <1>0, <2>1, <2>2, <2>3 DEF ScanType
  <1>6. CASE Reopen \/ ScanCommit
    BY <1>0, <1>6 DEF Reopen, ScanCommit, ScanType
  <1>7. ASSUME NEW p \in SnapPages,
               \/ BridgeEvent(p) \/ MarkDirty(p) \/ PutSnapshot(p) \/ \E f \in Frames : IssueRef(p, f)
        PROVE  UNCHANGED <<live, scan>>
    BY <1>7 DEF BridgeEvent, MarkDirty, PutSnapshot, IssueRef
  <1>8. ASSUME \/ GlobalEvent \/ Degrade \/ UNCHANGED snapVars
               \/ \E i \in DOMAIN refs : DropRef(i) \/ ActOnElement(refs[i])
        PROVE  UNCHANGED <<live, scan>>
    BY <1>8 DEF GlobalEvent, Degrade, DropRef, ActOnElement, snapVars
  <1> QED
    BY <1>1, <1>2, <1>3, <1>4, <1>5, <1>6, <1>7, <1>8 DEF SnapNext

\* A clean scan or a seeded snapshot is recorded only for the document it is of.
LEMMA RecordStep == SnapInv /\ [SnapNext]_snapVars => RecordInv'
  <1> SUFFICES ASSUME SnapInv, [SnapNext]_snapVars PROVE RecordInv'
    OBVIOUS
  <1>0. known \in KnownPages /\ live \in LivePages /\ ScanType /\ RecordInv
    BY DEF SnapInv, PagesType
  <1>1. CASE UNCHANGED record
    BY <1>0, <1>1 DEF RecordInv
  <1>2. CASE record' = [p \in SnapPages |-> NoSnapshot]
    BY <1>2 DEF RecordInv
  <1>3. ASSUME NEW p \in SnapPages, NEW v, record' = [record EXCEPT ![p] = v],
               v = NoSnapshot \/ (v \in Records /\ v.from = v.doc)
        PROVE  RecordInv'
    BY <1>0, <1>3 DEF RecordInv
  <1>4. \A p \in SnapPages : record[p] # NoSnapshot =>
            /\ [record[p] EXCEPT !.dirty = TRUE] \in Records
            /\ [record[p] EXCEPT !.dirty = TRUE].from = [record[p] EXCEPT !.dirty = TRUE].doc
    BY <1>0 DEF RecordInv, Records
  <1>5. ASSUME NEW p \in SnapPages, MarkDirty(p) PROVE RecordInv'
    <2>1. CASE record[p] = NoSnapshot
      BY <1>1, <1>5, <2>1 DEF MarkDirty
    <2>2. CASE record[p] # NoSnapshot
      <3>1. record' = [record EXCEPT ![p].dirty = TRUE]
        BY <1>5, <2>2 DEF MarkDirty
      <3>2. record' = [record EXCEPT ![p] = [record[p] EXCEPT !.dirty = TRUE]]
        BY <3>1, Zenon
      <3> QED
        BY <1>3, <1>4, <2>2, <3>2
    <2> QED
      BY <2>1, <2>2
  <1>6. ASSUME NEW i \in DOMAIN refs, ActOnElement(refs[i]) PROVE RecordInv'
    <2>1. PICK p : p = refs[i].page
      OBVIOUS
    <2>2. p \in SnapPages
      BY <2>1 DEF SnapInv, RefsInv, TrueRefs, References
    <2>3. record' = [record EXCEPT ![p] = IF record[p] = NoSnapshot THEN record[p]
                                          ELSE [record[p] EXCEPT !.dirty = TRUE]]
      BY <1>6, <2>1, Zenon DEF ActOnElement
    <2>4. CASE record[p] = NoSnapshot
      <3>1. record' = [record EXCEPT ![p] = record[p]]
        BY <2>3, <2>4
      <3> QED
        BY <1>3, <2>2, <2>4, <3>1
    <2>5. CASE record[p] # NoSnapshot
      <3>1. record' = [record EXCEPT ![p] = [record[p] EXCEPT !.dirty = TRUE]]
        BY <2>3, <2>5
      <3> QED
        BY <1>3, <1>4, <2>2, <2>5, <3>1
    <2> QED
      BY <2>4, <2>5
  <1>7. CASE ScanReconcile
    <2>1. record' = [p \in SnapPages |-> IF Advances(scan.seen, p) THEN NoSnapshot ELSE record[p]]
      BY <1>7 DEF ScanReconcile
    <2> QED
      BY <1>0, <2>1 DEF RecordInv
  <1>8. CASE ScanCommit
    <2>1. scan.pc = "scanned"
      BY <1>8 DEF ScanCommit
    <2>2. scan.page \in SnapPages /\ scan.doc \in Nat /\ scan.dom \in Nat
      BY <1>0, <2>1 DEF ScanType, NoScan
    <2>3. CASE ScanCurrent
      <3> DEFINE v == [target |-> known[scan.page].target, doc |-> known[scan.page].doc,
                       dom |-> scan.dom, dirty |-> FALSE, from |-> scan.doc]
      <3>1. record' = [record EXCEPT ![scan.page] = v]
        BY <1>8, <2>3 DEF ScanCommit
      <3>2. v \in Records /\ v.from = v.doc
        BY <1>0, <2>2, <2>3 DEF ScanCurrent, KnownPages, Records
      <3> HIDE DEF v
      <3> QED
        BY <1>3, <2>2, <3>1, <3>2
    <2>4. CASE ~ScanCurrent
      BY <1>1, <1>8, <2>4 DEF ScanCommit
    <2> QED
      BY <2>3, <2>4
  <1>9. ASSUME NEW p \in SnapPages, PutSnapshot(p) PROVE RecordInv'
    <2> DEFINE v == [target |-> known[p].target, doc |-> known[p].doc,
                     dom |-> live[p].dom, dirty |-> FALSE, from |-> live[p].doc]
    <2>1. record' = [record EXCEPT ![p] = v] /\ live[p].doc = known[p].doc
      BY <1>9 DEF PutSnapshot
    <2>2. v \in Records /\ v.from = v.doc
      BY <1>0, <2>1 DEF KnownPages, LivePages, Records
    <2> HIDE DEF v
    <2> QED
      BY <1>3, <2>1, <2>2
  <1>10. ASSUME NEW p \in SnapPages,
                PageChanges(p) \/ ScanObserve(p) \/ \E f \in Frames : IssueRef(p, f)
         PROVE  UNCHANGED record
    BY <1>10 DEF PageChanges, ScanObserve, IssueRef
  <1>11. ASSUME Reopen \/ ScanPage \/ UNCHANGED snapVars \/ \E i \in DOMAIN refs : DropRef(i)
         PROVE  UNCHANGED record
    BY <1>11 DEF Reopen, ScanPage, DropRef, snapVars
  <1>12. ASSUME GlobalEvent \/ Degrade \/ \E p \in SnapPages : BridgeEvent(p)
         PROVE  record' = [p \in SnapPages |-> NoSnapshot]
    BY <1>12 DEF GlobalEvent, Degrade, BridgeEvent
  <1> QED
    BY <1>1, <1>2, <1>5, <1>6, <1>7, <1>8, <1>9, <1>10, <1>11, <1>12 DEF SnapNext

\* The registry only ever holds references that are true: it issues no other, and what
\* it drops, evicts or filters leaves the rest as they are.
LEMMA RefsStep == SnapInv /\ [SnapNext]_snapVars => RefsInv'
  <1> SUFFICES ASSUME SnapInv, [SnapNext]_snapVars PROVE RefsInv'
    OBVIOUS
  <1>0. refs \in Seq(TrueRefs) /\ RefsInv /\ RecordInv
    BY DEF SnapInv, RefsInv
  <1>1. CASE UNCHANGED refs \/ refs' = <<>>
    <2>1. <<>> \in Seq(TrueRefs)
      OBVIOUS
    <2> QED
      BY <1>0, <1>1, <2>1 DEF RefsInv
  <1>2. CASE \E rs : refs' = Only(rs)
    BY <1>0, <1>2, OnlyKeeps DEF RefsInv
  <1>3. ASSUME NEW p \in SnapPages, NEW f \in Frames, IssueRef(p, f) PROVE RefsInv'
    <2> DEFINE r == [page |-> p, frame |-> f, doc |-> record[p].doc, dom |-> record[p].dom,
                     from |-> record[p].from]
    <2>1. record[p] # NoSnapshot /\ refs' = Registered(r)
      BY <1>3 DEF IssueRef, FromLedger
    <2>2. record[p] \in Records /\ record[p].from = record[p].doc
      BY <1>0, <2>1 DEF RecordInv
    <2>3. r \in TrueRefs
      BY <2>2 DEF TrueRefs, References, Records
    <2> HIDE DEF r
    <2>4. refs' = Append(refs, r) \/ (Len(refs) > 0 /\ refs' = Append(Tail(refs), r))
      BY <1>0, <2>1, SnapshotAssumption DEF Registered
    <2>5. Append(refs, r) \in Seq(TrueRefs) /\ (Len(refs) > 0 => Append(Tail(refs), r) \in Seq(TrueRefs))
      BY <1>0, <2>3
    <2> QED
      BY <2>4, <2>5 DEF RefsInv
  <1>4. ASSUME NEW i \in DOMAIN refs, DropRef(i) PROVE RefsInv'
    <2>1. refs' = [j \in 1..Len(refs) - 1 |-> IF j < i THEN refs[j] ELSE refs[j + 1]]
      BY <1>4 DEF DropRef
    <2>2. PICK n \in Nat : n = Len(refs) - 1
      BY <1>0
    <2>3. \A j \in 1..n : refs[j] \in TrueRefs /\ refs[j + 1] \in TrueRefs
      BY <1>0, <2>2
    <2> QED
      BY <2>1, <2>2, <2>3 DEF RefsInv
  <1>5. ASSUME NEW p \in SnapPages, BridgeEvent(p) PROVE \E rs : refs' = Only(rs)
    BY <1>5 DEF BridgeEvent, WithoutFrames
  <1>6. ASSUME NEW p \in SnapPages, MarkDirty(p) PROVE UNCHANGED refs \/ \E rs : refs' = Only(rs)
    BY <1>6 DEF MarkDirty, WithoutPage
  <1>7. ASSUME NEW p \in SnapPages, PutSnapshot(p) PROVE \E rs : refs' = Only(rs)
    BY <1>7 DEF PutSnapshot
  <1>8. ASSUME NEW r, ActOnElement(r) PROVE \E rs : refs' = Only(rs)
    BY <1>8 DEF ActOnElement, WithoutPage
  <1>9. ASSUME NEW p \in SnapPages, PageChanges(p) \/ ScanObserve(p) PROVE UNCHANGED refs
    BY <1>9 DEF PageChanges, ScanObserve
  <1>10. ASSUME GlobalEvent \/ Degrade \/ Reopen PROVE refs' = <<>>
    BY <1>10 DEF GlobalEvent, Degrade, Reopen
  <1>11. ASSUME ScanReconcile \/ ScanPage \/ ScanCommit \/ UNCHANGED snapVars PROVE UNCHANGED refs
    BY <1>11 DEF ScanReconcile, ScanPage, ScanCommit, snapVars
  <1> QED
    BY <1>1, <1>2, <1>3, <1>4, <1>5, <1>6, <1>7, <1>8, <1>9, <1>10, <1>11 DEF SnapNext

\* The invariant of snapshots and references.
THEOREM SnapshotSafety == SnapSpec => []SnapInv
  <1>1. SnapInit => SnapInv
    BY DEF SnapInit, SnapInv, PagesType, LivePages, KnownPages, ScanType, RecordInv, RefsInv
  <1>2. SnapInv /\ [SnapNext]_snapVars => SnapInv'
    BY KnownStep, ScanStep, RecordStep, RefsStep DEF SnapInv, PagesType
  <1> QED
    BY <1>1, <1>2, PTL DEF SnapSpec

\* The generations the ledger holds never move back, for every number of pages and of
\* changes, however late an event or an observation is.
THEOREM GenerationsNeverMoveBack == SnapSpec => GenerationsMonotone
  <1>1. SnapInv /\ [SnapNext]_snapVars =>
            [\A p \in SnapPages : /\ known'[p].target >= known[p].target
                                  /\ known'[p].doc >= known[p].doc]_known
    BY KnownStep
  <1> QED
    BY <1>1, SnapshotSafety, PTL DEF SnapSpec, GenerationsMonotone

\* An element action that is let through is about an element that was scanned from the
\* document the ledger holds the page to be at.
THEOREM ActionsMeetTheirDocument == SnapSpec => []ActsOnCurrentDocument
  <1>1. SnapInv => ActsOnCurrentDocument
    <2> SUFFICES ASSUME SnapInv, NEW r \in Active, Actionable(r) PROVE r.from = known[r.page].doc
      BY DEF ActsOnCurrentDocument
    <2>1. r \in TrueRefs
      BY DEF SnapInv, RefsInv, Active
    <2> QED
      BY <2>1 DEF TrueRefs, Actionable, ValidForPage
  <1> QED
    BY <1>1, SnapshotSafety, PTL

-----------------------------------------------------------------------------
(* Routers.                                                                    *)

EventRecords ==
    [epoch : Nat, seq : Nat, scope : {t.scope : t \in Templates},
     kind : {t.kind : t \in Templates}, source : {t.source : t \in Templates},
     tag : {t.tag : t \in Templates}, request : {t.request : t \in Templates},
     excluded : {t.excluded : t \in Templates}, resync : BOOLEAN]

Routers ==
    [epoch : Nat, seq : Nat, events : Seq(EventRecords), starts : Seq(Nat), seen : Seq(Nat),
     resync : BOOLEAN]

\* MergedInto, of any log.
Merges(L, i, j, among) ==
    /\ i <= j
    /\ \A k \in among \cap i..j :
           /\ Coalescible(L[k]) /\ L[k].kind = L[i].kind
           /\ L[k].scope = L[i].scope /\ L[k].source = L[i].source

\* A router holds events of a log up to a number, in their order; what an event was
\* merged from begins after the event before it.
Ordered(r, L, upto) ==
    /\ Len(r.starts) = Len(r.events)
    /\ \A i \in 1..Len(r.events) :
           /\ r.starts[i] <= r.events[i].seq /\ r.events[i].seq <= upto
           /\ r.events[i].seq \in 1..Len(L) /\ r.events[i] = L[r.events[i].seq]
    /\ \A i, j \in 1..Len(r.events) : i < j => r.events[i].seq < r.starts[j]
    /\ \A x \in 1..Len(r.seen) : r.seen[x] <= upto

\* An event of a router stands for number s: it is that one, or that one merged into it.
Stands(r, L, s, among) ==
    \E i \in 1..Len(r.events) : s = r.events[i].seq \/ Merges(L, s, r.events[i].seq, among)

\* The router has numbers of a set only, and stands for every one of them, as far back as
\* its oldest event began.
Covers(r, L, among, base, upto) ==
    /\ \A i \in 1..Len(r.events) : r.events[i].seq \in among
    /\ \A s \in among :
           base < s /\ s <= upto /\ (r.starts = <<>> \/ r.starts[1] <= s) => Stands(r, L, s, among)

\* The numbers of events.
LEMMA EventFields ==
    \A e \in EventRecords : e.seq \in Nat /\ e.epoch \in Nat /\ e.resync \in BOOLEAN
  BY DEF EventRecords

\* Numbers in a chain.
LEMMA Between ==
    \A a, b, c \in Nat : /\ a < b /\ b <= c => a < c /\ a <= c
                         /\ a <= b /\ b <= c => a <= c
  OBVIOUS

\* The end of a sequence.
LEMMA EndOf ==
    ASSUME NEW S, NEW a \in Seq(S), NEW d \in 0..Len(a)
    PROVE  /\ SubSeq(a, d + 1, Len(a)) \in Seq(S)
           /\ Len(SubSeq(a, d + 1, Len(a))) = Len(a) - d
           /\ \A i \in 1..(Len(a) - d) : SubSeq(a, d + 1, Len(a))[i] = a[i + d]
  OBVIOUS

\* How many elements a bounded queue drops for one more, and what it then is.
Dropped(s, n) == IF Len(s) + 1 > n THEN Len(s) + 1 - n ELSE 0

\* What it then is.
Pushed(S, s, x, n) ==
    /\ Newest(Append(s, x), n) \in Seq(S) /\ Dropped(s, n) \in 0..Len(s)
    /\ Len(Newest(Append(s, x), n)) = Len(s) + 1 - Dropped(s, n)
    /\ Newest(Append(s, x), n)[Len(s) + 1 - Dropped(s, n)] = x
    /\ \A i \in 1..(Len(s) - Dropped(s, n)) : Newest(Append(s, x), n)[i] = s[i + Dropped(s, n)]

\* Newest of a sequence that one element was appended to.
LEMMA NewestAppend ==
    ASSUME NEW S, NEW s \in Seq(S), NEW x \in S, NEW n \in Nat \ {0}
    PROVE  Pushed(S, s, x, n)
  <1>0. Append(s, x) \in Seq(S)
    OBVIOUS
  <1>1. PICK a \in Seq(S) : a = Append(s, x)
    BY <1>0
  <1>2. /\ Len(a) = Len(s) + 1 /\ Len(s) \in Nat /\ a[Len(s) + 1] = x
        /\ \A i \in 1..Len(s) : a[i] = s[i]
    BY <1>1
  <1>3. PICK d : d = Dropped(s, n)
    OBVIOUS
  <1>9. d \in 0..Len(s) /\ d = IF Len(a) > n THEN Len(a) - n ELSE 0
    BY <1>2, <1>3 DEF Dropped
  <1>4. PICK t : t = Newest(a, n) /\ t = SubSeq(a, d + 1, Len(a))
    BY <1>9, Zenon DEF Newest
  <1>5. d \in 0..Len(a)
    BY <1>2, <1>9
  <1>6. t \in Seq(S) /\ Len(t) = Len(a) - d /\ \A i \in 1..(Len(a) - d) : t[i] = a[i + d]
    BY <1>4, <1>5, EndOf
  <1>7. t[Len(s) + 1 - d] = x
    <2>1. Len(s) + 1 - d \in 1..(Len(a) - d) /\ (Len(s) + 1 - d) + d = Len(s) + 1
      BY <1>2, <1>9
    <2> QED
      BY <1>2, <1>6, <2>1
  <1>8. ASSUME NEW i \in 1..(Len(s) - d)
        PROVE  t[i] = s[i + d]
    <2>1. i + d \in 1..Len(s) /\ i \in 1..(Len(a) - d)
      BY <1>2, <1>9
    <2> QED
      BY <1>2, <1>6, <2>1
  <1>10. /\ t \in Seq(S) /\ d \in 0..Len(s) /\ Len(t) = Len(s) + 1 - d /\ t[Len(s) + 1 - d] = x
         /\ \A i \in 1..(Len(s) - d) : t[i] = s[i + d]
    BY <1>2, <1>6, <1>7, <1>8, <1>9
  <1>11. t = Newest(Append(s, x), n)
    BY <1>1, <1>4
  <1> QED
    BY <1>3, <1>10, <1>11, Zenon DEF Pushed

\* The same for numbers.
LEMMA NewestNumber ==
    ASSUME NEW s \in Seq(Nat), NEW x \in Nat, NEW n \in Nat \ {0}
    PROVE  /\ Newest(Append(s, x), n) \in Seq(Nat) /\ Dropped(s, n) \in 0..Len(s)
           /\ Len(Newest(Append(s, x), n)) = Len(s) + 1 - Dropped(s, n)
           /\ Newest(Append(s, x), n)[Len(s) + 1 - Dropped(s, n)] = x
           /\ \A i \in 1..(Len(s) - Dropped(s, n)) :
                  Newest(Append(s, x), n)[i] = s[i + Dropped(s, n)]
  <1>1. Pushed(Nat, s, x, n)
    BY NewestAppend, Zenon
  <1> QED
    BY <1>1, Zenon DEF Pushed

\* An event that is merged: it takes the place of the last one.
LEMMA MergeKeeps ==
    ASSUME NEW L \in Seq(EventRecords), NEW among, NEW base \in Nat, NEW upto \in Nat,
           NEW r \in Routers, NEW e \in EventRecords, NEW q \in Routers,
           Ordered(r, L, upto), Covers(r, L, among, base, upto),
           among \subseteq Nat, upto < e.seq, e.seq \in 1..Len(L), e = L[e.seq], e.seq \in among,
           \A s \in among : base < s /\ upto < s /\ s < e.seq => Merges(L, s, e.seq, among),
           Coalesces(r, e),
           q.events = [r.events EXCEPT ![Len(r.events)] = e], q.starts = r.starts,
           \A x \in 1..Len(q.seen) : q.seen[x] <= e.seq
    PROVE  Ordered(q, L, e.seq) /\ Covers(q, L, among, base, e.seq)
  <1> DEFINE n == Len(r.events)
  <1>1. /\ r.events \in Seq(EventRecords) /\ r.starts \in Seq(Nat) /\ e.seq \in Nat
        /\ n \in Nat /\ n # 0 /\ Len(r.starts) = n
    <2>1. r.events # <<>>
      BY DEF Coalesces
    <2> QED
      BY <2>1 DEF Routers, EventRecords, Ordered
  <1> DEFINE old == r.events[n]
  <1>2. /\ Coalescible(e) /\ old.kind = e.kind /\ old.scope = e.scope /\ old.source = e.source
    BY <1>1 DEF Coalesces, Last
  <1>3. /\ q.events \in Seq(EventRecords) /\ Len(q.events) = n /\ q.events[n] = e
        /\ \A i \in 1..n : i # n => q.events[i] = r.events[i]
    BY <1>1
  <1>4. \A i \in 1..n : r.events[i].seq \in Nat /\ r.starts[i] \in Nat
    <2>1. \A i \in 1..n : r.events[i] \in EventRecords /\ r.starts[i] \in Nat
      BY <1>1, SMTT(30)
    <2> QED
      BY <2>1, EventFields
  <1> HIDE DEF n
  <1>8. n \in 1..n /\ old.seq \in Nat /\ r.starts[n] <= old.seq
        /\ \A m \in 1..n : m < n => r.events[m].seq < r.starts[n]
    <2>1. n \in 1..n
      BY <1>1
    <2> QED
      BY <1>4, <2>1 DEF Ordered, n
  <1>5. Ordered(q, L, e.seq)
    <2>1. \A i \in 1..n :
              /\ q.starts[i] <= q.events[i].seq /\ q.events[i].seq <= e.seq
              /\ q.events[i].seq \in 1..Len(L) /\ q.events[i] = L[q.events[i].seq]
      <3> SUFFICES ASSUME NEW i \in 1..n
                   PROVE  /\ q.starts[i] <= q.events[i].seq /\ q.events[i].seq <= e.seq
                          /\ q.events[i].seq \in 1..Len(L) /\ q.events[i] = L[q.events[i].seq]
        OBVIOUS
      <3>1. /\ r.starts[i] <= r.events[i].seq /\ r.events[i].seq <= upto
            /\ r.events[i].seq \in 1..Len(L) /\ r.events[i] = L[r.events[i].seq]
        BY DEF Ordered, n
      <3>2. CASE i = n
        <4>1. r.starts[i] <= e.seq
          <5>1. r.starts[i] \in Nat /\ r.events[i].seq \in Nat /\ e.seq \in Nat
            BY <1>1, <1>4
          <5> QED
            BY <3>1, <5>1, SMTT(30)
        <4> QED
          BY <1>1, <1>3, <3>2, <4>1
      <3>3. CASE i # n
        <4>1. q.events[i] = r.events[i] /\ q.starts[i] = r.starts[i] /\ r.events[i].seq <= e.seq
          BY <1>1, <1>3, <1>4, <3>1, <3>3
        <4> QED
          BY <3>1, <4>1
      <3> QED
        BY <3>2, <3>3
    <2>2. \A i, j \in 1..n : i < j => q.events[i].seq < q.starts[j]
      BY <1>1, <1>3 DEF Ordered, n
    <2> QED
      BY <1>1, <1>3, <2>1, <2>2 DEF Ordered
  <1>6. ASSUME NEW s \in among, base < s, s <= e.seq, q.starts[1] <= s
        PROVE  Stands(q, L, s, among)
    <2>1. n \in 1..Len(q.events) /\ q.events[n].seq = e.seq
      BY <1>1, <1>3
    <2>2. CASE s = e.seq
      BY <2>1, <2>2 DEF Stands
    <2>3. CASE upto < s /\ s < e.seq
      <3>1. Merges(L, s, e.seq, among)
        BY <1>6, <2>3
      <3> QED
        BY <2>1, <3>1 DEF Stands
    <2>4. CASE s <= upto
      <3>1. Stands(r, L, s, among)
        BY <1>1, <1>6, <2>4 DEF Covers
      <3>2. PICK i \in 1..n : s = r.events[i].seq \/ Merges(L, s, r.events[i].seq, among)
        BY <3>1 DEF Stands, n
      <3>3. CASE i # n
        <4>1. i \in 1..Len(q.events) /\ q.events[i].seq = r.events[i].seq
          BY <1>3, <3>3
        <4> QED
          BY <3>2, <4>1 DEF Stands
      <3>4. CASE i = n
        <4>1. old = L[old.seq] /\ old.seq <= upto /\ r.starts[1] <= old.seq
          <5>1. n \in 1..n /\ 1 \in 1..n
            BY <1>1
          <5>2. old = L[old.seq] /\ old.seq <= upto /\ r.starts[n] <= old.seq /\ r.starts[1] <= r.events[1].seq
                /\ (1 < n => r.events[1].seq < r.starts[n])
            BY <5>1 DEF Ordered, n
          <5> QED
            <6>1. r.starts[1] \in Nat /\ r.events[1].seq \in Nat /\ r.starts[n] \in Nat /\ old.seq \in Nat
              BY <1>4, <5>1
            <6>2. 1 < n \/ n = 1
              BY <1>1
            <6>3. CASE n = 1
              BY <5>2, <6>3
            <6>4. CASE 1 < n
              <7>1. r.events[1].seq <= old.seq
                BY <5>2, <6>1, <6>4, Between
              <7> QED
                BY <5>2, <6>1, <7>1, Between, SMTT(30)
            <6> QED
              BY <5>2, <6>2, <6>3, <6>4
        <4>2. s \in Nat /\ old.seq \in Nat /\ s <= old.seq
          <5>1. s = old.seq \/ s <= old.seq
            BY <3>2, <3>4 DEF Merges
          <5> QED
            BY <1>8, <5>1
        <4>3. old.seq \in among
          BY <1>1 DEF Covers, n
        <4>4. /\ L[s].kind = e.kind /\ L[s].scope = e.scope /\ L[s].source = e.source
              /\ Coalescible(L[s])
          <5>1. CASE s = old.seq
            BY <1>2, <4>1, <5>1 DEF Coalescible
          <5>2. CASE Merges(L, s, old.seq, among)
            <6>1. old.seq \in among \cap s..old.seq
              BY <4>2, <4>3
            <6>2. L[old.seq].kind = L[s].kind /\ L[old.seq].scope = L[s].scope
                  /\ L[old.seq].source = L[s].source
              BY <5>2, <6>1 DEF Merges
            <6> QED
              BY <1>2, <4>1, <6>2 DEF Coalescible
          <5> QED
            BY <3>2, <3>4, <5>1, <5>2
        <4>5. ASSUME NEW k \in among \cap s..e.seq
              PROVE  /\ Coalescible(L[k]) /\ L[k].kind = L[s].kind
                     /\ L[k].scope = L[s].scope /\ L[k].source = L[s].source
          <5>1. k \in Nat /\ s <= k /\ k <= e.seq /\ base < k
            BY <1>6, <4>2
          <5>2. CASE k <= old.seq
            <6>1. CASE s = old.seq
              BY <4>2, <4>4, <5>1, <5>2, <6>1, SMTT(30)
            <6>2. CASE Merges(L, s, old.seq, among)
              <7>1. k \in among \cap s..old.seq
                BY <4>2, <5>1, <5>2
              <7> QED
                BY <6>2, <7>1 DEF Merges
            <6> QED
              BY <3>2, <3>4, <6>1, <6>2
          <5>3. CASE old.seq < k /\ k <= upto
            <6>1. Stands(r, L, k, among)
              <7>1. r.starts[1] \in Nat /\ r.starts[1] <= k
                <8>1. 1 \in 1..n
                  BY <1>1
                <8>2. r.starts[1] \in Nat
                  BY <1>4, <8>1
                <8> QED
                  BY <4>1, <4>2, <5>1, <5>3, <8>2, SMTT(30)
              <7> QED
                BY <5>1, <5>3, <7>1 DEF Covers
            <6>2. PICK m \in 1..n : k <= r.events[m].seq
              BY <5>1, <6>1 DEF Stands, Merges, n
            <6>3. r.events[m].seq <= old.seq
              <7>1. m = n \/ m < n
                BY <1>1
              <7>2. r.events[m].seq \in Nat /\ r.starts[n] \in Nat
                BY <1>4, <1>8
              <7>3. CASE m = n
                BY <1>8, <7>3
              <7>4. CASE m < n
                <8>1. r.events[m].seq < r.starts[n] /\ r.starts[n] <= old.seq /\ old.seq \in Nat
                  BY <1>8, <7>4
                <8> QED
                  BY <7>2, <8>1, Between
              <7> QED
                BY <7>1, <7>3, <7>4
            <6>4. r.events[m].seq \in Nat /\ old.seq \in Nat
              BY <1>4, <1>8
            <6> QED
              BY <5>1, <5>3, <6>2, <6>3, <6>4, SMTT(30)
          <5>4. CASE upto < k /\ k < e.seq
            <6>1. Merges(L, k, e.seq, among)
              BY <5>1, <5>4
            <6>2. e.seq \in among \cap k..e.seq /\ k \in among \cap k..e.seq
              BY <1>1, <5>1
            <6>3. L[e.seq].kind = L[k].kind /\ L[e.seq].scope = L[k].scope
                  /\ L[e.seq].source = L[k].source /\ Coalescible(L[k])
              BY <6>1, <6>2 DEF Merges
            <6> QED
              BY <4>4, <6>3
          <5>5. CASE k = e.seq
            BY <1>2, <4>4, <5>5
          <5>6. \/ k <= old.seq \/ (old.seq < k /\ k <= upto) \/ (upto < k /\ k < e.seq) \/ k = e.seq
            <6>1. old.seq \in Nat /\ e.seq \in Nat /\ k \in Nat /\ k <= e.seq
              BY <1>1, <1>8, <5>1
            <6> QED
              BY <6>1
          <5> QED
            BY <5>2, <5>3, <5>4, <5>5, <5>6
        <4>6. Merges(L, s, e.seq, among)
          BY <1>6, <4>5 DEF Merges
        <4> QED
          BY <2>1, <4>6 DEF Stands
      <3> QED
        BY <3>3, <3>4
    <2> QED
      BY <1>1, <1>6, <2>2, <2>3, <2>4
  <1>7. \A i \in 1..Len(q.events) : q.events[i].seq \in among
    BY <1>1, <1>3 DEF Covers, n
  <1> QED
    BY <1>1, <1>5, <1>6, <1>7 DEF Covers

\* An event that is appended; the oldest may go.
LEMMA AppendKeeps ==
    ASSUME NEW L \in Seq(EventRecords), NEW among, NEW base \in Nat, NEW upto \in Nat,
           NEW r \in Routers, NEW e \in EventRecords, NEW q \in Routers, NEW limit \in Nat \ {0},
           Ordered(r, L, upto), Covers(r, L, among, base, upto),
           among \subseteq Nat, upto < e.seq, e.seq \in 1..Len(L), e = L[e.seq], e.seq \in among,
           \A s \in among : base < s /\ upto < s /\ s < e.seq => Merges(L, s, e.seq, among),
           q.events = Newest(Append(r.events, e), limit),
           q.starts = Newest(Append(r.starts, e.seq), limit),
           \A x \in 1..Len(q.seen) : q.seen[x] <= e.seq
    PROVE  Ordered(q, L, e.seq) /\ Covers(q, L, among, base, e.seq)
  <1> DEFINE n == Len(r.events)
             d == Dropped(r.events, limit)
             m == Len(q.events)
  <1>1. /\ r.events \in Seq(EventRecords) /\ r.starts \in Seq(Nat) /\ e.seq \in Nat
        /\ n \in Nat /\ Len(r.starts) = n
    BY EventFields DEF Routers, Ordered
  <1>2. /\ d \in 0..n /\ m = n + 1 - d /\ q.events[n + 1 - d] = e
        /\ \A i \in 1..(n - d) : q.events[i] = r.events[i + d]
    <2>1. PICK g \in Seq(EventRecords) : g = r.events
      BY <1>1
    <2>2. /\ Newest(Append(g, e), limit) \in Seq(EventRecords) /\ Dropped(g, limit) \in 0..Len(g)
          /\ Len(Newest(Append(g, e), limit)) = Len(g) + 1 - Dropped(g, limit)
          /\ Newest(Append(g, e), limit)[Len(g) + 1 - Dropped(g, limit)] = e
          /\ \A i \in 1..(Len(g) - Dropped(g, limit)) :
                  Newest(Append(g, e), limit)[i] = g[i + Dropped(g, limit)]
      BY NewestAppend DEF Pushed
    <2>3. q.events = Newest(Append(g, e), limit)
      BY <2>1
    <2> QED
      BY <2>1, <2>2, <2>3
  <1>3. /\ Len(q.starts) = n + 1 - d /\ q.starts[n + 1 - d] = e.seq
        /\ \A i \in 1..(n - d) : q.starts[i] = r.starts[i + d]
    <2>1. d = Dropped(r.starts, limit)
      BY <1>1 DEF Dropped
    <2>2. /\ Len(q.starts) = n + 1 - Dropped(r.starts, limit)
          /\ q.starts[n + 1 - Dropped(r.starts, limit)] = e.seq
          /\ \A i \in 1..(n - Dropped(r.starts, limit)) : q.starts[i] = r.starts[i + Dropped(r.starts, limit)]
      <3>1. PICK g \in Seq(Nat), x \in Nat : g = r.starts /\ x = e.seq
        BY <1>1
      <3>2. /\ Newest(Append(g, x), limit) \in Seq(Nat) /\ Dropped(g, limit) \in 0..Len(g)
            /\ Len(Newest(Append(g, x), limit)) = Len(g) + 1 - Dropped(g, limit)
            /\ Newest(Append(g, x), limit)[Len(g) + 1 - Dropped(g, limit)] = x
            /\ \A i \in 1..(Len(g) - Dropped(g, limit)) :
                  Newest(Append(g, x), limit)[i] = g[i + Dropped(g, limit)]
        BY NewestNumber, Zenon
      <3>3. q.starts = Newest(Append(g, x), limit)
        BY <3>1
      <3> QED
        BY <1>1, <3>1, <3>2, <3>3
    <2> HIDE DEF d
    <2> QED
      BY <2>1, <2>2
  <1>4. \A i \in 1..n : r.events[i].seq \in Nat /\ r.starts[i] \in Nat
    <2>1. \A i \in 1..n : r.events[i] \in EventRecords /\ r.starts[i] \in Nat
      BY <1>1, SMTT(30)
    <2> QED
      BY <2>1, EventFields
  <1>5. /\ \A i \in 1..n : /\ r.starts[i] <= r.events[i].seq /\ r.events[i].seq <= upto
                           /\ r.events[i].seq \in 1..Len(L) /\ r.events[i] = L[r.events[i].seq]
        /\ \A i, j \in 1..n : i < j => r.events[i].seq < r.starts[j]
    BY DEF Ordered
  <1> HIDE DEF n, d, m
  <1>6. m \in Nat /\ m # 0 /\ Len(q.starts) = m
    BY <1>1, <1>2, <1>3
  <1>7. \A i \in 1..n : r.events[i].seq < e.seq
    <2> SUFFICES ASSUME NEW i \in 1..n PROVE r.events[i].seq < e.seq
      OBVIOUS
    <2>1. r.events[i].seq \in Nat /\ r.events[i].seq <= upto
      BY <1>4, <1>5
    <2> QED
      BY <1>1, <2>1, SMTT(30)
  <1>8. /\ q.starts[m] = e.seq /\ q.events[m] = e
        /\ \A i \in 1..m : i # m =>
              i + d \in 1..n /\ q.events[i] = r.events[i + d] /\ q.starts[i] = r.starts[i + d]
    <2>1. \A i \in 1..m : i # m => i \in 1..(n - d) /\ i + d \in 1..n
      BY <1>1, <1>2
    <2> QED
      BY <1>2, <1>3, <2>1
  <1>9. Ordered(q, L, e.seq)
    <2>1. ASSUME NEW i \in 1..m
          PROVE  /\ q.starts[i] <= q.events[i].seq /\ q.events[i].seq <= e.seq
                 /\ q.events[i].seq \in 1..Len(L) /\ q.events[i] = L[q.events[i].seq]
      <3>1. CASE i = m
        BY <1>1, <1>8, <3>1
      <3>2. CASE i # m
        <4>1. i + d \in 1..n /\ q.events[i] = r.events[i + d] /\ q.starts[i] = r.starts[i + d]
          BY <1>8, <3>2
        <4>2. r.events[i + d].seq <= e.seq
          <5>1. r.events[i + d].seq \in Nat /\ r.events[i + d].seq < e.seq
            BY <1>4, <1>7, <4>1
          <5> QED
            BY <1>1, <5>1
        <4> QED
          BY <1>5, <4>1, <4>2
      <3> QED
        BY <3>1, <3>2
    <2>2. ASSUME NEW i \in 1..m, NEW j \in 1..m, i < j
          PROVE  q.events[i].seq < q.starts[j]
      <3>1. i # m /\ i + d \in 1..n /\ q.events[i] = r.events[i + d]
        BY <1>6, <1>8, <2>2
      <3>2. CASE j = m
        BY <1>7, <1>8, <3>1, <3>2
      <3>3. CASE j # m
        <4>1. j + d \in 1..n /\ q.starts[j] = r.starts[j + d]
          BY <1>8, <3>3
        <4>2. i + d < j + d
          BY <1>2, <1>6, <2>2
        <4> QED
          BY <1>5, <3>1, <4>1, <4>2
      <3> QED
        BY <3>2, <3>3
    <2> QED
      BY <1>6, <2>1, <2>2 DEF Ordered, m
  <1>10. \A i \in 1..m : q.events[i].seq \in among
    BY <1>8 DEF Covers, n
  <1>11. ASSUME NEW s \in among, base < s, s <= e.seq, q.starts[1] <= s
         PROVE  Stands(q, L, s, among)
    <2>1. m \in 1..Len(q.events) /\ q.events[m].seq = e.seq /\ s \in Nat
      <3>1. m \in 1..m
        BY <1>6
      <3> QED
        BY <1>8, <3>1 DEF m
    <2>2. CASE s = e.seq
      BY <2>1, <2>2 DEF Stands
    <2>3. CASE upto < s /\ s < e.seq
      <3>1. Merges(L, s, e.seq, among)
        BY <1>11, <2>3
      <3> QED
        BY <2>1, <3>1 DEF Stands
    <2>4. CASE s <= upto
      <3>1. 1 # m
        <4> SUFFICES ASSUME 1 = m PROVE FALSE
          OBVIOUS
        <4> QED
          BY <1>1, <1>8, <1>11, <2>1, <2>4
      <3>2. 1 + d \in 1..n /\ q.starts[1] = r.starts[1 + d]
        BY <1>6, <1>8, <3>1
      <3>3. 1 \in 1..n /\ r.starts[1] <= s
        <4>1. 1 \in 1..n /\ d \in Nat
          BY <1>1, <1>2, <3>2
        <4>2. r.starts[1] \in Nat /\ r.events[1].seq \in Nat /\ r.starts[1 + d] \in Nat
          BY <1>4, <3>2, <4>1
        <4>3. CASE d = 0
          BY <1>11, <3>2, <4>1, <4>3
        <4>4. CASE d # 0
          <5>1. r.events[1].seq < r.starts[1 + d] /\ r.starts[1] <= r.events[1].seq
            BY <1>5, <3>2, <4>1, <4>4
          <5>2. r.starts[1 + d] <= s
            BY <1>11, <3>2
          <5>3. r.events[1].seq <= s
            BY <2>1, <4>2, <5>1, <5>2, Between
          <5> QED
            BY <2>1, <4>1, <4>2, <5>1, <5>3, Between, SMTT(30)
        <4> QED
          BY <4>3, <4>4
      <3>4. Stands(r, L, s, among)
        BY <1>11, <2>4, <3>3 DEF Covers
      <3>5. PICK i \in 1..n : s = r.events[i].seq \/ Merges(L, s, r.events[i].seq, among)
        BY <3>4 DEF Stands, n
      <3>6. s <= r.events[i].seq /\ r.events[i].seq \in Nat
        BY <1>4, <2>1, <3>5 DEF Merges
      <3>7. i > d
        <4> SUFFICES ASSUME i <= d PROVE FALSE
          BY <1>2
        <4>1. i < 1 + d
          BY <1>2
        <4>2. r.events[i].seq < r.starts[1 + d]
          BY <1>5, <3>2, <4>1
        <4>3. r.starts[1 + d] <= s /\ r.starts[1 + d] \in Nat
          BY <1>4, <1>11, <3>2
        <4> QED
          BY <2>1, <3>6, <4>2, <4>3, SMTT(30)
      <3>8. i - d \in 1..m /\ i - d # m /\ (i - d) + d = i
        BY <1>1, <1>2, <3>7
      <3>9. q.events[i - d] = r.events[i]
        BY <1>8, <3>8
      <3> QED
        BY <3>5, <3>8, <3>9 DEF Stands, m
    <2> QED
      BY <1>1, <1>11, <2>1, <2>2, <2>3, <2>4
  <1>12. q.starts # <<>>
    BY <1>6
  <1> QED
    BY <1>9, <1>10, <1>11, <1>12 DEF Covers, m

\* The numbers that a router remembers having seen.
LEMMA SeenKeeps ==
    ASSUME NEW seen \in Seq(Nat), NEW x \in Nat, NEW limit \in Nat \ {0},
           \A i \in 1..Len(seen) : seen[i] <= x
    PROVE  /\ Newest(Append(seen, x), limit) \in Seq(Nat)
           /\ \A i \in 1..Len(Newest(Append(seen, x), limit)) :
                  Newest(Append(seen, x), limit)[i] <= x
  <1>3. /\ Newest(Append(seen, x), limit) \in Seq(Nat) /\ Dropped(seen, limit) \in 0..Len(seen)
        /\ Len(Newest(Append(seen, x), limit)) = Len(seen) + 1 - Dropped(seen, limit)
        /\ Newest(Append(seen, x), limit)[Len(seen) + 1 - Dropped(seen, limit)] = x
        /\ \A i \in 1..(Len(seen) - Dropped(seen, limit)) :
               Newest(Append(seen, x), limit)[i] = seen[i + Dropped(seen, limit)]
    BY NewestNumber, Zenon
  <1>4. PICK t, d : t = Newest(Append(seen, x), limit) /\ d = Dropped(seen, limit)
    OBVIOUS
  <1>5. /\ t \in Seq(Nat) /\ d \in 0..Len(seen) /\ Len(t) = Len(seen) + 1 - d
        /\ t[Len(seen) + 1 - d] = x /\ \A i \in 1..(Len(seen) - d) : t[i] = seen[i + d]
    BY <1>3, <1>4
  <1>6. ASSUME NEW i \in 1..Len(t) PROVE t[i] <= x
    <2>1. CASE i = Len(seen) + 1 - d
      BY <1>5, <2>1
    <2>2. CASE i # Len(seen) + 1 - d
      <3>0. Len(seen) \in Nat
        OBVIOUS
      <3>1. i \in 1..(Len(seen) - d) /\ i + d \in 1..Len(seen)
        BY <1>5, <2>2, <3>0
      <3> QED
        BY <1>5, <3>1
    <2> QED
      BY <2>1, <2>2
  <1> QED
    BY <1>4, <1>5, <1>6

\* An event is the next one for a router: the numbers in between, if they are due at all,
\* were merged into it.
IsNext(L, among, base, upto, r, e) ==
    /\ L \in Seq(EventRecords) /\ among \subseteq Nat /\ base \in Nat /\ upto \in Nat
    /\ r \in Routers /\ e \in EventRecords
    /\ Ordered(r, L, upto) /\ Covers(r, L, among, base, upto)
    /\ upto < e.seq /\ e.seq \in 1..Len(L) /\ e = L[e.seq] /\ e.seq \in among
    /\ \A s \in among : base < s /\ upto < s /\ s < e.seq => Merges(L, s, e.seq, among)
    /\ ~r.resync /\ e.epoch = r.epoch /\ e.seq = r.seq + 1

\* The router has taken an event and is in step with it.
HasTaken(L, among, base, r, e, q) ==
    /\ q \in Routers /\ q.epoch = r.epoch /\ q.seq = e.seq /\ q.resync = e.resync
    /\ Ordered(q, L, e.seq) /\ Covers(q, L, among, base, e.seq)

\* EventRouter::ingest of the next event.
LEMMA IngestKeeps ==
    ASSUME NEW L, NEW among, NEW base, NEW upto, NEW r, NEW e, IsNext(L, among, base, upto, r, e),
           NEW limit \in Nat \ {0}, NEW q, q = Ingest(r, e, limit)
    PROVE  HasTaken(L, among, base, r, e, q)
  <1>0. /\ L \in Seq(EventRecords) /\ among \subseteq Nat /\ base \in Nat /\ upto \in Nat
        /\ r \in Routers /\ e \in EventRecords
        /\ Ordered(r, L, upto) /\ Covers(r, L, among, base, upto)
        /\ upto < e.seq /\ e.seq \in 1..Len(L) /\ e = L[e.seq] /\ e.seq \in among
        /\ \A s \in among : base < s /\ upto < s /\ s < e.seq => Merges(L, s, e.seq, among)
        /\ ~r.resync /\ e.epoch = r.epoch /\ e.seq = r.seq + 1
    BY DEF IsNext
  <1>1. /\ r.events \in Seq(EventRecords) /\ r.starts \in Seq(Nat) /\ r.seen \in Seq(Nat)
        /\ e.seq \in Nat /\ e.resync \in BOOLEAN /\ Len(r.events) \in Nat
    BY <1>0, EventFields DEF Routers
  <1>2. \A x \in 1..Len(r.seen) : r.seen[x] < e.seq /\ r.seen[x] <= e.seq
    <2>0. \A x \in 1..Len(r.seen) : r.seen[x] <= upto
      BY <1>0 DEF Ordered
    <2>1. \A x \in 1..Len(r.seen) : r.seen[x] <= upto /\ r.seen[x] \in Nat
      BY <1>1, <2>0
    <2> QED
      BY <1>0, <1>1, <2>1, SMTT(30)
  <1>3. e.seq \notin ToSet(r.seen)
    <2>1. DOMAIN r.seen = 1..Len(r.seen) /\ \A x \in 1..Len(r.seen) : r.seen[x] \in Nat
      BY <1>1
    <2>2. \A x \in DOMAIN r.seen : r.seen[x] # e.seq
      BY <1>1, <1>2, <2>1
    <2> QED
      BY <2>2 DEF ToSet
  <1> DEFINE seen == Newest(Append(r.seen, e.seq), limit)
             taken == [r EXCEPT !.seq = e.seq, !.resync = e.resync, !.seen = seen]
  <1>4. seen \in Seq(Nat) /\ \A i \in 1..Len(seen) : seen[i] <= e.seq
    BY <1>1, <1>2, SeenKeeps
  <1>5. q = IF Coalesces(r, e) THEN [taken EXCEPT !.events[Len(r.events)] = e]
            ELSE [taken EXCEPT !.events = Newest(Append(@, e), limit),
                               !.starts = Newest(Append(@, e.seq), limit)]
    BY <1>0, <1>3, Zenon DEF Ingest
  <1> HIDE DEF seen
  <1>6. CASE Coalesces(r, e)
    <2>1. q = [taken EXCEPT !.events[Len(r.events)] = e]
      BY <1>5, <1>6
    <2>2. r.events # <<>>
      BY <1>6 DEF Coalesces
    <2>3. /\ q.epoch = r.epoch /\ q.seq = e.seq /\ q.resync = e.resync /\ q.seen = seen
          /\ q.starts = r.starts /\ q.events = [r.events EXCEPT ![Len(r.events)] = e]
      BY <1>0, <2>1 DEF Routers
    <2>4. [r.events EXCEPT ![Len(r.events)] = e] \in Seq(EventRecords)
      <3>1. e \in EventRecords
        BY <1>0
      <3> QED
        BY <1>1, <2>2, <3>1
    <2>5. q \in Routers
      BY <1>0, <1>1, <1>4, <2>1, <2>4 DEF Routers
    <2>6. \A x \in 1..Len(q.seen) : q.seen[x] <= e.seq
      BY <1>4, <2>3
    <2>7. Ordered(q, L, e.seq) /\ Covers(q, L, among, base, e.seq)
      BY <1>0, <1>6, <2>3, <2>5, <2>6, MergeKeeps
    <2> QED
      BY <2>3, <2>5, <2>7 DEF HasTaken
  <1>7. CASE ~Coalesces(r, e)
    <2> DEFINE events == Newest(Append(r.events, e), limit)
               starts == Newest(Append(r.starts, e.seq), limit)
    <2>1. events \in Seq(EventRecords)
      <3>1. PICK g \in Seq(EventRecords) : g = r.events
        BY <1>1
      <3>2. Newest(Append(g, e), limit) \in Seq(EventRecords)
        BY <1>0, NewestAppend DEF Pushed
      <3> QED
        BY <3>1, <3>2
    <2>2. starts \in Seq(Nat)
      <3>1. PICK N : N = Nat
        OBVIOUS
      <3>2. PICK g \in Seq(N), y \in N : g = r.starts /\ y = e.seq
        BY <1>1, <3>1
      <3>3. Newest(Append(g, y), limit) \in Seq(N)
        BY <1>0, NewestAppend DEF Pushed
      <3> QED
        BY <3>1, <3>2, <3>3
    <2>3. q = [taken EXCEPT !.events = events, !.starts = starts]
      BY <1>0, <1>5, <1>7 DEF Routers
    <2>4. /\ q.epoch = r.epoch /\ q.seq = e.seq /\ q.resync = e.resync /\ q.seen = seen
          /\ q.starts = starts /\ q.events = events
      BY <1>0, <2>3 DEF Routers
    <2>5. q \in Routers
      <3> HIDE DEF events, starts
      <3> QED
        BY <1>0, <1>1, <1>4, <2>1, <2>2, <2>3 DEF Routers
    <2>6. \A x \in 1..Len(q.seen) : q.seen[x] <= e.seq
      BY <1>4, <2>4
    <2>7. Ordered(q, L, e.seq) /\ Covers(q, L, among, base, e.seq)
      BY <1>0, <2>4, <2>5, <2>6, AppendKeeps
    <2> QED
      BY <2>4, <2>5, <2>7 DEF HasTaken
  <1> QED
    BY <1>6, <1>7

-----------------------------------------------------------------------------
(* Logs that grow, and cursors that move past events that are not due.         *)

\* A log and a set of its numbers grow at the end.
Grows(L, M, among, more) ==
    /\ L \in Seq(EventRecords) /\ M \in Seq(EventRecords) /\ Len(L) <= Len(M)
    /\ \A i \in 1..Len(L) : M[i] = L[i]
    /\ among \subseteq more /\ more \subseteq Nat
    /\ \A k \in more : k <= Len(L) => k \in among

\* What was merged stays merged.
LEMMA MergesGrow ==
    ASSUME NEW L, NEW M, NEW among, NEW more, Grows(L, M, among, more),
           NEW i \in 1..Len(L), NEW j \in 1..Len(L), Merges(L, i, j, among)
    PROVE  Merges(M, i, j, more)
  <1>1. Len(L) \in Nat /\ i \in Nat /\ j \in Nat /\ i <= j
    BY DEF Grows, Merges
  <1>2. ASSUME NEW k \in more \cap i..j
        PROVE  /\ Coalescible(M[k]) /\ M[k].kind = M[i].kind
               /\ M[k].scope = M[i].scope /\ M[k].source = M[i].source
    <2>1. k \in 1..Len(L) /\ k \in among \cap i..j
      BY <1>1 DEF Grows
    <2>2. M[k] = L[k] /\ M[i] = L[i]
      BY <2>1 DEF Grows
    <2> QED
      BY <2>1, <2>2 DEF Merges
  <1> QED
    BY <1>1, <1>2 DEF Merges

\* A router keeps its place in a log that grows.
LEMMA RouterGrows ==
    ASSUME NEW L, NEW M, NEW among, NEW more, Grows(L, M, among, more),
           NEW r \in Routers, NEW base \in Nat, NEW upto \in Nat,
           upto <= Len(L) \/ upto <= base,
           Ordered(r, L, upto), Covers(r, L, among, base, upto)
    PROVE  Ordered(r, M, upto) /\ Covers(r, M, more, base, upto)
  <1>1. /\ r.events \in Seq(EventRecords) /\ r.starts \in Seq(Nat)
        /\ Len(L) \in Nat /\ Len(M) \in Nat
    BY DEF Routers, Grows
  <1>2. \A i \in 1..Len(r.events) : r.events[i].seq \in 1..Len(M) /\ r.events[i] = M[r.events[i].seq]
    <2> SUFFICES ASSUME NEW i \in 1..Len(r.events)
                 PROVE  r.events[i].seq \in 1..Len(M) /\ r.events[i] = M[r.events[i].seq]
      OBVIOUS
    <2>1. r.events[i].seq \in 1..Len(L) /\ r.events[i] = L[r.events[i].seq]
      BY DEF Ordered
    <2> QED
      BY <1>1, <2>1 DEF Grows
  <1>3. Ordered(r, M, upto)
    BY <1>2 DEF Ordered
  <1>4. \A i \in 1..Len(r.events) : r.events[i].seq \in more
    BY DEF Covers, Grows
  <1>5. ASSUME NEW s \in more, base < s, s <= upto, r.starts = <<>> \/ r.starts[1] <= s
        PROVE  Stands(r, M, s, more)
    <2>1. s \in Nat /\ s <= Len(L) /\ s \in 1..Len(L) /\ s \in among
      <3>1. s \in Nat
        BY DEF Grows
      <3>2. s <= Len(L)
        BY <1>1, <1>5, <3>1
      <3> QED
        BY <1>1, <1>5, <3>1, <3>2 DEF Grows
    <2>2. PICK i \in 1..Len(r.events) : s = r.events[i].seq \/ Merges(L, s, r.events[i].seq, among)
      BY <1>5, <2>1 DEF Covers, Stands
    <2>3. r.events[i].seq \in 1..Len(L)
      BY DEF Ordered
    <2>4. PICK j : j = r.events[i].seq
      OBVIOUS
    <2>5. s = j \/ Merges(M, s, j, more)
      BY <2>1, <2>2, <2>3, <2>4, MergesGrow
    <2> QED
      BY <2>4, <2>5 DEF Stands
  <1> QED
    BY <1>3, <1>4, <1>5 DEF Covers

\* A router that is moved past numbers that are not due keeps what it has.
LEMMA RouterRaised ==
    ASSUME NEW L, NEW among, among \subseteq Nat, NEW base \in Nat, NEW upto \in Nat, NEW top \in Nat,
           NEW r \in Routers, NEW q, upto <= top,
           q.events = r.events, q.starts = r.starts, q.seen = r.seen,
           Ordered(r, L, upto), Covers(r, L, among, base, upto),
           \A s \in among : ~(base < s /\ upto < s /\ s <= top)
    PROVE  Ordered(q, L, top) /\ Covers(q, L, among, base, top)
  <1>1. /\ r.events \in Seq(EventRecords) /\ r.starts \in Seq(Nat) /\ r.seen \in Seq(Nat)
    BY DEF Routers
  <1>2. \A i \in 1..Len(r.events) : r.events[i].seq <= top
    <2> SUFFICES ASSUME NEW i \in 1..Len(r.events) PROVE r.events[i].seq <= top
      OBVIOUS
    <2>1. r.events[i].seq \in Nat
      BY <1>1, EventFields
    <2>2. r.events[i].seq <= upto
      BY DEF Ordered
    <2> QED
      BY <2>1, <2>2
  <1>3. \A x \in 1..Len(r.seen) : r.seen[x] <= top
    <2> SUFFICES ASSUME NEW x \in 1..Len(r.seen) PROVE r.seen[x] <= top
      OBVIOUS
    <2>1. r.seen[x] \in Nat /\ r.seen[x] <= upto
      BY <1>1 DEF Ordered
    <2> QED
      BY <2>1
  <1>4. Ordered(q, L, top)
    BY <1>2, <1>3 DEF Ordered
  <1>5. ASSUME NEW s \in among, base < s, s <= top, q.starts = <<>> \/ q.starts[1] <= s
        PROVE  Stands(q, L, s, among)
    <2>1. s \in Nat /\ s <= upto
      <3>1. s \in Nat
        OBVIOUS
      <3>2. ~(upto < s)
        BY <1>5
      <3> QED
        BY <3>1, <3>2
    <2>2. Stands(r, L, s, among)
      BY <1>5, <2>1 DEF Covers
    <2> QED
      BY <2>2 DEF Stands
  <1> QED
    BY <1>4, <1>5 DEF Covers

-----------------------------------------------------------------------------
(* What a replay delivers.                                                     *)

\* A filter keeps the elements of its set in their order.
LEMMA ChosenPicks ==
    ASSUME NEW R, NEW s \in Seq(R), NEW set
    PROVE  Chosen(s, set) \in Seq(R) /\ Picks(Chosen(s, set), s, Len(s), set)
  <1>1. Chosen(s, set) = (CHOOSE kept : IsFilter(kept, s, set))[Len(s)]
    BY Zenon DEF Chosen, IsFilter
  <1>2. \E kept : IsFilter(kept, s, set)
    BY FilterExists
  <1>3. PICK kept : IsFilter(kept, s, set) /\ Chosen(s, set) = kept[Len(s)]
    BY <1>1, <1>2, Zenon
  <1>4. Len(s) \in 0..Len(s)
    OBVIOUS
  <1>5. kept[Len(s)] \in Seq(R \cap set)
    BY <1>3, <1>4, FilterType
  <1>6. kept[Len(s)] \in Seq(R)
    BY <1>5
  <1>7. Picks(kept[Len(s)], s, Len(s), set)
    BY <1>3, FilterOrder
  <1> QED
    BY <1>3, <1>6, <1>7

\* A sequence delivers numbers of a log: it has events of these numbers, in their order,
\* and for each number the event itself or one it was merged into.
Delivers(L, es, due, among) ==
    /\ es \in Seq(EventRecords)
    /\ \A i \in 1..Len(es) : es[i].seq \in due /\ es[i] = L[es[i].seq]
    /\ \A i, j \in 1..Len(es) : i < j => es[i].seq < es[j].seq
    /\ \A s \in due : \E i \in 1..Len(es) : s = es[i].seq \/ Merges(L, s, es[i].seq, among)

\* The part of a delivery that a filter lets through, when merging respects the filter.
LEMMA ChosenDelivers ==
    ASSUME NEW L, NEW es, NEW due, NEW among, NEW set, NEW part, Delivers(L, es, due, among),
           part \subseteq due, \A i \in 1..Len(es) : es[i] \in set <=> es[i].seq \in part,
           \A s \in part : \A j \in due : Merges(L, s, j, among) => j \in part
    PROVE  Delivers(L, Chosen(es, set), part, among)
  <1>1. PICK c : c = Chosen(es, set)
    OBVIOUS
  <1>2. es \in Seq(EventRecords)
    BY DEF Delivers
  <1>3. c \in Seq(EventRecords) /\ Picks(c, es, Len(es), set)
    BY <1>1, <1>2, ChosenPicks
  <1>4. \A i \in 1..Len(c) : c[i].seq \in part /\ c[i] = L[c[i].seq]
    <2> SUFFICES ASSUME NEW i \in 1..Len(c) PROVE c[i].seq \in part /\ c[i] = L[c[i].seq]
      OBVIOUS
    <2>1. c[i] \in set /\ \E p \in 1..Len(es) : c[i] = es[p]
      BY <1>3 DEF Picks
    <2>2. PICK p \in 1..Len(es) : c[i] = es[p]
      BY <2>1
    <2> QED
      BY <2>1, <2>2 DEF Delivers
  <1>5. ASSUME NEW i \in 1..Len(c), NEW j \in 1..Len(c), i < j
        PROVE  c[i].seq < c[j].seq
    <2>1. PICK p, q \in 1..Len(es) : p < q /\ c[i] = es[p] /\ c[j] = es[q]
      BY <1>3, <1>5 DEF Picks
    <2> QED
      BY <2>1 DEF Delivers
  <1>6. ASSUME NEW s \in part
        PROVE  \E i \in 1..Len(c) : s = c[i].seq \/ Merges(L, s, c[i].seq, among)
    <2>1. PICK p \in 1..Len(es) : s = es[p].seq \/ Merges(L, s, es[p].seq, among)
      BY <1>6 DEF Delivers
    <2>2. es[p].seq \in due
      BY DEF Delivers
    <2>3. es[p].seq \in part
      BY <2>1, <2>2
    <2>4. es[p] \in set
      BY <2>3
    <2>5. PICK i \in 1..Len(c) : c[i] = es[p]
      BY <1>3, <2>4 DEF Picks
    <2> QED
      BY <2>1, <2>5
  <1> QED
    BY <1>1, <1>3, <1>4, <1>5, <1>6 DEF Delivers

\* The numbers that a router holds or stands for.
Held(r, among, base, upto) ==
    {s \in among : \/ \E i \in 1..Len(r.events) : s = r.events[i].seq
                   \/ base < s /\ s <= upto /\ (r.starts = <<>> \/ r.starts[1] <= s)}

\* Everything that a router holds, as a delivery.
LEMMA RouterDelivers ==
    ASSUME NEW L, NEW among, NEW base \in Nat, NEW upto \in Nat, NEW r \in Routers,
           among \subseteq Nat, Ordered(r, L, upto), Covers(r, L, among, base, upto)
    PROVE  Delivers(L, r.events, Held(r, among, base, upto), among)
  <1> DEFINE due == Held(r, among, base, upto)
  <1>1. r.events \in Seq(EventRecords) /\ r.starts \in Seq(Nat) /\ Len(r.starts) = Len(r.events)
    BY DEF Routers, Ordered
  <1>2. \A i \in 1..Len(r.events) : r.events[i].seq \in due /\ r.events[i] = L[r.events[i].seq]
    BY DEF Ordered, Covers, Held
  <1>3. ASSUME NEW i \in 1..Len(r.events), NEW j \in 1..Len(r.events), i < j
        PROVE  r.events[i].seq < r.events[j].seq
    <2>1. r.events[i].seq \in Nat /\ r.events[j].seq \in Nat /\ r.starts[j] \in Nat
      <3>1. r.events[i] \in EventRecords /\ r.events[j] \in EventRecords /\ r.starts[j] \in Nat
        BY <1>1
      <3> QED
        BY <3>1, EventFields
    <2>2. r.events[i].seq < r.starts[j] /\ r.starts[j] <= r.events[j].seq
      BY <1>3 DEF Ordered
    <2> QED
      BY <2>1, <2>2, Between
  <1>4. ASSUME NEW s \in due
        PROVE  \E i \in 1..Len(r.events) : s = r.events[i].seq \/ Merges(L, s, r.events[i].seq, among)
    <2>1. CASE \E i \in 1..Len(r.events) : s = r.events[i].seq
      BY <2>1
    <2>2. CASE base < s /\ s <= upto /\ (r.starts = <<>> \/ r.starts[1] <= s)
      <3>1. s \in among
        BY DEF Held
      <3>2. Stands(r, L, s, among)
        BY <2>2, <3>1 DEF Covers
      <3> QED
        BY <3>2 DEF Stands
    <2> QED
      BY <2>1, <2>2 DEF Held
  <1> HIDE DEF due
  <1>5. Delivers(L, r.events, due, among)
    BY <1>1, <1>2, <1>3, <1>4 DEF Delivers
  <1> QED
    BY <1>5 DEF due

\* What is due of a log: DueBetween, of any log.
Due(L, from, to, scope) ==
    {i \in from + 1..to : /\ L[i].scope.space \in Visible \cup {None}
                          /\ ScopeMatches(L[i], scope)}

\* The events of a router after a cursor, when nothing after the cursor was dropped.
LEMMA ReplayDelivers ==
    ASSUME NEW L, NEW among, NEW base \in Nat, NEW upto \in Nat, NEW r \in Routers,
           among \subseteq Nat, Ordered(r, L, upto), Covers(r, L, among, base, upto),
           NEW after \in Nat, base <= after, r.starts = <<>> \/ r.starts[1] <= after + 1,
           NEW set, NEW part, part \subseteq among, \A s \in part : after < s /\ s <= upto,
           \A i \in 1..Len(r.events) : r.events[i] \in set <=> r.events[i].seq \in part,
           \A s \in part : \A j \in among : j <= upto /\ Merges(L, s, j, among) => j \in part
    PROVE  Delivers(L, Chosen(r.events, set), part, among)
  <1> DEFINE due == Held(r, among, base, upto)
  <1>1. Delivers(L, r.events, due, among)
    BY RouterDelivers
  <1>2. \A j \in due : j \in among /\ j <= upto
    BY DEF Ordered, Held
  <1>3. part \subseteq due
    <2> SUFFICES ASSUME NEW s \in part PROVE s \in due
      OBVIOUS
    <2>1. s \in Nat /\ s \in among /\ after < s /\ s <= upto
      OBVIOUS
    <2>2. base < s
      BY <2>1
    <2>3. r.starts = <<>> \/ r.starts[1] <= s
      <3>1. CASE r.starts # <<>>
        <4>1. r.starts[1] \in Nat
          BY <3>1 DEF Routers
        <4> QED
          BY <2>1, <3>1, <4>1
      <3> QED
        BY <3>1
    <2> QED
      BY <2>1, <2>2, <2>3 DEF Held
  <1> HIDE DEF due
  <1>4. \A s \in part : \A j \in due : Merges(L, s, j, among) => j \in part
    BY <1>2
  <1> QED
    BY <1>1, <1>3, <1>4, ChosenDelivers

-----------------------------------------------------------------------------
(* The broker's stream.                                                        *)

\* The events of an epoch are numbered from one; unless it demands a resync, the broker's
\* router is in step with the log and stands for all of it that it has not dropped.
BrokerInv ==
    /\ epoch \in Nat \ {0} /\ log \in Seq(EventRecords) /\ generation = Len(log)
    /\ \A i \in 1..Len(log) : log[i].seq = i /\ log[i].epoch = epoch
    /\ router \in Routers /\ router.epoch = epoch
    /\ ~router.resync =>
           /\ router.seq = Len(log) /\ Ordered(router, log, Len(log))
           /\ Covers(router, log, 1..Len(log), 0, Len(log))
           /\ \A i \in 1..Len(log) : ~log[i].resync

\* A router at a cursor is in step with whatever there is up to the cursor.
LEMMA RouterStarts ==
    ASSUME NEW at \in Nat, NEW e \in Nat, NEW L, NEW among,
           NEW r, r = RouterAt([epoch |-> e, seq |-> at])
    PROVE  /\ r \in Routers /\ r.epoch = e /\ r.seq = at /\ ~r.resync
           /\ Ordered(r, L, at) /\ (among \subseteq Nat => Covers(r, L, among, at, at))
  <1>1. /\ r.events = <<>> /\ r.starts = <<>> /\ r.seen = <<>> /\ r.epoch = e /\ r.seq = at
        /\ r.resync = FALSE
    BY DEF RouterAt
  <1>2. <<>> \in Seq(EventRecords) /\ <<>> \in Seq(Nat)
    OBVIOUS
  <1>3. r \in Routers
    BY <1>2 DEF RouterAt, Routers
  <1>4. Ordered(r, L, at)
    BY <1>1 DEF Ordered
  <1>5. among \subseteq Nat => Covers(r, L, among, at, at)
    <2>1. \A s \in Nat : ~(at < s /\ s <= at)
      OBVIOUS
    <2> QED
      BY <1>1, <2>1 DEF Covers
  <1> QED
    BY <1>1, <1>3, <1>4, <1>5

\* A broker that starts on a fresh ledger.
LEMMA BrokerStarts == EventInit => BrokerInv
  <1> SUFFICES ASSUME EventInit PROVE BrokerInv
    OBVIOUS
  <1>1. epoch = 1 /\ log = <<>> /\ generation = 0 /\ Len(log) = 0 /\ log \in Seq(EventRecords)
    BY DEF EventInit
  <1>2. router = RouterAt([epoch |-> 1, seq |-> 0])
    BY <1>1 DEF EventInit, Cursor
  <1>3. 1..Len(log) \subseteq Nat /\ 1 \in Nat /\ 0 \in Nat
    BY <1>1
  <1>4. /\ router \in Routers /\ router.epoch = 1 /\ router.seq = 0 /\ ~router.resync
        /\ Ordered(router, log, 0) /\ Covers(router, log, 1..Len(log), 0, 0)
    BY <1>2, <1>3, RouterStarts
  <1> QED
    BY <1>1, <1>4 DEF BrokerInv

\* The record of a template.
LEMMA NumberedEvent ==
    ASSUME NEW t \in Templates, epoch \in Nat, log \in Seq(EventRecords)
    PROVE  /\ Numbered(t) \in EventRecords /\ Numbered(t).seq = Len(log) + 1
           /\ Numbered(t).epoch = epoch /\ Numbered(t).resync = t.resync
           /\ Numbered(t).kind = t.kind /\ Numbered(t).tag = t.tag
  <1>1. t.resync \in BOOLEAN /\ Len(log) + 1 \in Nat
    BY EventAssumption
  <1> QED
    BY <1>1 DEF Numbered, EventRecords

\* One more event: the log grows, and the router follows.
LEMMA AppendStep ==
    ASSUME BrokerInv, NEW t \in Templates, AppendEvent(t)
    PROVE  /\ BrokerInv' /\ Len(log') = Len(log) + 1 /\ epoch' = epoch
           /\ Grows(log, log', 1..Len(log), 1..Len(log'))
  <1>1. PICK e : e = Numbered(t)
    OBVIOUS
  <1>2. /\ e \in EventRecords /\ e.seq = Len(log) + 1 /\ e.epoch = epoch /\ e.resync \in BOOLEAN
    BY <1>1, NumberedEvent, EventFields DEF BrokerInv
  <1>3. log' = Append(log, e) /\ router' = Ingest(router, e, MaxEvents) /\ generation' = generation + 1
        /\ epoch' = epoch
    BY <1>1 DEF AppendEvent
  <1>4. /\ Len(log) \in Nat /\ log' \in Seq(EventRecords) /\ Len(log') = Len(log) + 1
        /\ log'[Len(log) + 1] = e /\ \A i \in 1..Len(log) : log'[i] = log[i]
    BY <1>2, <1>3 DEF BrokerInv
  <1>5. Grows(log, log', 1..Len(log), 1..Len(log'))
    BY <1>4 DEF Grows, BrokerInv
  <1>6. \A i \in 1..Len(log') : log'[i].seq = i /\ log'[i].epoch = epoch
    <2> SUFFICES ASSUME NEW i \in 1..Len(log') PROVE log'[i].seq = i /\ log'[i].epoch = epoch
      OBVIOUS
    <2>1. i \in 1..Len(log) \/ i = Len(log) + 1
      BY <1>4
    <2> QED
      BY <1>2, <1>4, <2>1 DEF BrokerInv
  <1>7. MaxEvents \in Nat \ {0}
    BY EventAssumption
  <1>8. CASE router.resync
    <2>1. Ingest(router, e, MaxEvents) = router
      BY <1>2, <1>8, Zenon DEF Ingest, BrokerInv
    <2> QED
      BY <1>3, <1>4, <1>5, <1>6, <1>8, <2>1 DEF BrokerInv
  <1>9. CASE ~router.resync
    <2>1. /\ router \in Routers /\ router.epoch = epoch /\ router.seq = Len(log)
          /\ Ordered(router, log, Len(log)) /\ Covers(router, log, 1..Len(log), 0, Len(log))
          /\ \A i \in 1..Len(log) : ~log[i].resync
      BY <1>9 DEF BrokerInv
    <2>2. PICK L, among : L = log' /\ among = 1..Len(log')
      OBVIOUS
    <2>3. Ordered(router, L, Len(log)) /\ Covers(router, L, among, 0, Len(log))
      <3>1. PICK upto \in Nat, base \in Nat : upto = Len(log) /\ base = 0
        BY <1>4
      <3>2. Ordered(router, log, upto) /\ Covers(router, log, 1..Len(log), base, upto)
            /\ upto <= Len(log)
        BY <1>4, <2>1, <3>1
      <3>3. Grows(log, L, 1..Len(log), among)
        BY <1>5, <2>2
      <3>4. Ordered(router, L, upto) /\ Covers(router, L, among, base, upto)
        BY <2>1, <3>2, <3>3, RouterGrows
      <3> QED
        BY <3>1, <3>4
    <2>4. PICK q : q = Ingest(router, e, MaxEvents)
      OBVIOUS
    <2>5. /\ q \in Routers /\ q.epoch = router.epoch /\ q.seq = e.seq /\ q.resync = e.resync
          /\ Ordered(q, L, e.seq) /\ Covers(q, L, among, 0, e.seq)
      <3>1. PICK upto \in Nat, base \in Nat : upto = Len(log) /\ base = 0
        BY <1>4
      <3>2. /\ L \in Seq(EventRecords) /\ Ordered(router, L, upto) /\ Covers(router, L, among, base, upto)
            /\ among \subseteq Nat /\ upto < e.seq /\ e.seq \in 1..Len(L) /\ e = L[e.seq] /\ e.seq \in among
        BY <1>2, <1>4, <2>2, <2>3, <3>1
      <3>5. \A s \in among : base < s /\ upto < s /\ s < e.seq => Merges(L, s, e.seq, among)
        BY <1>2, <1>4, <3>1, <3>2
      <3>3. ~router.resync /\ e.epoch = router.epoch /\ e.seq = router.seq + 1
        BY <1>2, <2>1, <1>9
      <3>4. IsNext(L, among, base, upto, router, e)
        BY <1>2, <2>1, <3>2, <3>3, <3>5 DEF IsNext
      <3>6. HasTaken(L, among, base, router, e, q)
        BY <1>7, <2>4, <3>4, IngestKeeps
      <3> QED
        BY <3>1, <3>6 DEF HasTaken
    <2>6. ~q.resync => \A i \in 1..Len(log') : ~log'[i].resync
      <3> SUFFICES ASSUME ~q.resync, NEW i \in 1..Len(log') PROVE ~log'[i].resync
        OBVIOUS
      <3>1. i \in 1..Len(log) \/ i = Len(log) + 1
        BY <1>4
      <3> QED
        BY <1>4, <2>1, <2>5, <3>1
    <2>7. router' = q /\ e.seq = Len(log')
      BY <1>2, <1>3, <1>4, <2>4
    <2> QED
      BY <1>3, <1>4, <1>5, <1>6, <2>1, <2>2, <2>5, <2>6, <2>7 DEF BrokerInv
  <1> QED
    BY <1>8, <1>9

\* The host restarts.
LEMMA RestartStep ==
    BrokerInv /\ HostRestart => BrokerInv'
  <1> SUFFICES ASSUME BrokerInv, HostRestart PROVE BrokerInv'
    OBVIOUS
  <1>1. /\ epoch' = epoch + 1 /\ log' = <<>> /\ generation' = 0 /\ Len(log') = 0
        /\ log' \in Seq(EventRecords) /\ epoch' \in Nat \ {0}
    BY DEF HostRestart, BrokerInv
  <1>2. PICK e, at, r, L, among : /\ e = epoch' /\ r = router' /\ L = log' /\ among = 1..Len(log')
                                   /\ at = 0 /\ e \in Nat /\ at \in Nat
    BY <1>1
  <1>3. r = RouterAt([epoch |-> e, seq |-> at]) /\ among \subseteq Nat
    BY <1>1, <1>2 DEF HostRestart
  <1>4. /\ r \in Routers /\ r.epoch = e /\ r.seq = at /\ ~r.resync
        /\ Ordered(r, L, at) /\ Covers(r, L, among, at, at)
    BY <1>2, <1>3, RouterStarts
  <1> QED
    BY <1>1, <1>2, <1>4 DEF BrokerInv

\* An event that others were merged into is of their scope.
LEMMA MergedScope ==
    ASSUME NEW L, NEW among, among \subseteq Nat, NEW s \in among, NEW j \in among, Merges(L, s, j, among)
    PROVE  s <= j /\ L[j].scope = L[s].scope /\ Coalescible(L[s])
  <1>1. s \in Nat /\ j \in Nat /\ s <= j
    BY DEF Merges
  <1>2. j \in among \cap s..j /\ s \in among \cap s..j
    BY <1>1
  <1> QED
    BY <1>1, <1>2 DEF Merges

\* resume_events: the batch ends at the last event there is, and if the cursor is accepted it
\* delivers everything that is due after the cursor.
LEMMA ResumeGives ==
    ASSUME BrokerInv, NEW after, after.seq \in Nat, NEW scope, NEW batch, batch = ResumeEvents(after, scope)
    PROVE  /\ batch.epoch = epoch /\ batch.seq = Len(log) /\ batch.accepted \in BOOLEAN
           /\ batch.accepted =>
                  /\ after.epoch = epoch /\ after.seq <= Len(log) /\ ~router.resync
                  /\ Delivers(log, batch.events, Due(log, after.seq, Len(log), scope), 1..Len(log))
  <1> DEFINE lagged == after.epoch # epoch \/ after.seq > Len(log) \/ HistoryLagged(after.seq)
             b == Replay(router, after, scope)
             seen == {e \in ToSet(b.events) : e.scope.space \in Visible \cup {None}}
             wanted == {e \in ToSet(router.events) : e.seq > after.seq /\ ScopeMatches(e, scope)}
  <1>1. CASE lagged
    <2>1. batch = [accepted |-> FALSE, epoch |-> epoch, events |-> <<>>, seq |-> Len(log)]
      BY <1>1, Zenon DEF ResumeEvents
    <2> QED
      BY <2>1
  <1>2. CASE ~lagged
    <2>1. batch = [b EXCEPT !.epoch = epoch, !.seq = Len(log), !.events = Chosen(b.events, seen)]
      BY <1>2, Zenon DEF ResumeEvents
    <2> DEFINE refused == \/ router.resync \/ after.epoch # router.epoch \/ after.seq > router.seq
                          \/ router.starts # <<>> /\ after.seq + 1 < Head(router.starts)
    <2>2. /\ refused => b = [accepted |-> FALSE, epoch |-> router.epoch, events |-> <<>>, seq |-> router.seq]
          /\ ~refused => b = [accepted |-> TRUE, epoch |-> router.epoch, seq |-> router.seq,
                              events |-> Chosen(router.events, wanted)]
      BY Zenon DEF Replay
    <2> HIDE DEF b, seen, refused, wanted
    <2>3. CASE refused
      <3>1. b = [accepted |-> FALSE, epoch |-> router.epoch, events |-> <<>>, seq |-> router.seq]
        BY <2>2, <2>3
      <3>2. PICK es : batch = [b EXCEPT !.epoch = epoch, !.seq = Len(log), !.events = es]
        BY <2>1
      <3>3. batch.epoch = epoch /\ batch.seq = Len(log) /\ batch.accepted = FALSE
        BY <3>1, <3>2
      <3> QED
        BY <3>3
    <2>4. CASE ~refused
      <3>1. /\ batch.epoch = epoch /\ batch.seq = Len(log) /\ batch.accepted
            /\ batch.events = Chosen(b.events, seen) /\ b.events = Chosen(router.events, wanted)
        BY <2>1, <2>2, <2>4
      <3>2. /\ ~router.resync /\ after.epoch = epoch /\ Len(log) \in Nat /\ router \in Routers
            /\ router.seq = Len(log) /\ after.seq <= Len(log)
            /\ router.starts = <<>> \/ router.starts[1] <= after.seq + 1
        <4>1. /\ ~router.resync /\ after.epoch = router.epoch /\ ~(after.seq > router.seq)
              /\ router.starts = <<>> \/ ~(after.seq + 1 < Head(router.starts))
          BY <2>4 DEF refused
        <4>2. /\ router.epoch = epoch /\ router.seq = Len(log) /\ Len(log) \in Nat /\ router \in Routers
              /\ router.starts \in Seq(Nat)
          BY <4>1 DEF BrokerInv, Routers
        <4>3. router.starts = <<>> \/ (Head(router.starts) = router.starts[1] /\ router.starts[1] \in Nat)
          BY <4>2
        <4> QED
          BY <4>1, <4>2, <4>3
      <3>3. /\ Ordered(router, log, Len(log)) /\ Covers(router, log, 1..Len(log), 0, Len(log))
            /\ \A i \in 1..Len(log) : ~log[i].resync
        BY <3>2 DEF BrokerInv
      <3> DEFINE among == 1..Len(log)
                 part == {s \in among : after.seq < s /\ ScopeMatches(log[s], scope)}
                 due == Due(log, after.seq, Len(log), scope)
      <3>4. among \subseteq Nat /\ part \subseteq among
        BY <3>2
      <3>5. \A s \in among : \A j \in among :
                Merges(log, s, j, among) =>
                    /\ s <= j /\ log[j].scope = log[s].scope
                    /\ ScopeMatches(log[s], scope) => ScopeMatches(log[j], scope)
        <4> SUFFICES ASSUME NEW s \in among, NEW j \in among, Merges(log, s, j, among)
                     PROVE  /\ s <= j /\ log[j].scope = log[s].scope
                            /\ ScopeMatches(log[s], scope) => ScopeMatches(log[j], scope)
          OBVIOUS
        <4> HIDE DEF among
        <4>1. s <= j /\ log[j].scope = log[s].scope
          BY <3>4, MergedScope
        <4>2. ~log[s].resync /\ ~log[j].resync
          BY <3>3 DEF among
        <4> QED
          BY <4>1, <4>2 DEF ScopeMatches
      <3>6. Delivers(log, b.events, part, among)
        <4>1. \A i \in 1..Len(router.events) : router.events[i] \in wanted <=> router.events[i].seq \in part
          <5> SUFFICES ASSUME NEW i \in 1..Len(router.events)
                       PROVE  router.events[i] \in wanted <=> router.events[i].seq \in part
            OBVIOUS
          <5>1. router.events[i].seq \in among /\ router.events[i] = log[router.events[i].seq]
            BY <3>3 DEF Ordered
          <5>2. router.events[i] \in ToSet(router.events) /\ router.events[i].seq \in Nat
            <6>1. router.events \in Seq(EventRecords)
              BY <3>2 DEF Routers
            <6> QED
              BY <3>4, <5>1, <6>1 DEF ToSet
          <5>3. router.events[i].seq > after.seq <=> after.seq < router.events[i].seq
            BY <5>2
          <5> HIDE DEF among
          <5> QED
            BY <5>1, <5>2, <5>3 DEF wanted
        <4>2. \A s \in part : \A j \in among : j <= Len(log) /\ Merges(log, s, j, among) => j \in part
          <5> SUFFICES ASSUME NEW s \in part, NEW j \in among, Merges(log, s, j, among) PROVE j \in part
            OBVIOUS
          <5>1. s <= j /\ ScopeMatches(log[j], scope)
            BY <3>5
          <5>2. after.seq < j
            BY <3>4, <5>1
          <5> QED
            BY <5>1, <5>2
        <4>3. \A s \in part : after.seq < s /\ s <= Len(log)
          OBVIOUS
        <4>4. PICK base \in Nat, upto \in Nat, at \in Nat : base = 0 /\ upto = Len(log) /\ at = after.seq
          BY <3>2
        <4> HIDE DEF among, part
        <4>5. /\ Ordered(router, log, upto) /\ Covers(router, log, among, base, upto) /\ base <= at
              /\ router.starts = <<>> \/ router.starts[1] <= at + 1
              /\ \A s \in part : at < s /\ s <= upto
              /\ \A s \in part : \A j \in among : j <= upto /\ Merges(log, s, j, among) => j \in part
          BY <3>2, <3>3, <4>2, <4>3, <4>4 DEF among
        <4>6. Delivers(log, Chosen(router.events, wanted), part, among)
          BY <3>2, <3>4, <4>1, <4>5, ReplayDelivers
        <4> QED
          BY <3>1, <4>6
      <3>7. due \subseteq part
        BY <3>2 DEF Due
      <3>8. \A i \in 1..Len(b.events) : b.events[i] \in seen <=> b.events[i].seq \in due
        <4> SUFFICES ASSUME NEW i \in 1..Len(b.events)
                     PROVE  b.events[i] \in seen <=> b.events[i].seq \in due
          OBVIOUS
        <4>1. b.events[i].seq \in part /\ b.events[i] = log[b.events[i].seq] /\ b.events \in Seq(EventRecords)
          BY <3>6 DEF Delivers
        <4>2. b.events[i] \in ToSet(b.events)
          BY <4>1 DEF ToSet
        <4>3. b.events[i].seq \in after.seq + 1..Len(log) /\ ScopeMatches(log[b.events[i].seq], scope)
          BY <3>2, <4>1
        <4> QED
          BY <4>1, <4>2, <4>3 DEF seen, Due
      <3>9. \A s \in due : \A j \in part : Merges(log, s, j, among) => j \in due
        <4> SUFFICES ASSUME NEW s \in due, NEW j \in part, Merges(log, s, j, among) PROVE j \in due
          OBVIOUS
        <4>1. log[j].scope = log[s].scope
          BY <3>4, <3>5, <3>7
        <4>2. j \in after.seq + 1..Len(log)
          BY <3>2
        <4> QED
          BY <4>1, <4>2 DEF Due
      <3> HIDE DEF among, part, due
      <3>10. Delivers(log, Chosen(b.events, seen), due, among)
        BY <3>6, <3>7, <3>8, <3>9, ChosenDelivers
      <3> QED
        BY <3>1, <3>2, <3>10 DEF due, among
    <2> QED
      BY <2>3, <2>4
  <1> QED
    BY <1>1, <1>2

-----------------------------------------------------------------------------
(* A batch that is fed to a wait's own router.                                 *)

\* A router has taken everything of a set of numbers up to its own.
InStep(L, among, base, ep, q) ==
    /\ q \in Routers /\ q.epoch = ep /\ ~q.resync
    /\ Ordered(q, L, q.seq) /\ Covers(q, L, among, base, q.seq)

\* A batch delivers what a set has after a number, of a log without a demand to resynchronize.
IsBatch(L, among, base, at, ep, es) ==
    /\ L \in Seq(EventRecords) /\ among \subseteq 1..Len(L) /\ base \in Nat /\ at \in Nat /\ base <= at
    /\ \A i \in 1..Len(L) : L[i].seq = i /\ L[i].epoch = ep /\ ~L[i].resync
    /\ Delivers(L, es, {s \in among : at < s}, 1..Len(L))

\* What was merged into an event was merged into each one before it, and into fewer.
LEMMA MergesLess ==
    ASSUME NEW L, NEW all, NEW among, among \subseteq all, NEW s \in Nat, NEW j \in Nat, NEW k \in Nat,
           s <= k, k <= j, Merges(L, s, j, all)
    PROVE  Merges(L, s, k, among)
  <1>1. \A x \in among \cap s..k : x \in all \cap s..j
    OBVIOUS
  <1> QED
    BY <1>1 DEF Merges

\* The numbers of a batch.
LEMMA BatchNumbers ==
    ASSUME NEW L, NEW among, NEW base, NEW at, NEW ep, NEW es, IsBatch(L, among, base, at, ep, es)
    PROVE  /\ es \in Seq(EventRecords) /\ Len(es) \in Nat /\ among \subseteq Nat /\ Len(L) \in Nat
           /\ \A i \in 1..Len(es) :
                  /\ es[i] \in EventRecords /\ es[i].seq \in Nat /\ es[i].seq \in among /\ at < es[i].seq
                  /\ es[i].seq \in 1..Len(L) /\ es[i] = L[es[i].seq] /\ es[i].epoch = ep /\ ~es[i].resync
           /\ \A i, j \in 1..Len(es) : i < j => es[i].seq < es[j].seq
  <1>1. es \in Seq(EventRecords) /\ among \subseteq 1..Len(L) /\ L \in Seq(EventRecords)
    BY DEF IsBatch, Delivers
  <1>2. Len(es) \in Nat /\ Len(L) \in Nat /\ among \subseteq Nat
    BY <1>1
  <1>3. ASSUME NEW i \in 1..Len(es)
        PROVE  /\ es[i] \in EventRecords /\ es[i].seq \in Nat /\ es[i].seq \in among /\ at < es[i].seq
               /\ es[i].seq \in 1..Len(L) /\ es[i] = L[es[i].seq] /\ es[i].epoch = ep /\ ~es[i].resync
    <2>1. es[i] \in EventRecords
      BY <1>1
    <2>2. es[i].seq \in {s \in among : at < s} /\ es[i] = L[es[i].seq]
      BY DEF IsBatch, Delivers
    <2>3. es[i].seq \in 1..Len(L)
      BY <1>1, <2>2
    <2>4. L[es[i].seq].epoch = ep /\ ~L[es[i].seq].resync
      BY <2>3 DEF IsBatch
    <2> QED
      BY <1>2, <2>1, <2>2, <2>3, <2>4
  <1>4. \A i, j \in 1..Len(es) : i < j => es[i].seq < es[j].seq
    BY DEF IsBatch, Delivers
  <1> QED
    BY <1>1, <1>2, <1>3, <1>4

\* One event of a batch.
LEMMA FeedNext ==
    ASSUME NEW L, NEW among, NEW base, NEW at, NEW ep, NEW es, IsBatch(L, among, base, at, ep, es),
           NEW limit \in Nat \ {0}, NEW n \in Nat, n + 1 \in 1..Len(es),
           NEW q, InStep(L, among, base, ep, q), q.seq = IF n = 0 THEN at ELSE es[n].seq,
           NEW p, p = IngestNext(q, es[n + 1], limit)
    PROVE  InStep(L, among, base, ep, p) /\ p.seq = es[n + 1].seq
  <1> DEFINE e == es[n + 1]
             k == IF e.seq > q.seq + 1 THEN [q EXCEPT !.seq = e.seq - 1] ELSE q
  <1>1. /\ e \in EventRecords /\ e.seq \in Nat /\ e.seq \in among /\ at < e.seq /\ e.seq \in 1..Len(L)
        /\ e = L[e.seq] /\ e.epoch = ep /\ ~e.resync
    BY BatchNumbers
  <1>2. base \in Nat /\ at \in Nat /\ base <= at /\ L \in Seq(EventRecords)
    BY DEF IsBatch
  <1>3. q.seq \in Nat /\ at <= q.seq /\ q.seq < e.seq
    <2>1. CASE n = 0
      BY <1>1, <1>2, <2>1
    <2>2. CASE n # 0
      <3>1. n \in 1..Len(es) /\ n < n + 1
        BY <2>2
      <3>2. es[n].seq \in Nat /\ at < es[n].seq /\ es[n].seq < e.seq
        BY <3>1, BatchNumbers
      <3> QED
        BY <1>2, <2>2, <3>2
    <2> QED
      BY <2>1, <2>2
  <1>4. q \in Routers /\ q.epoch = ep /\ ~q.resync /\ Ordered(q, L, q.seq) /\ Covers(q, L, among, base, q.seq)
    BY DEF InStep
  <1>5. p = Ingest(k, e, limit)
    BY <1>4, Zenon DEF IngestNext
  <1>6. /\ k \in Routers /\ k.epoch = ep /\ ~k.resync /\ e.seq = k.seq + 1
        /\ k.events = q.events /\ k.starts = q.starts /\ k.seen = q.seen
    <2> HIDE DEF e
    <2>1. CASE e.seq > q.seq + 1
      <3>1. PICK x \in Nat : x = e.seq - 1 /\ e.seq = x + 1
        BY <1>1, <1>3, <2>1
      <3>2. k = [q EXCEPT !.seq = x]
        BY <2>1, <3>1
      <3> HIDE DEF k
      <3>3. k \in Routers
        BY <1>4, <3>2 DEF Routers
      <3>4. /\ k.epoch = q.epoch /\ k.resync = q.resync /\ k.seq = x
            /\ k.events = q.events /\ k.starts = q.starts /\ k.seen = q.seen
        BY <1>4, <3>2 DEF Routers
      <3> QED
        BY <1>4, <3>1, <3>3, <3>4
    <2>2. CASE ~(e.seq > q.seq + 1)
      <3>1. k = q /\ e.seq = q.seq + 1
        BY <1>1, <1>3, <2>2
      <3> QED
        BY <1>4, <3>1
    <2> QED
      BY <2>1, <2>2
  <1>7. PICK upto \in Nat : upto = q.seq
    BY <1>3
  <1>8. Ordered(k, L, upto) /\ Covers(k, L, among, base, upto)
    BY <1>4, <1>6, <1>7 DEF Ordered, Covers, Stands
  <1>9. ASSUME NEW s \in among, base < s, upto < s, s < e.seq
        PROVE  Merges(L, s, e.seq, among)
    <2>1. s \in Nat /\ among \subseteq Nat /\ among \subseteq 1..Len(L)
      BY BatchNumbers DEF IsBatch
    <2>2. s \in {x \in among : at < x}
      BY <1>2, <1>3, <1>7, <1>9, <2>1
    <2>3. PICK i \in 1..Len(es) : s = es[i].seq \/ Merges(L, s, es[i].seq, 1..Len(L))
      BY <2>2 DEF IsBatch, Delivers
    <2>4. es[i].seq \in Nat /\ s <= es[i].seq
      BY <2>1, <2>3, BatchNumbers DEF Merges
    <2>5. i \in Nat /\ Len(es) \in Nat
      BY BatchNumbers
    <2>6. i >= n + 1
      <3> SUFFICES ASSUME i <= n PROVE FALSE
        BY <2>5
      <3>1. n \in 1..Len(es) /\ n # 0
        BY <2>5
      <3>2. es[n].seq = q.seq /\ es[n].seq \in Nat
        BY <3>1, BatchNumbers
      <3>3. es[i].seq <= es[n].seq
        <4>1. CASE i = n
          BY <2>4, <4>1
        <4>2. CASE i < n
          <5>1. es[i].seq < es[n].seq
            BY <3>1, <4>2, BatchNumbers
          <5> QED
            BY <2>4, <3>2, <5>1
        <4> QED
          BY <2>5, <4>1, <4>2
      <3> QED
        BY <1>7, <1>9, <2>1, <2>4, <3>2, <3>3
    <2>7. e.seq <= es[i].seq /\ (s # es[i].seq)
      <3>1. CASE i = n + 1
        BY <1>1, <1>9, <2>1, <3>1
      <3>2. CASE i > n + 1
        <4>1. n + 1 < i
          BY <2>5, <3>2
        <4>2. e.seq < es[i].seq
          BY <4>1, BatchNumbers
        <4> QED
          BY <1>1, <1>9, <2>1, <2>4, <4>2
      <3> QED
        BY <2>5, <2>6, <3>1, <3>2
    <2>8. PICK j \in Nat, m \in Nat : j = es[i].seq /\ m = e.seq
      BY <1>1, <2>4
    <2>9. Merges(L, s, j, 1..Len(L)) /\ s <= m /\ m <= j
      BY <1>1, <1>9, <2>1, <2>3, <2>7, <2>8
    <2>10. Merges(L, s, m, among)
      BY <2>1, <2>9, MergesLess
    <2> QED
      BY <2>8, <2>10
  <1> HIDE DEF e, k
  <1>10. IsNext(L, among, base, upto, k, e)
    <2>1. among \subseteq Nat
      BY BatchNumbers
    <2> QED
      BY <1>1, <1>2, <1>3, <1>6, <1>7, <1>8, <1>9, <2>1 DEF IsNext
  <1>11. HasTaken(L, among, base, k, e, p)
    BY <1>5, <1>10, IngestKeeps
  <1> QED
    BY <1>1, <1>6, <1>11 DEF HasTaken, InStep, e

\* fed[n] is a router after the first n events of a batch.
IsFed(fed, r, es, limit) ==
    fed = [n \in 0..Len(es) |-> IF n = 0 THEN r ELSE IngestNext(fed[n - 1], es[n], limit)]

\* The recursive definition of IngestAll has a solution.
LEMMA FedExists ==
    ASSUME NEW r, NEW es \in Seq(EventRecords), NEW limit
    PROVE  \E fed : IsFed(fed, r, es, limit)
  <1> DEFINE Value(fed, i) == IF i = 0 THEN r ELSE IngestNext(fed[i - 1], es[i], limit)
             Upto(fed, n) == fed = [i \in 0..n |-> Value(fed, i)]
             Q == {n \in Nat : \E fed : Upto(fed, n)}
  <1>1. 0 \in Q
    <2>1. 0..0 = {0}
      OBVIOUS
    <2>2. Upto([i \in 0..0 |-> r], 0)
      BY <2>1
    <2> HIDE DEF Upto
    <2> QED
      BY <2>2
  <1>2. \A n \in Nat : n \in Q => n + 1 \in Q
    <2> SUFFICES ASSUME NEW n \in Nat, n \in Q PROVE n + 1 \in Q
      OBVIOUS
    <2>1. PICK fed : Upto(fed, n)
      OBVIOUS
    <2> DEFINE more == [i \in 0..(n + 1) |-> Value(fed, i)]
    <2> HIDE DEF Value
    <2>2. \A i \in 0..n : fed[i] = Value(fed, i) /\ more[i] = Value(fed, i)
      <3>1. \A i \in 0..n : i \in 0..(n + 1)
        OBVIOUS
      <3> QED
        BY <2>1, <3>1
    <2>3. \A i \in 0..(n + 1) : i # 0 => i - 1 \in 0..n
      OBVIOUS
    <2>4. \A i \in 0..(n + 1) : i # 0 => more[i - 1] = fed[i - 1]
      BY <2>2, <2>3
    <2>5. \A i \in 0..(n + 1) : Value(fed, i) = Value(more, i)
      BY <2>4 DEF Value
    <2>6. Upto(more, n + 1)
      BY <2>5
    <2> HIDE DEF Upto, more
    <2> QED
      BY <2>6
  <1> HIDE DEF Q
  <1>3. Len(es) \in Nat
    OBVIOUS
  <1>4. Len(es) \in Q
    BY <1>1, <1>2, <1>3, SetInduction
  <1> QED
    BY <1>4 DEF Q, IsFed

\* All events of a batch.
LEMMA FeedAll ==
    ASSUME NEW L, NEW among, NEW base, NEW at, NEW ep, NEW es, IsBatch(L, among, base, at, ep, es),
           NEW limit \in Nat \ {0}, NEW r, InStep(L, among, base, ep, r), r.seq = at,
           NEW q, q = IngestAll(r, es, limit)
    PROVE  /\ InStep(L, among, base, ep, q) /\ q.seq \in Nat /\ at <= q.seq
           /\ q.seq = at \/ q.seq \in 1..Len(L)
           /\ \A s \in among : s <= q.seq
  <1>a. at \in Nat
    BY DEF IsBatch
  <1>0. /\ es \in Seq(EventRecords) /\ Len(es) \in Nat /\ among \subseteq Nat /\ Len(L) \in Nat
        /\ at \in Nat
    BY <1>a, BatchNumbers
  <1>1. q = (CHOOSE fed : IsFed(fed, r, es, limit))[Len(es)]
    BY Zenon DEF IngestAll, IsFed
  <1>2. \E fed : IsFed(fed, r, es, limit)
    BY <1>0, FedExists
  <1>3. PICK fed : IsFed(fed, r, es, limit) /\ q = fed[Len(es)]
    BY <1>1, <1>2, Zenon
  <1>4. \A n \in 0..Len(es) : fed[n] = IF n = 0 THEN r ELSE IngestNext(fed[n - 1], es[n], limit)
    BY <1>3 DEF IsFed
  <1> DEFINE Q == {n \in Nat : n <= Len(es) =>
                       /\ InStep(L, among, base, ep, fed[n])
                       /\ fed[n].seq = IF n = 0 THEN at ELSE es[n].seq}
  <1>5. 0 \in Q
    <2>1. 0 \in 0..Len(es)
      BY <1>0
    <2>2. fed[0] = r
      BY <1>4, <2>1
    <2> QED
      BY <2>2
  <1>6. \A n \in Nat : n \in Q => n + 1 \in Q
    <2> SUFFICES ASSUME NEW n \in Nat, n \in Q, n + 1 <= Len(es)
                 PROVE  /\ InStep(L, among, base, ep, fed[n + 1])
                        /\ fed[n + 1].seq = IF n + 1 = 0 THEN at ELSE es[n + 1].seq
      OBVIOUS
    <2>1. n + 1 \in 0..Len(es) /\ n + 1 \in 1..Len(es) /\ n + 1 # 0 /\ n + 1 - 1 = n /\ n <= Len(es)
      BY <1>0
    <2>2. fed[n + 1] = IngestNext(fed[n], es[n + 1], limit)
      BY <1>4, <2>1
    <2>3. InStep(L, among, base, ep, fed[n]) /\ fed[n].seq = IF n = 0 THEN at ELSE es[n].seq
      BY <2>1
    <2>4. InStep(L, among, base, ep, fed[n + 1]) /\ fed[n + 1].seq = es[n + 1].seq
      BY <2>1, <2>2, <2>3, FeedNext
    <2> QED
      BY <2>1, <2>4
  <1> HIDE DEF Q
  <1>7. Len(es) \in Q
    BY <1>0, <1>5, <1>6, SetInduction
  <1>8. InStep(L, among, base, ep, q) /\ q.seq = IF Len(es) = 0 THEN at ELSE es[Len(es)].seq
    BY <1>0, <1>3, <1>7 DEF Q
  <1>9. CASE Len(es) = 0
    <2>1. ASSUME NEW s \in among PROVE s <= at
      <3>1. s \in Nat
        BY <1>0
      <3>2. ~(at < s)
        BY <1>9 DEF IsBatch, Delivers
      <3> QED
        BY <1>0, <3>1, <3>2
    <2> QED
      BY <1>0, <1>8, <1>9, <2>1
  <1>10. CASE Len(es) # 0
    <2>1. Len(es) \in 1..Len(es)
      BY <1>0, <1>10
    <2>2. PICK top : top = es[Len(es)].seq /\ top \in Nat /\ at < top /\ top \in 1..Len(L)
      BY <2>1, BatchNumbers
    <2>3. ASSUME NEW s \in among PROVE s <= top
      <3>1. s \in Nat
        BY <1>0
      <3>2. CASE at < s
        <4>1. PICK i \in 1..Len(es) : s = es[i].seq \/ Merges(L, s, es[i].seq, 1..Len(L))
          BY <3>2 DEF IsBatch, Delivers
        <4>2. es[i].seq \in Nat /\ s <= es[i].seq
          BY <3>1, <4>1, BatchNumbers DEF Merges
        <4>3. i = Len(es) \/ i < Len(es)
          BY <1>0
        <4>4. es[i].seq <= top
          <5>1. CASE i < Len(es)
            <6>1. es[i].seq < es[Len(es)].seq
              BY <2>1, <5>1, BatchNumbers
            <6> QED
              BY <2>2, <4>2, <6>1
          <5> QED
            BY <2>2, <4>2, <4>3, <5>1
        <4> QED
          BY <2>2, <3>1, <4>2, <4>4, Between
      <3>3. CASE ~(at < s)
        BY <1>0, <2>2, <3>1, <3>3
      <3> QED
        BY <3>2, <3>3
    <2> QED
      BY <1>0, <1>8, <1>10, <2>2, <2>3
  <1> QED
    BY <1>9, <1>10

\* The broker's answer to a cursor it accepts.
IsGiven(L, among, base, at, ep, batch) ==
    /\ IsBatch(L, among, base, at, ep, batch.events) /\ at <= Len(L)
    /\ batch.epoch = ep /\ batch.seq = Len(L) /\ batch.accepted

\* EventRouter::ingest_batch of an accepted batch: the router has everything up to the end
\* of the log.
LEMMA BatchTaken ==
    ASSUME NEW L, NEW among, NEW base, NEW at, NEW ep, NEW batch, IsGiven(L, among, base, at, ep, batch),
           NEW limit \in Nat \ {0}, NEW r, InStep(L, among, base, ep, r), r.seq = at,
           NEW q, q = IngestBatch(r, batch, limit)
    PROVE  InStep(L, among, base, ep, q) /\ q.seq = Len(L)
  <1> SUFFICES ASSUME IsBatch(L, among, base, at, ep, batch.events), at <= Len(L),
                      batch.epoch = ep, batch.seq = Len(L), batch.accepted
               PROVE  InStep(L, among, base, ep, q) /\ q.seq = Len(L)
    BY DEF IsGiven
  <1>1. PICK es : es = batch.events
    OBVIOUS
  <1>2. PICK all : all = IngestAll(r, es, limit)
    OBVIOUS
  <1>3. /\ InStep(L, among, base, ep, all) /\ all.seq \in Nat /\ at <= all.seq
        /\ all.seq = at \/ all.seq \in 1..Len(L)
        /\ \A s \in among : s <= all.seq
    BY <1>1, <1>2, FeedAll
  <1>4. r.epoch = ep /\ ~all.resync /\ all \in Routers
    BY <1>3 DEF InStep
  <1>5. Len(L) \in Nat /\ at \in Nat /\ base \in Nat /\ among \subseteq Nat
    BY BatchNumbers DEF IsBatch
  <1>6. all.seq <= Len(L) /\ ~(batch.seq < r.seq)
    BY <1>3, <1>5
  <1>7. q = IF batch.seq > all.seq THEN [all EXCEPT !.seq = batch.seq] ELSE all
    BY <1>1, <1>2, <1>4, <1>6, Zenon DEF IngestBatch
  <1>8. CASE batch.seq > all.seq
    <2>1. q = [all EXCEPT !.seq = Len(L)]
      BY <1>7, <1>8
    <2>2. /\ q \in Routers /\ q.epoch = all.epoch /\ q.resync = all.resync /\ q.seq = Len(L)
          /\ q.events = all.events /\ q.starts = all.starts /\ q.seen = all.seen
      BY <1>4, <1>5, <2>1 DEF Routers
    <2>3. PICK upto \in Nat, top \in Nat, b \in Nat : upto = all.seq /\ top = Len(L) /\ b = base
      BY <1>3, <1>5
    <2>4. \A s \in among : ~(b < s /\ upto < s /\ s <= top)
      BY <1>3, <1>5, <2>3
    <2>5. Ordered(all, L, upto) /\ Covers(all, L, among, b, upto) /\ upto <= top
      BY <1>3, <1>6, <2>3 DEF InStep
    <2>6. Ordered(q, L, top) /\ Covers(q, L, among, b, top)
      BY <1>4, <1>5, <2>2, <2>4, <2>5, RouterRaised
    <2> QED
      BY <1>3, <2>2, <2>3, <2>6 DEF InStep
  <1>9. CASE ~(batch.seq > all.seq)
    BY <1>3, <1>5, <1>6, <1>7, <1>9
  <1> QED
    BY <1>8, <1>9

-----------------------------------------------------------------------------
(* What a wait makes of the events it is given.                                *)

WaitFields ==
    {"pc", "outcome", "condition", "scope", "from", "cursor", "router", "generation", "deadline",
     "finished", "observed", "active", "quiet", "requests", "responses", "matched", "last", "polled"}

\* What observing events leaves alone.
SameWait(w, u) ==
    /\ DOMAIN w = WaitFields /\ DOMAIN u = WaitFields
    /\ u.pc = w.pc /\ u.outcome = w.outcome /\ u.condition = w.condition /\ u.scope = w.scope
    /\ u.from = w.from /\ u.cursor = w.cursor /\ u.router = w.router /\ u.generation = w.generation

\* The requests and the responses that were observed are noted, and none belong together.
RequestsNoted(L, w) ==
    /\ \A i \in w.observed : L[i].tag = "request" /\ L[i].request # None => L[i].request \in w.requests
    /\ \A i \in w.observed : L[i].tag = "response" /\ L[i].request # None =>
           \E x \in w.responses : x.request = L[i].request
    /\ \A x \in w.responses : x.seq \in Nat \ {0} /\ x.request \notin w.requests

\* A request that was observed is active, or its end was observed after it.
Answered(L, i, last) ==
    \E j \in i + 1..last : L[j].tag = "finished" /\ L[j].request = L[i].request

RequestsActive(L, w) ==
    \A i \in w.observed : L[i].tag = "request" /\ L[i].request # None /\ ~L[i].excluded =>
        L[i].request \in w.active \/ Answered(L, i, w.last)

\* What the conditions on the network need of the state of a wait that is not over.
NetworkNoted(L, w) ==
    /\ w.matched = 0 /\ w.last \in Nat /\ w.observed \subseteq 1..w.last
    /\ w.condition = "response" => RequestsNoted(L, w)
    /\ w.condition = "network_idle" => RequestsActive(L, w)

\* A wait that is not over, and an event of the log after those it has seen.
CanObserve(L, u, e) ==
    /\ DOMAIN u = WaitFields /\ NetworkNoted(L, u)
    /\ e.seq \in Nat /\ u.last < e.seq /\ e = L[e.seq]

\* WaitState::observe: the event is noted; if it settles nothing the notes are complete.
LEMMA ObserveNotes ==
    ASSUME NEW L, NEW u, NEW e, CanObserve(L, u, e), NEW x, x = Observe(u, e)
    PROVE  /\ SameWait(u, x) /\ x.finished = u.finished
           /\ x.last = e.seq /\ x.observed = u.observed \cup {e.seq}
           /\ x.condition = "network_idle" => x.matched = 0
           /\ x.matched = 0 => NetworkNoted(L, x)
  <1> SUFFICES ASSUME DOMAIN u = WaitFields, NetworkNoted(L, u), e.seq \in Nat, u.last < e.seq, e = L[e.seq]
               PROVE  /\ SameWait(u, x) /\ x.finished = u.finished
                      /\ x.last = e.seq /\ x.observed = u.observed \cup {e.seq}
                      /\ x.condition = "network_idle" => x.matched = 0
                      /\ x.matched = 0 => NetworkNoted(L, x)
    BY DEF CanObserve
  <1> DEFINE noted == [u EXCEPT !.last = e.seq, !.observed = @ \cup {e.seq}]
  <1>1. /\ SameWait(u, noted) /\ noted.finished = u.finished
        /\ noted.last = e.seq /\ noted.observed = u.observed \cup {e.seq}
        /\ noted.active = u.active /\ noted.requests = u.requests /\ noted.responses = u.responses
        /\ noted.matched = 0 /\ noted.condition = u.condition
    BY DEF SameWait, WaitFields, NetworkNoted
  <1>2. /\ u.last \in Nat /\ u.observed \subseteq 1..u.last /\ e.seq # 0
        /\ u.observed \cup {e.seq} \subseteq 1..e.seq
    BY DEF NetworkNoted
  <1> HIDE DEF noted
  <1>3. CASE u.condition = "network_idle"
    <2>1. x = ObserveNetwork(noted, e)
      BY <1>3, Zenon DEF Observe, noted
    <2> DEFINE kept == \A i \in u.observed : L[i].tag = "request" /\ L[i].request # None /\ ~L[i].excluded =>
                           L[i].request \in u.active \/ Answered(L, i, e.seq)
    <2>2. kept
      <3> SUFFICES ASSUME NEW i \in u.observed, L[i].tag = "request", L[i].request # None, ~L[i].excluded,
                          L[i].request \notin u.active
                   PROVE  Answered(L, i, e.seq)
        OBVIOUS
      <3>1. Answered(L, i, u.last)
        BY <1>3 DEF NetworkNoted, RequestsActive
      <3>2. PICK j \in i + 1..u.last : L[j].tag = "finished" /\ L[j].request = L[i].request
        BY <3>1 DEF Answered
      <3>3. i \in Nat /\ j \in i + 1..e.seq
        BY <1>2
      <3> QED
        BY <3>2, <3>3 DEF Answered
    <2>3. CASE StartsRequest(e) /\ ~e.excluded
      <3>1. x = [noted EXCEPT !.active = @ \cup {e.request}, !.quiet = MaxTime + 1]
        BY <2>1, <2>3, Zenon DEF ObserveNetwork, StartsRequest, FinishesRequest
      <3>2. /\ SameWait(u, x) /\ x.finished = u.finished /\ x.last = e.seq
            /\ x.observed = u.observed \cup {e.seq} /\ x.matched = 0
            /\ x.active = u.active \cup {e.request} /\ x.condition = u.condition
        BY <1>1, <3>1 DEF SameWait, WaitFields
      <3>3. RequestsActive(L, x)
        <4> SUFFICES ASSUME NEW i \in x.observed, L[i].tag = "request", L[i].request # None, ~L[i].excluded
                     PROVE  L[i].request \in x.active \/ Answered(L, i, x.last)
          BY DEF RequestsActive
        <4>1. CASE i = e.seq
          BY <3>2, <4>1
        <4>2. CASE i \in u.observed
          BY <2>2, <3>2, <4>2
        <4> QED
          BY <3>2, <4>1, <4>2
      <3> QED
        BY <1>2, <1>3, <3>2, <3>3 DEF NetworkNoted
    <2>4. CASE ~(StartsRequest(e) /\ ~e.excluded) /\ FinishesRequest(e)
      <3>1. x = [noted EXCEPT !.active = @ \ {e.request},
                              !.quiet = IF noted.active \subseteq {e.request} THEN clock ELSE @]
        BY <2>1, <2>4, Zenon DEF ObserveNetwork, StartsRequest, FinishesRequest
      <3>2. /\ SameWait(u, x) /\ x.finished = u.finished /\ x.last = e.seq
            /\ x.observed = u.observed \cup {e.seq} /\ x.matched = 0
            /\ x.active = u.active \ {e.request} /\ x.condition = u.condition
        BY <1>1, <3>1 DEF SameWait, WaitFields
      <3>3. RequestsActive(L, x)
        <4> SUFFICES ASSUME NEW i \in x.observed, L[i].tag = "request", L[i].request # None, ~L[i].excluded
                     PROVE  L[i].request \in x.active \/ Answered(L, i, x.last)
          BY DEF RequestsActive
        <4>0. i # e.seq
          BY <2>4 DEF FinishesRequest
        <4>1. i \in u.observed /\ i \in Nat /\ i < e.seq
          BY <1>2, <3>2, <4>0
        <4>2. CASE L[i].request = e.request
          <5>1. e.seq \in i + 1..e.seq /\ L[e.seq].tag = "finished" /\ L[e.seq].request = L[i].request
            BY <2>4, <4>1, <4>2 DEF FinishesRequest
          <5> QED
            BY <3>2, <5>1 DEF Answered
        <4>3. CASE L[i].request # e.request
          BY <2>2, <3>2, <4>1, <4>3
        <4> QED
          BY <4>2, <4>3
      <3> QED
        BY <1>2, <1>3, <3>2, <3>3 DEF NetworkNoted
    <2>5. CASE ~(StartsRequest(e) /\ ~e.excluded) /\ ~FinishesRequest(e)
      <3>1. x = noted
        BY <2>1, <2>5, Zenon DEF ObserveNetwork
      <3>3. RequestsActive(L, x)
        <4> SUFFICES ASSUME NEW i \in x.observed, L[i].tag = "request", L[i].request # None, ~L[i].excluded
                     PROVE  L[i].request \in x.active \/ Answered(L, i, x.last)
          BY DEF RequestsActive
        <4>0. i # e.seq
          BY <2>5 DEF StartsRequest
        <4> QED
          BY <1>1, <2>2, <3>1, <4>0
      <3> QED
        BY <1>1, <1>2, <1>3, <3>1, <3>3 DEF NetworkNoted
    <2> QED
      BY <2>3, <2>4, <2>5
  <1>4. CASE u.condition = "response"
    <2>1. x = ObserveResponse(noted, e)
      BY <1>4, Zenon DEF Observe, noted
    <2>2. /\ \A i \in u.observed : L[i].tag = "request" /\ L[i].request # None => L[i].request \in u.requests
          /\ \A i \in u.observed : L[i].tag = "response" /\ L[i].request # None =>
                 \E y \in u.responses : y.request = L[i].request
          /\ \A y \in u.responses : y.seq \in Nat \ {0} /\ y.request \notin u.requests
      BY <1>4 DEF NetworkNoted, RequestsNoted
    <2>3. CASE StartsRequest(e)
      <3> DEFINE found == \E y \in noted.responses : y.request = e.request
                 it == CHOOSE y \in noted.responses : y.request = e.request
      <3>1. x = [noted EXCEPT !.requests = @ \cup {e.request},
                              !.responses = {y \in @ : y.request # e.request},
                              !.matched = IF found THEN it.seq ELSE @]
        BY <2>1, <2>3, Zenon DEF ObserveResponse, StartsRequest, Responds
      <3>2. /\ SameWait(u, x) /\ x.finished = u.finished /\ x.last = e.seq
            /\ x.observed = u.observed \cup {e.seq} /\ x.matched = IF found THEN it.seq ELSE 0
            /\ x.requests = u.requests \cup {e.request} /\ x.condition = u.condition
            /\ x.responses = {y \in u.responses : y.request # e.request}
        <4> HIDE DEF found, it
        <4> QED
          BY <1>1, <3>1 DEF SameWait, WaitFields
      <3>3. ASSUME x.matched = 0 PROVE RequestsNoted(L, x)
        <4>1. ~found
          <5> SUFFICES ASSUME found PROVE FALSE
            OBVIOUS
          <5>1. it \in noted.responses
            OBVIOUS
          <5>2. it.seq # 0
            BY <1>1, <2>2, <5>1
          <5> HIDE DEF it, found
          <5> QED
            BY <3>2, <3>3, <5>2
        <4>2. \A y \in u.responses : y.request # e.request
          BY <1>1, <4>1
        <4>3. x.responses = u.responses
          BY <3>2, <4>2
        <4>4. e.tag = "request"
          BY <2>3 DEF StartsRequest
        <4>5. \A i \in x.observed : L[i].tag = "request" /\ L[i].request # None => L[i].request \in x.requests
          BY <2>2, <3>2
        <4>6. \A i \in x.observed : L[i].tag = "response" /\ L[i].request # None =>
                 \E y \in x.responses : y.request = L[i].request
          BY <2>2, <3>2, <4>3, <4>4
        <4>7. \A y \in x.responses : y.seq \in Nat \ {0} /\ y.request \notin x.requests
          BY <2>2, <3>2, <4>2, <4>3
        <4> QED
          BY <4>5, <4>6, <4>7 DEF RequestsNoted
      <3> HIDE DEF found, it
      <3> QED
        BY <1>2, <1>4, <3>2, <3>3 DEF NetworkNoted
    <2>4. CASE Responds(e) /\ e.request \in noted.requests
      <3>1. x = [noted EXCEPT !.matched = e.seq]
        BY <2>1, <2>4, Zenon DEF ObserveResponse, Responds, StartsRequest
      <3>2. /\ SameWait(u, x) /\ x.finished = u.finished /\ x.last = e.seq
            /\ x.observed = u.observed \cup {e.seq} /\ x.matched = e.seq /\ x.condition = u.condition
        BY <1>1, <3>1 DEF SameWait, WaitFields
      <3> QED
        BY <1>2, <1>4, <3>2
    <2>5. CASE Responds(e) /\ e.request \notin noted.requests
      <3>1. x = [noted EXCEPT !.responses = {y \in @ : y.request # e.request}
                                               \cup {[request |-> e.request, seq |-> e.seq]}]
        BY <2>1, <2>5, Zenon DEF ObserveResponse, Responds, StartsRequest
      <3>2. /\ SameWait(u, x) /\ x.finished = u.finished /\ x.last = e.seq
            /\ x.observed = u.observed \cup {e.seq} /\ x.matched = 0
            /\ x.requests = u.requests /\ x.condition = u.condition
            /\ x.responses = {y \in u.responses : y.request # e.request}
                                \cup {[request |-> e.request, seq |-> e.seq]}
        BY <1>1, <3>1 DEF SameWait, WaitFields
      <3>3. e.tag = "response" /\ e.request \notin u.requests
        BY <1>1, <2>5 DEF Responds
      <3>a. PICK new : new = [request |-> e.request, seq |-> e.seq]
        OBVIOUS
      <3>4. new = [request |-> e.request, seq |-> e.seq] /\ new.request = e.request /\ new.seq = e.seq
        BY <3>a
      <3>5. x.responses = {y \in u.responses : y.request # e.request} \cup {new}
        BY <3>2, <3>4
      <3>6. \A i \in x.observed : L[i].tag = "request" /\ L[i].request # None => L[i].request \in x.requests
        BY <2>2, <3>2, <3>3
      <3>7. ASSUME NEW i \in x.observed, L[i].tag = "response", L[i].request # None
            PROVE  \E y \in x.responses : y.request = L[i].request
        <4>1. CASE L[i].request = e.request
          BY <3>4, <3>5, <4>1
        <4>2. CASE L[i].request # e.request
          <5>1. i \in u.observed
            BY <3>2, <4>2
          <5>2. PICK y \in u.responses : y.request = L[i].request
            BY <2>2, <3>7, <5>1
          <5> QED
            BY <3>5, <4>2, <5>2
        <4> QED
          BY <4>1, <4>2
      <3>8. \A y \in x.responses : y.seq \in Nat \ {0} /\ y.request \notin x.requests
        BY <1>2, <2>2, <3>2, <3>3, <3>4, <3>5
      <3>9. RequestsNoted(L, x)
        BY <3>6, <3>7, <3>8 DEF RequestsNoted
      <3> QED
        BY <1>2, <1>4, <3>2, <3>9 DEF NetworkNoted
    <2>6. CASE ~StartsRequest(e) /\ ~Responds(e)
      <3>1. x = noted
        BY <2>1, <2>6, Zenon DEF ObserveResponse
      <3>2. RequestsNoted(L, x)
        <4>1. \A i \in x.observed : i = e.seq \/ i \in u.observed
          BY <1>1, <3>1
        <4> QED
          BY <1>1, <2>2, <2>6, <3>1, <4>1 DEF RequestsNoted, StartsRequest, Responds
      <3> QED
        BY <1>1, <1>2, <1>4, <3>1, <3>2 DEF NetworkNoted
    <2> QED
      BY <2>3, <2>4, <2>5, <2>6
  <1>5. CASE u.condition = "stable_dom"
    <2>1. x = ObserveDom(noted, e)
      BY <1>5, Zenon DEF Observe, noted
    <2>2. x = [noted EXCEPT !.quiet = clock] \/ x = noted
      BY <2>1 DEF ObserveDom
    <2>3. /\ SameWait(u, x) /\ x.finished = u.finished /\ x.last = e.seq
          /\ x.observed = u.observed \cup {e.seq} /\ x.matched = 0 /\ x.condition = u.condition
      BY <1>1, <2>2 DEF SameWait, WaitFields
    <2> QED
      BY <1>2, <1>5, <2>3 DEF NetworkNoted
  <1>6. CASE u.condition \notin {"network_idle", "response", "stable_dom"}
    <2>1. x = IF Wanted(e) THEN [noted EXCEPT !.matched = e.seq] ELSE noted
      BY <1>6, Zenon DEF Observe, noted
    <2>3. /\ SameWait(u, x) /\ x.finished = u.finished /\ x.last = e.seq
          /\ x.observed = u.observed \cup {e.seq} /\ x.condition = u.condition
          /\ x.matched = e.seq \/ x.matched = 0
      BY <1>1, <2>1 DEF SameWait, WaitFields
    <2> QED
      BY <1>2, <1>6, <2>3 DEF NetworkNoted
  <1> QED
    BY <1>3, <1>4, <1>5, <1>6

\* A wait has ended with a match; one for an idle network has no request open.
HasMatched(L, x, v) ==
    /\ DOMAIN v = WaitFields /\ v.pc = "done" /\ v.outcome = "matched"
    /\ v.condition = x.condition /\ v.scope = x.scope /\ v.from = x.from
    /\ v.condition = "network_idle" => v.matched = 0 /\ v.active = {} /\ RequestsActive(L, v)

\* The end of an observation: the wait goes on, ends, or is finished without an event.
LEMMA SettleGives ==
    ASSUME NEW L, NEW x, DOMAIN x = WaitFields, x.last \in Nat,
           x.condition = "network_idle" => x.matched = 0 /\ RequestsActive(L, x),
           NEW v, v = Settle(x)
    PROVE  \/ v = x /\ x.matched = 0
           \/ HasMatched(L, x, v) /\ v.observed = x.observed /\ v.last = x.last
           \/ x.matched = 0 /\ x.last = 0 /\ v = [x EXCEPT !.finished = TRUE]
  <1>1. CASE ~Satisfied(x)
    <2>1. v = x /\ x.matched = 0
      BY <1>1, Zenon DEF Settle, Satisfied
    <2> QED
      BY <2>1
  <1>2. CASE Satisfied(x) /\ Reported(x) # 0
    <2>1. v = [x EXCEPT !.pc = "done", !.outcome = "matched", !.finished = TRUE]
      BY <1>2, Zenon DEF Settle, Ended
    <2>2. /\ DOMAIN v = WaitFields /\ v.pc = "done" /\ v.outcome = "matched"
          /\ v.condition = x.condition /\ v.scope = x.scope /\ v.from = x.from
          /\ v.matched = x.matched /\ v.active = x.active /\ v.observed = x.observed /\ v.last = x.last
      BY <2>1 DEF WaitFields
    <2>3. x.condition = "network_idle" => x.active = {}
      BY <1>2 DEF Satisfied
    <2>4. x.condition = "network_idle" => RequestsActive(L, v)
      BY <2>2 DEF RequestsActive
    <2> QED
      BY <2>2, <2>3, <2>4 DEF HasMatched
  <1>3. CASE Satisfied(x) /\ Reported(x) = 0
    <2>1. v = [x EXCEPT !.finished = TRUE]
      BY <1>3, Zenon DEF Settle
    <2>2. x.matched = 0 /\ x.last = 0
      BY <1>3 DEF Reported
    <2> QED
      BY <2>1, <2>2
  <1> QED
    BY <1>1, <1>2, <1>3

\* Events that a wait has not seen, in their order.
AreNew(L, w, es) ==
    /\ es \in Seq(EventRecords)
    /\ \A i \in 1..Len(es) : es[i].seq \in Nat /\ w.last < es[i].seq /\ es[i] = L[es[i].seq] /\ ~es[i].resync
    /\ \A i, j \in 1..Len(es) : i < j => es[i].seq < es[j].seq

\* What a wait has noted after n of the events.
NotedUpTo(w, u, es, n) ==
    /\ u.observed = w.observed \cup {es[k].seq : k \in 1..n}
    /\ u.last = IF n = 0 THEN w.last ELSE es[n].seq

\* It goes on, or has ended with a match at one of the events.
GoesOn(L, w, u, es, n) ==
    SameWait(w, u) /\ u.finished = w.finished /\ NotedUpTo(w, u, es, n) /\ NetworkNoted(L, u)

HasEnded(L, w, u, es) ==
    HasMatched(L, w, u) /\ \E m \in 0..Len(es) : NotedUpTo(w, u, es, m)

\* One event of a poll: the wait goes on with it noted, or has ended.
LEMMA ObserveNextEvent ==
    ASSUME NEW L, NEW w, w.pc # "done", NEW es, AreNew(L, w, es), NEW n \in Nat, n + 1 \in 1..Len(es),
           NEW u, GoesOn(L, w, u, es, n) \/ HasEnded(L, w, u, es),
           NEW v, v = ObserveEvent(u, es[n + 1])
    PROVE  GoesOn(L, w, v, es, n + 1) \/ HasEnded(L, w, v, es)
  <1>1. CASE HasEnded(L, w, u, es)
    <2>1. v = u
      BY <1>1 DEF ObserveEvent, HasEnded, HasMatched
    <2> QED
      BY <1>1, <2>1
  <1>2. CASE GoesOn(L, w, u, es, n)
    <2>1. PICK e : e = es[n + 1]
      OBVIOUS
    <2>2. e.seq \in Nat /\ w.last < e.seq /\ e = L[e.seq] /\ ~e.resync /\ Len(es) \in Nat
      BY <2>1 DEF AreNew
    <2>3. /\ SameWait(w, u) /\ u.finished = w.finished /\ NetworkNoted(L, u) /\ u.last \in Nat
          /\ u.observed = w.observed \cup {es[k].seq : k \in 1..n}
          /\ u.last = IF n = 0 THEN w.last ELSE es[n].seq
      BY <1>2 DEF GoesOn, NotedUpTo, NetworkNoted
    <2>4. u.last < e.seq
      <3>1. CASE n = 0
        BY <2>2, <2>3, <3>1
      <3>2. CASE n # 0
        <4>1. n \in 1..Len(es) /\ n < n + 1
          BY <2>2, <3>2
        <4> QED
          BY <2>1, <2>3, <3>2, <4>1 DEF AreNew
      <3> QED
        BY <3>1, <3>2
    <2>5. PICK x : x = Observe(u, e)
      OBVIOUS
    <2>6. v = Settle(x)
      <3>1. u.pc # "done" /\ ~SignalsResync(e)
        BY <2>2, <2>3 DEF SameWait, SignalsResync
      <3> QED
        BY <2>1, <2>5, <3>1, Zenon DEF ObserveEvent
    <2>7. DOMAIN u = WaitFields
      BY <2>3 DEF SameWait
    <2>8. /\ SameWait(u, x) /\ x.finished = u.finished
          /\ x.last = e.seq /\ x.observed = u.observed \cup {e.seq}
          /\ x.condition = "network_idle" => x.matched = 0
          /\ x.matched = 0 => NetworkNoted(L, x)
      <3>1. NetworkNoted(L, u) /\ e.seq \in Nat /\ e = L[e.seq]
        BY <2>2, <2>3
      <3>2. CanObserve(L, u, e)
        BY <2>4, <2>7, <3>1 DEF CanObserve
      <3> QED
        BY <2>5, <3>2, ObserveNotes
    <2>9. NotedUpTo(w, x, es, n + 1)
      <3>1. {es[k].seq : k \in 1..(n + 1)} = {es[k].seq : k \in 1..n} \cup {e.seq}
        BY <2>1
      <3> QED
        BY <2>1, <2>3, <2>8, <3>1 DEF NotedUpTo
    <2>10. SameWait(w, x) /\ x.finished = w.finished /\ x.last # 0 /\ x.last \in Nat /\ DOMAIN x = WaitFields
      BY <2>2, <2>3, <2>4, <2>8 DEF SameWait
    <2>11. x.condition = "network_idle" => x.matched = 0 /\ RequestsActive(L, x)
      BY <2>8 DEF NetworkNoted
    <2>12. \/ v = x /\ x.matched = 0
           \/ HasMatched(L, x, v) /\ v.observed = x.observed /\ v.last = x.last
           \/ x.matched = 0 /\ x.last = 0 /\ v = [x EXCEPT !.finished = TRUE]
      BY <2>6, <2>10, <2>11, SettleGives
    <2>13. CASE v = x /\ x.matched = 0
      BY <2>8, <2>9, <2>10, <2>13 DEF GoesOn
    <2>14. CASE HasMatched(L, x, v) /\ v.observed = x.observed /\ v.last = x.last
      <3>1. HasMatched(L, w, v)
        BY <2>10, <2>14 DEF HasMatched, SameWait
      <3>2. NotedUpTo(w, v, es, n + 1)
        BY <2>9, <2>14 DEF NotedUpTo
      <3>3. n + 1 \in 0..Len(es)
        BY <2>2
      <3> QED
        BY <3>1, <3>2, <3>3 DEF HasEnded
    <2> QED
      BY <2>10, <2>12, <2>13, <2>14
  <1> QED
    BY <1>1, <1>2

\* after[n] is a wait after the first n events.
IsObserved(after, w, es) ==
    after = [n \in 0..Len(es) |-> IF n = 0 THEN w ELSE ObserveEvent(after[n - 1], es[n])]

\* The recursive definition of ObserveAll has a solution.
LEMMA ObservedExists ==
    ASSUME NEW w, NEW es \in Seq(EventRecords)
    PROVE  \E after : IsObserved(after, w, es)
  <1> DEFINE Value(after, i) == IF i = 0 THEN w ELSE ObserveEvent(after[i - 1], es[i])
             Upto(after, n) == after = [i \in 0..n |-> Value(after, i)]
             Q == {n \in Nat : \E after : Upto(after, n)}
  <1>1. 0 \in Q
    <2>1. 0..0 = {0}
      OBVIOUS
    <2>2. Upto([i \in 0..0 |-> w], 0)
      BY <2>1
    <2> HIDE DEF Upto
    <2> QED
      BY <2>2
  <1>2. \A n \in Nat : n \in Q => n + 1 \in Q
    <2> SUFFICES ASSUME NEW n \in Nat, n \in Q PROVE n + 1 \in Q
      OBVIOUS
    <2>1. PICK after : Upto(after, n)
      OBVIOUS
    <2> DEFINE more == [i \in 0..(n + 1) |-> Value(after, i)]
    <2> HIDE DEF Value
    <2>2. \A i \in 0..n : after[i] = Value(after, i) /\ more[i] = Value(after, i)
      <3>1. \A i \in 0..n : i \in 0..(n + 1)
        OBVIOUS
      <3> QED
        BY <2>1, <3>1
    <2>3. \A i \in 0..(n + 1) : i # 0 => i - 1 \in 0..n
      OBVIOUS
    <2>4. \A i \in 0..(n + 1) : i # 0 => more[i - 1] = after[i - 1]
      BY <2>2, <2>3
    <2>5. \A i \in 0..(n + 1) : Value(after, i) = Value(more, i)
      BY <2>4 DEF Value
    <2>6. Upto(more, n + 1)
      BY <2>5
    <2> HIDE DEF Upto, more
    <2> QED
      BY <2>6
  <1> HIDE DEF Q
  <1>3. Len(es) \in Nat
    OBVIOUS
  <1>4. Len(es) \in Q
    BY <1>1, <1>2, <1>3, SetInduction
  <1> QED
    BY <1>4 DEF Q, IsObserved

\* All events of a poll: the wait has noted them all and goes on (perhaps finished with
\* nothing to report), or has ended with a match.
LEMMA ObserveAllGives ==
    ASSUME NEW L, NEW w, DOMAIN w = WaitFields, w.pc # "done", NetworkNoted(L, w),
           NEW es, AreNew(L, w, es), NEW v, v = ObserveAll(w, es)
    PROVE  \/ SameWait(w, v) /\ NotedUpTo(w, v, es, Len(es)) /\ NetworkNoted(L, v)
              /\ v.finished \in {w.finished, TRUE}
           \/ HasEnded(L, w, v, es)
  <1>0. es \in Seq(EventRecords) /\ Len(es) \in Nat
    BY DEF AreNew
  <1>1. v = Settle((CHOOSE after : IsObserved(after, w, es))[Len(es)])
    BY Zenon DEF ObserveAll, IsObserved
  <1>2. \E after : IsObserved(after, w, es)
    BY <1>0, ObservedExists
  <1>3. PICK after : IsObserved(after, w, es) /\ v = Settle(after[Len(es)])
    BY <1>1, <1>2, Zenon
  <1>4. \A n \in 0..Len(es) : after[n] = IF n = 0 THEN w ELSE ObserveEvent(after[n - 1], es[n])
    BY <1>3 DEF IsObserved
  <1> DEFINE Q == {n \in Nat : n <= Len(es) =>
                       GoesOn(L, w, after[n], es, n) \/ HasEnded(L, w, after[n], es)}
  <1>5. 0 \in Q
    <2>1. 0 \in 0..Len(es)
      BY <1>0
    <2>2. after[0] = w
      BY <1>4, <2>1
    <2>3. {es[k].seq : k \in 1..0} = {}
      OBVIOUS
    <2>4. GoesOn(L, w, w, es, 0)
      BY <2>3 DEF GoesOn, SameWait, NotedUpTo
    <2> QED
      BY <2>2, <2>4
  <1>6. \A n \in Nat : n \in Q => n + 1 \in Q
    <2> SUFFICES ASSUME NEW n \in Nat, n \in Q, n + 1 <= Len(es)
                 PROVE  GoesOn(L, w, after[n + 1], es, n + 1) \/ HasEnded(L, w, after[n + 1], es)
      OBVIOUS
    <2>1. n + 1 \in 0..Len(es) /\ n + 1 \in 1..Len(es) /\ n + 1 # 0 /\ n + 1 - 1 = n /\ n <= Len(es)
      BY <1>0
    <2>2. after[n + 1] = ObserveEvent(after[n], es[n + 1])
      BY <1>4, <2>1
    <2>3. GoesOn(L, w, after[n], es, n) \/ HasEnded(L, w, after[n], es)
      BY <2>1
    <2> QED
      BY <2>1, <2>2, <2>3, ObserveNextEvent
  <1> HIDE DEF Q
  <1>7. Len(es) \in Q
    BY <1>0, <1>5, <1>6, SetInduction
  <1>8. PICK u : u = after[Len(es)] /\ v = Settle(u)
    BY <1>3
  <1>9. GoesOn(L, w, u, es, Len(es)) \/ HasEnded(L, w, u, es)
    BY <1>0, <1>7, <1>8 DEF Q
  <1>10. CASE GoesOn(L, w, u, es, Len(es))
    <2>1. /\ SameWait(w, u) /\ u.finished = w.finished /\ NotedUpTo(w, u, es, Len(es))
          /\ NetworkNoted(L, u) /\ DOMAIN u = WaitFields /\ u.last \in Nat
      BY <1>10 DEF GoesOn, SameWait, NetworkNoted
    <2>2. u.condition = "network_idle" => u.matched = 0 /\ RequestsActive(L, u)
      BY <2>1 DEF NetworkNoted
    <2>3. \/ v = u /\ u.matched = 0
          \/ HasMatched(L, u, v) /\ v.observed = u.observed /\ v.last = u.last
          \/ u.matched = 0 /\ u.last = 0 /\ v = [u EXCEPT !.finished = TRUE]
      <3>1. DOMAIN u = WaitFields /\ u.last \in Nat /\ v = Settle(u)
        BY <1>8, <2>1
      <3> QED
        BY <2>2, <3>1, SettleGives
    <2>4. CASE v = u
      BY <2>1, <2>4
    <2>5. CASE HasMatched(L, u, v) /\ v.observed = u.observed /\ v.last = u.last
      <3>1. HasMatched(L, w, v)
        BY <2>1, <2>5 DEF HasMatched, SameWait
      <3>2. NotedUpTo(w, v, es, Len(es)) /\ Len(es) \in 0..Len(es)
        BY <1>0, <2>1, <2>5 DEF NotedUpTo
      <3> QED
        BY <3>1, <3>2 DEF HasEnded
    <2>6. CASE v = [u EXCEPT !.finished = TRUE]
      <3>1. /\ SameWait(u, v) /\ v.finished = TRUE /\ v.observed = u.observed /\ v.last = u.last
            /\ v.matched = u.matched /\ v.requests = u.requests /\ v.responses = u.responses
            /\ v.active = u.active
        BY <2>1, <2>6 DEF SameWait, WaitFields
      <3>2. SameWait(w, v)
        BY <2>1, <3>1 DEF SameWait
      <3>3. NotedUpTo(w, v, es, Len(es))
        BY <2>1, <3>1 DEF NotedUpTo
      <3>4. NetworkNoted(L, v)
        BY <2>1, <3>1 DEF NetworkNoted, RequestsNoted, RequestsActive, SameWait
      <3> QED
        BY <3>1, <3>2, <3>3, <3>4
    <2> QED
      BY <2>3, <2>4, <2>5, <2>6
  <1>11. CASE HasEnded(L, w, u, es)
    <2>1. HasMatched(L, w, u) /\ DOMAIN u = WaitFields
      BY <1>11 DEF HasEnded, HasMatched
    <2>2. PICK m \in 0..Len(es) : NotedUpTo(w, u, es, m)
      BY <1>11 DEF HasEnded
    <2>3. u.last \in Nat
      <3>1. CASE m = 0
        BY <2>2, <3>1 DEF NotedUpTo, NetworkNoted
      <3>2. CASE m # 0
        <4>1. m \in 1..Len(es)
          BY <1>0, <3>2
        <4> QED
          BY <2>2, <3>2, <4>1 DEF NotedUpTo, AreNew
      <3> QED
        BY <3>1, <3>2
    <2>4. u.condition = "network_idle" => u.matched = 0 /\ RequestsActive(L, u)
      BY <2>1 DEF HasMatched
    <2>5. \/ v = u /\ u.matched = 0
          \/ HasMatched(L, u, v) /\ v.observed = u.observed /\ v.last = u.last
          \/ u.matched = 0 /\ u.last = 0 /\ v = [u EXCEPT !.finished = TRUE]
      <3>1. v = Settle(u)
        BY <1>8
      <3> QED
        BY <2>1, <2>3, <2>4, <3>1, SettleGives
    <2>6. HasMatched(L, w, v) /\ v.observed = u.observed /\ v.last = u.last
      <3>1. CASE v = u
        BY <2>1, <3>1
      <3>2. CASE HasMatched(L, u, v) /\ v.observed = u.observed /\ v.last = u.last
        BY <2>1, <3>2 DEF HasMatched
      <3>3. CASE v = [u EXCEPT !.finished = TRUE]
        <4>1. /\ DOMAIN v = WaitFields /\ v.pc = u.pc /\ v.outcome = u.outcome /\ v.condition = u.condition
              /\ v.scope = u.scope /\ v.from = u.from /\ v.matched = u.matched /\ v.active = u.active
              /\ v.observed = u.observed /\ v.last = u.last
          BY <2>1, <3>3 DEF WaitFields
        <4> QED
          BY <2>1, <4>1 DEF HasMatched, RequestsActive
      <3> QED
        BY <2>5, <3>1, <3>2, <3>3
    <2>7. NotedUpTo(w, v, es, m)
      BY <2>2, <2>6 DEF NotedUpTo
    <2> QED
      BY <2>6, <2>7 DEF HasEnded
  <1> QED
    BY <1>9, <1>10, <1>11

-----------------------------------------------------------------------------
(* The invariant of a wait.                                                    *)

Cursors == [epoch : Nat, seq : Nat]

\* Requests are told one by one: their events are not of the kinds that are merged.
RequestsKept ==
    \A t \in Templates : t.tag = "request" /\ t.request # None => ~Coalescible(t)

\* What a wait must be given, of the whole log.
Admitted(L, w) == Due(L, 0, Len(L), w.scope)

\* A wait that is not over has noted everything up to its cursor, and its own router, until
\* it is finished, is in step with the cursor.
WaitObserved(L, w) ==
    /\ w.observed \subseteq Due(L, w.from.seq, Len(L), w.scope) /\ w.last \in w.observed \cup {0}
    /\ w.last <= w.cursor.seq /\ NetworkNoted(L, w)
    /\ \A i \in Due(L, w.from.seq, w.cursor.seq, w.scope) :
           \E j \in w.observed : i = j \/ Merges(L, i, j, Admitted(L, w))

WaitCursor(L, w) ==
    /\ w.from \in Cursors /\ w.cursor \in Cursors /\ w.cursor.epoch = w.from.epoch
    /\ w.from.seq <= w.cursor.seq /\ (w.cursor.seq <= Len(L) \/ w.cursor.seq <= w.from.seq)
    /\ ~w.finished => /\ InStep(L, Admitted(L, w), w.from.seq, w.from.epoch, w.router)
                      /\ w.router.seq = w.cursor.seq

\* A wait that sleeps has looked since it read the generation.
WaitAwake(L, w) ==
    /\ w.generation \in Nat /\ (w.pc = "poll" => w.generation <= Len(L))
    /\ w.pc = "sleep" /\ ~w.finished => w.generation <= w.cursor.seq /\ w.cursor.seq <= Len(L)

PendingInv(L, w) ==
    /\ w.pc \in {"read", "poll", "sleep"} /\ w.finished \in BOOLEAN
    /\ WaitCursor(L, w) /\ WaitObserved(L, w) /\ WaitAwake(L, w)

\* A wait for an idle network that has matched has the end of every request that began.
DoneInv(L, w) ==
    w.outcome = "matched" /\ w.condition = "network_idle" =>
        /\ w.matched = 0 /\ w.last \in 0..Len(L) /\ w.from.seq \in Nat
        /\ RequestsKept =>
               \A i \in Due(L, w.from.seq, w.last, w.scope) :
                   L[i].tag = "request" /\ L[i].request # None /\ ~L[i].excluded => Answered(L, i, w.last)

\* The events of requests in a log.
LogKept(L) ==
    RequestsKept => \A i \in 1..Len(L) : L[i].tag = "request" /\ L[i].request # None => ~Coalescible(L[i])

-----------------------------------------------------------------------------
\* A log and a longer one.
Longer(L, M) ==
    /\ L \in Seq(EventRecords) /\ M \in Seq(EventRecords) /\ Len(L) <= Len(M)
    /\ \A i \in 1..Len(L) : M[i] = L[i]

\* What is due of a log stays due.
LEMMA DueGrows ==
    ASSUME NEW L, NEW M, Longer(L, M), NEW scope, NEW from \in Nat
    PROVE  /\ Due(L, from, Len(L), scope) \subseteq Due(M, from, Len(M), scope)
           /\ \A to \in Nat : to <= Len(L) => Due(M, from, to, scope) = Due(L, from, to, scope)
           /\ Due(L, from, Len(L), scope) \subseteq 1..Len(L)
           /\ Grows(L, M, Due(L, 0, Len(L), scope), Due(M, 0, Len(M), scope))
  <1>1. L \in Seq(EventRecords) /\ M \in Seq(EventRecords) /\ Len(L) \in Nat /\ Len(M) \in Nat
        /\ Len(L) <= Len(M) /\ \A i \in 1..Len(L) : M[i] = L[i]
    BY DEF Longer
  <1>2. \A f, to \in Nat : to <= Len(L) => Due(M, f, to, scope) = Due(L, f, to, scope)
    <2> SUFFICES ASSUME NEW f \in Nat, NEW to \in Nat, to <= Len(L)
                 PROVE  Due(M, f, to, scope) = Due(L, f, to, scope)
      OBVIOUS
    <2>1. \A i \in f + 1..to : M[i] = L[i]
      BY <1>1
    <2> QED
      BY <2>1 DEF Due
  <1>3. \A f \in Nat : Due(L, f, Len(L), scope) \subseteq Due(M, f, Len(M), scope)
    <2> SUFFICES ASSUME NEW f \in Nat, NEW i \in Due(L, f, Len(L), scope)
                 PROVE  i \in Due(M, f, Len(M), scope)
      OBVIOUS
    <2>1. i \in f + 1..Len(L) /\ i \in f + 1..Len(M) /\ M[i] = L[i]
      BY <1>1 DEF Due
    <2> QED
      BY <2>1 DEF Due
  <1>4. \A f \in Nat : Due(L, f, Len(L), scope) \subseteq 1..Len(L)
    BY <1>1 DEF Due
  <1>5. Due(M, 0, Len(M), scope) \subseteq Nat
    BY <1>1 DEF Due
  <1>6. ASSUME NEW k \in Due(M, 0, Len(M), scope), k <= Len(L)
        PROVE  k \in Due(L, 0, Len(L), scope)
    <2>1. k \in 0 + 1..Len(L) /\ M[k] = L[k]
      BY <1>1, <1>6 DEF Due
    <2> QED
      BY <2>1 DEF Due
  <1>7. Grows(L, M, Due(L, 0, Len(L), scope), Due(M, 0, Len(M), scope))
    BY <1>1, <1>3, <1>5, <1>6 DEF Grows
  <1> QED
    BY <1>2, <1>3, <1>4, <1>7

\* What was noted of a log stays noted.
LEMMA NotesGrow ==
    ASSUME NEW L, NEW M, Longer(L, M), NEW w, NetworkNoted(L, w), w.last \in 0..Len(L)
    PROVE  NetworkNoted(M, w)
  <1>1. /\ Len(L) \in Nat /\ \A i \in 1..Len(L) : M[i] = L[i]
        /\ w.matched = 0 /\ w.last \in Nat /\ w.observed \subseteq 1..w.last
    BY DEF Longer, NetworkNoted
  <1>2. \A i \in w.observed : i \in Nat /\ i \in 1..Len(L) /\ M[i] = L[i]
    BY <1>1
  <1>3. RequestsNoted(L, w) => RequestsNoted(M, w)
    BY <1>2 DEF RequestsNoted
  <1>4. ASSUME RequestsActive(L, w) PROVE RequestsActive(M, w)
    <2>1. ASSUME NEW i \in w.observed, Answered(L, i, w.last) PROVE Answered(M, i, w.last)
      <3>1. PICK j \in i + 1..w.last : L[j].tag = "finished" /\ L[j].request = L[i].request
        BY <2>1 DEF Answered
      <3>2. j \in 1..Len(L)
        BY <1>1, <1>2
      <3> QED
        BY <1>1, <1>2, <3>1, <3>2 DEF Answered
    <2> QED
      BY <1>2, <1>4, <2>1 DEF RequestsActive
  <1> QED
    BY <1>1, <1>3, <1>4 DEF NetworkNoted

\* The invariant of a pending wait is kept while the log grows.
LEMMA PendingGrows ==
    ASSUME NEW L, NEW M, Longer(L, M), NEW w, PendingInv(L, w)
    PROVE  PendingInv(M, w)
  <1>1. /\ Len(L) \in Nat /\ Len(M) \in Nat /\ Len(L) <= Len(M)
    BY DEF Longer
  <1>2. PICK from, at, scope : from = w.from.seq /\ at = w.cursor.seq /\ scope = w.scope
    OBVIOUS
  <1>3. from \in Nat /\ at \in Nat /\ from <= at /\ (at <= Len(L) \/ at <= from)
    BY <1>2 DEF PendingInv, WaitCursor, Cursors
  <1>4. /\ Due(L, from, Len(L), scope) \subseteq Due(M, from, Len(M), scope)
        /\ \A to \in Nat : to <= Len(L) => Due(M, from, to, scope) = Due(L, from, to, scope)
        /\ Due(L, from, Len(L), scope) \subseteq 1..Len(L)
        /\ Grows(L, M, Due(L, 0, Len(L), scope), Due(M, 0, Len(M), scope))
    BY <1>3, DueGrows
  <1>5. WaitObserved(M, w)
    <2>1. /\ w.observed \subseteq Due(L, from, Len(L), scope) /\ w.last \in w.observed \cup {0}
          /\ w.last <= at /\ NetworkNoted(L, w)
          /\ \A i \in Due(L, from, at, scope) :
                 \E j \in w.observed : i = j \/ Merges(L, i, j, Due(L, 0, Len(L), scope))
      BY <1>2 DEF PendingInv, WaitObserved, Admitted
    <2>2. w.observed \subseteq Due(M, from, Len(M), scope) /\ w.observed \subseteq 1..Len(L)
      BY <1>4, <2>1
    <2>3. NetworkNoted(M, w)
      <3>1. w.last \in 0..Len(L)
        BY <1>1, <2>1, <2>2
      <3> QED
        BY <2>1, <3>1, NotesGrow
    <2>4. ASSUME NEW i \in Due(M, from, at, scope)
          PROVE  \E j \in w.observed : i = j \/ Merges(M, i, j, Due(M, 0, Len(M), scope))
      <3>1. i \in from + 1..at
        BY DEF Due
      <3>2. at <= Len(L)
        BY <1>1, <1>3, <3>1
      <3>3. i \in Due(L, from, at, scope) /\ i \in 1..Len(L)
        BY <1>1, <1>3, <1>4, <3>1, <3>2
      <3>4. PICK j \in w.observed : i = j \/ Merges(L, i, j, Due(L, 0, Len(L), scope))
        BY <2>1, <3>3
      <3>5. j \in 1..Len(L)
        BY <2>2
      <3>6. i = j \/ Merges(M, i, j, Due(M, 0, Len(M), scope))
        BY <1>4, <3>3, <3>4, <3>5, MergesGrow
      <3> QED
        BY <3>6
    <2> QED
      BY <1>2, <2>1, <2>2, <2>3, <2>4 DEF WaitObserved, Admitted
  <1>6. WaitCursor(M, w)
    <2>1. ASSUME ~w.finished
          PROVE  InStep(M, Admitted(M, w), w.from.seq, w.from.epoch, w.router) /\ w.router.seq = w.cursor.seq
      <3>1. /\ InStep(L, Due(L, 0, Len(L), scope), from, w.from.epoch, w.router) /\ w.router.seq = at
        BY <1>2, <2>1 DEF PendingInv, WaitCursor, Admitted
      <3>2. PICK r \in Routers : r = w.router
        BY <3>1 DEF InStep
      <3>3. /\ r.epoch = w.from.epoch /\ ~r.resync /\ r.seq = at
            /\ Ordered(r, L, at) /\ Covers(r, L, Due(L, 0, Len(L), scope), from, at)
        BY <3>1, <3>2 DEF InStep
      <3>4. Ordered(r, M, at) /\ Covers(r, M, Due(M, 0, Len(M), scope), from, at)
        BY <1>3, <1>4, <3>3, RouterGrows
      <3> QED
        BY <1>2, <3>2, <3>3, <3>4 DEF InStep, Admitted
    <2> QED
      BY <1>1, <1>2, <1>3, <2>1 DEF PendingInv, WaitCursor
  <1>7. WaitAwake(M, w)
    BY <1>1, <1>2, <1>3 DEF PendingInv, WaitAwake
  <1> QED
    BY <1>5, <1>6, <1>7 DEF PendingInv

\* So is the one of a wait that is over.
LEMMA DoneGrows ==
    ASSUME NEW L, NEW M, Longer(L, M), NEW w, DoneInv(L, w)
    PROVE  DoneInv(M, w)
  <1> SUFFICES ASSUME w.outcome = "matched", w.condition = "network_idle"
               PROVE  /\ w.matched = 0 /\ w.last \in 0..Len(M) /\ w.from.seq \in Nat
                      /\ RequestsKept =>
                          \A i \in Due(M, w.from.seq, w.last, w.scope) :
                             L[i].tag = "request" /\ L[i].request # None /\ ~L[i].excluded /\ M[i] = L[i]
                                => Answered(M, i, w.last)
                      /\ \A i \in Due(M, w.from.seq, w.last, w.scope) : M[i] = L[i]
    BY DEF DoneInv
  <1>1. /\ Len(L) \in Nat /\ Len(M) \in Nat /\ Len(L) <= Len(M) /\ \A i \in 1..Len(L) : M[i] = L[i]
    BY DEF Longer
  <1>2. /\ w.matched = 0 /\ w.last \in 0..Len(L) /\ w.from.seq \in Nat
        /\ RequestsKept =>
               \A i \in Due(L, w.from.seq, w.last, w.scope) :
                   L[i].tag = "request" /\ L[i].request # None /\ ~L[i].excluded => Answered(L, i, w.last)
    BY DEF DoneInv
  <1>3. PICK from, to, scope : /\ from = w.from.seq /\ to = w.last /\ scope = w.scope
                                /\ from \in Nat /\ to \in Nat /\ to <= Len(L)
    BY <1>1, <1>2
  <1>4. Due(M, from, to, scope) = Due(L, from, to, scope)
    BY <1>3, DueGrows
  <1>5. \A i \in Due(M, from, to, scope) : i \in Nat /\ i \in 1..Len(L) /\ M[i] = L[i]
    BY <1>1, <1>3 DEF Due
  <1>6. ASSUME NEW i \in 1..Len(L), Answered(L, i, to) PROVE Answered(M, i, to)
    <2>1. PICK j \in i + 1..to : L[j].tag = "finished" /\ L[j].request = L[i].request
      BY <1>6 DEF Answered
    <2>2. j \in 1..Len(L)
      BY <1>1, <1>3
    <2> QED
      BY <1>1, <2>1, <2>2 DEF Answered
  <1> QED
    BY <1>1, <1>2, <1>3, <1>4, <1>5, <1>6

-----------------------------------------------------------------------------
(* One poll.                                                                   *)

\* A wait that may observe: it is not finished, and its own router has everything there is.
Caught(L, w, q) ==
    /\ L \in Seq(EventRecords) /\ \A i \in 1..Len(L) : L[i].seq = i /\ ~L[i].resync
    /\ LogKept(L)
    /\ DOMAIN w = WaitFields /\ w.pc = "poll" /\ ~w.finished /\ PendingInv(L, w) /\ w.cursor.seq <= Len(L)
    /\ InStep(L, Admitted(L, w), w.from.seq, w.from.epoch, q) /\ q.seq = Len(L)

\* The wait with its cursor moved to the end.
Moved(L, w, q) == [w EXCEPT !.router = q, !.cursor = [w.cursor EXCEPT !.seq = Len(L)]]

\* What that leaves alone.
IsMoved(L, w, q, u) ==
    /\ DOMAIN u = WaitFields /\ u.pc = "poll" /\ u.finished = FALSE /\ u.from = w.from /\ u.scope = w.scope
    /\ u.router = q /\ u.cursor \in Cursors /\ u.cursor.seq = Len(L) /\ u.cursor.epoch = w.from.epoch
    /\ u.condition = w.condition /\ u.generation = w.generation /\ u.observed = w.observed
    /\ u.last = w.last /\ NetworkNoted(L, u) /\ Len(L) \in Nat

\* The cursor alone moves, and what was noted stays.
LEMMA MovedFields ==
    ASSUME NEW L, NEW w, NEW q, Caught(L, w, q), NEW u, u = Moved(L, w, q)
    PROVE  IsMoved(L, w, q, u)
  <1>1. DOMAIN w = WaitFields /\ w.pc = "poll" /\ ~w.finished /\ w.finished \in BOOLEAN
    BY DEF Caught, PendingInv
  <1>2. w.cursor \in Cursors /\ w.cursor.epoch = w.from.epoch /\ Len(L) \in Nat /\ NetworkNoted(L, w)
    BY DEF Caught, PendingInv, WaitCursor, WaitObserved
  <1>3. PICK c : c = [w.cursor EXCEPT !.seq = Len(L)]
    OBVIOUS
  <1>4. c \in Cursors /\ c.seq = Len(L) /\ c.epoch = w.from.epoch
    BY <1>2, <1>3 DEF Cursors
  <1>5. u = [w EXCEPT !.router = q, !.cursor = c]
    BY <1>3 DEF Moved
  <1>6. /\ DOMAIN u = WaitFields /\ u.pc = "poll" /\ u.finished = FALSE /\ u.from = w.from /\ u.scope = w.scope
        /\ u.router = q /\ u.cursor = c /\ u.condition = w.condition /\ u.generation = w.generation
        /\ u.observed = w.observed /\ u.last = w.last /\ u.matched = w.matched /\ u.active = w.active
        /\ u.requests = w.requests /\ u.responses = w.responses
    BY <1>1, <1>5 DEF WaitFields
  <1>7. NetworkNoted(L, u)
    BY <1>2, <1>6 DEF NetworkNoted, RequestsNoted, RequestsActive
  <1> QED
    BY <1>2, <1>4, <1>6, <1>7 DEF IsMoved

\* The events that are delivered are new to the wait.
LEMMA PolledAreNew ==
    ASSUME NEW L, NEW w, NEW q, Caught(L, w, q), NEW u, u = Moved(L, w, q),
           NEW es, Delivers(L, es, Due(L, w.cursor.seq, Len(L), w.scope), Admitted(L, w))
    PROVE  AreNew(L, u, es)
  <1>1. /\ u.last = w.last /\ Len(L) \in Nat
    <2>1. IsMoved(L, w, q, u)
      BY MovedFields
    <2> QED
      BY <2>1 DEF IsMoved
  <1>2. /\ w.last <= w.cursor.seq /\ w.cursor.seq \in Nat /\ w.last \in Nat
    BY DEF Caught, PendingInv, WaitObserved, WaitCursor, Cursors, NetworkNoted
  <1>3. ASSUME NEW i \in 1..Len(es)
        PROVE  es[i].seq \in Nat /\ u.last < es[i].seq /\ es[i] = L[es[i].seq] /\ ~es[i].resync
    <2>1. es[i].seq \in Due(L, w.cursor.seq, Len(L), w.scope) /\ es[i] = L[es[i].seq]
      BY DEF Delivers
    <2>2. es[i].seq \in w.cursor.seq + 1..Len(L)
      BY <2>1 DEF Due
    <2>3. es[i].seq \in 1..Len(L)
      BY <1>1, <1>2, <2>2
    <2>4. ~L[es[i].seq].resync
      BY <2>3 DEF Caught
    <2> QED
      BY <1>1, <1>2, <2>1, <2>2, <2>4, SMTT(30)
  <1> QED
    BY <1>3 DEF AreNew, Delivers

\* Numbers that a wait has after the first m of the events of a poll.
LEMMA NotedNumbers ==
    ASSUME NEW L, NEW w, NEW q, Caught(L, w, q), NEW u, u = Moved(L, w, q),
           NEW es, Delivers(L, es, Due(L, w.cursor.seq, Len(L), w.scope), Admitted(L, w)),
           NEW m \in 0..Len(es), NEW v, NotedUpTo(u, v, es, m)
    PROVE  /\ v.observed \subseteq Due(L, w.from.seq, Len(L), w.scope) /\ v.last \in v.observed \cup {0}
           /\ v.last \in 0..Len(L)
           /\ w.observed \subseteq v.observed /\ \A k \in 1..m : es[k].seq \in v.observed
           /\ \A k \in 1..Len(es) : es[k].seq <= v.last => k <= m
  <1>1. u.last = w.last /\ u.observed = w.observed /\ Len(L) \in Nat
    <2>1. IsMoved(L, w, q, u)
      BY MovedFields
    <2> QED
      BY <2>1 DEF IsMoved
  <1>2. /\ w.observed \subseteq Due(L, w.from.seq, Len(L), w.scope) /\ w.last \in w.observed \cup {0}
        /\ w.last <= w.cursor.seq /\ w.last \in Nat /\ w.from.seq \in Nat /\ w.cursor.seq \in Nat
        /\ w.from.seq <= w.cursor.seq /\ w.cursor.seq <= Len(L)
    BY DEF Caught, PendingInv, WaitObserved, WaitCursor, Cursors, NetworkNoted
  <1>3. /\ v.observed = w.observed \cup {es[k].seq : k \in 1..m}
        /\ v.last = IF m = 0 THEN w.last ELSE es[m].seq
    BY <1>1 DEF NotedUpTo
  <1>4. Len(es) \in Nat /\ m \in Nat /\ m <= Len(es)
    BY DEF Delivers
  <1>5. ASSUME NEW k \in 1..Len(es)
        PROVE  /\ es[k].seq \in Nat /\ w.cursor.seq < es[k].seq /\ es[k].seq <= Len(L)
               /\ es[k].seq \in Due(L, w.from.seq, Len(L), w.scope)
    <2>1. es[k].seq \in Due(L, w.cursor.seq, Len(L), w.scope)
      BY DEF Delivers
    <2>2. es[k].seq \in w.cursor.seq + 1..Len(L)
      BY <2>1 DEF Due
    <2>3. /\ es[k].seq \in Nat /\ w.cursor.seq < es[k].seq /\ es[k].seq <= Len(L)
          /\ es[k].seq \in w.from.seq + 1..Len(L)
      <3>1. PICK a, b, c, x : a = w.from.seq /\ b = w.cursor.seq /\ c = Len(L) /\ x = es[k].seq
        OBVIOUS
      <3>2. a \in Nat /\ b \in Nat /\ c \in Nat /\ a <= b /\ x \in b + 1..c
        BY <1>1, <1>2, <2>2, <3>1
      <3>3. x \in Nat /\ b < x /\ x <= c /\ x \in a + 1..c
        BY <3>2
      <3> QED
        BY <3>1, <3>3
    <2>4. es[k].seq \in Due(L, w.from.seq, Len(L), w.scope)
      BY <2>1, <2>3 DEF Due
    <2> QED
      BY <2>3, <2>4
  <1>6. v.observed \subseteq Due(L, w.from.seq, Len(L), w.scope)
    <2>1. \A k \in 1..m : k \in 1..Len(es)
      BY <1>4
    <2> QED
      BY <1>2, <1>3, <1>5, <2>1
  <1>7. v.last \in v.observed \cup {0} /\ v.last \in 0..Len(L)
    <2>1. CASE m = 0
      BY <1>1, <1>2, <1>3, <2>1
    <2>2. CASE m # 0
      <3>1. m \in 1..m /\ m \in 1..Len(es)
        BY <1>4, <2>2
      <3>2. es[m].seq \in Nat /\ es[m].seq <= Len(L)
        BY <1>5, <3>1
      <3> QED
        BY <1>1, <1>3, <2>2, <3>1, <3>2
    <2> QED
      BY <2>1, <2>2
  <1>8. ASSUME NEW k \in 1..Len(es), es[k].seq <= v.last PROVE k <= m
    <2>0. es[k].seq \in Nat /\ w.cursor.seq < es[k].seq
      BY <1>5
    <2>1. CASE m = 0
      BY <1>2, <1>3, <1>8, <2>0, <2>1
    <2>2. CASE m # 0
      <3>1. m \in 1..Len(es) /\ v.last = es[m].seq
        BY <1>3, <1>4, <2>2
      <3>2. es[m].seq \in Nat
        BY <1>5, <3>1
      <3>3. m < k => es[m].seq < es[k].seq
        BY <3>1 DEF Delivers
      <3>4. ~(m < k)
        BY <1>8, <2>0, <3>1, <3>2, <3>3
      <3> QED
        BY <1>4, <3>4
    <2> QED
      BY <2>1, <2>2
  <1> QED
    BY <1>3, <1>6, <1>7, <1>8

\* Of the numbers up to the end of the log the wait stands for those before its cursor by what
\* it has observed, and for those after it by what is delivered.
LEMMA PollCovers ==
    ASSUME NEW L, NEW w, NEW q, Caught(L, w, q),
           NEW es, Delivers(L, es, Due(L, w.cursor.seq, Len(L), w.scope), Admitted(L, w)),
           NEW i \in Due(L, w.from.seq, Len(L), w.scope)
    PROVE  \/ \E j \in w.observed : i = j \/ Merges(L, i, j, Admitted(L, w))
           \/ \E k \in 1..Len(es) : i = es[k].seq \/ Merges(L, i, es[k].seq, Admitted(L, w))
  <1>1. w.from.seq \in Nat /\ w.cursor.seq \in Nat /\ Len(L) \in Nat
    BY DEF Caught, PendingInv, WaitCursor, Cursors
  <1>2. i \in w.from.seq + 1..Len(L) /\ i \in Nat
    BY <1>1 DEF Due
  <1>3. CASE i <= w.cursor.seq
    <2>1. i \in w.from.seq + 1..w.cursor.seq
      BY <1>1, <1>2, <1>3
    <2>2. i \in Due(L, w.from.seq, w.cursor.seq, w.scope)
      BY <2>1 DEF Due
    <2> QED
      BY <2>2 DEF Caught, PendingInv, WaitObserved
  <1>4. CASE w.cursor.seq < i
    <2>1. i \in w.cursor.seq + 1..Len(L)
      BY <1>1, <1>2, <1>4
    <2>2. i \in Due(L, w.cursor.seq, Len(L), w.scope)
      BY <2>1 DEF Due
    <2> QED
      BY <2>2 DEF Delivers
  <1> QED
    BY <1>1, <1>2, <1>3, <1>4

\* A poll that observes: the wait goes to sleep with everything noted, or has ended.
LEMMA PollObserves ==
    ASSUME NEW L, NEW w, NEW q, Caught(L, w, q), NEW u, u = Moved(L, w, q),
           NEW es, Delivers(L, es, Due(L, w.cursor.seq, Len(L), w.scope), Admitted(L, w)),
           NEW v, v = ObserveAll(u, es), NEW time
    PROVE  /\ DOMAIN v = WaitFields
           /\ \/ v.pc = "poll" /\ PendingInv(L, [v EXCEPT !.pc = "sleep", !.polled = time])
              \/ v.pc = "done" /\ DoneInv(L, v)
  <1>1. /\ DOMAIN u = WaitFields /\ u.pc = "poll" /\ u.finished = FALSE /\ u.from = w.from /\ u.scope = w.scope
        /\ u.router = q /\ u.cursor \in Cursors /\ u.cursor.seq = Len(L) /\ u.cursor.epoch = w.from.epoch
        /\ u.condition = w.condition /\ u.generation = w.generation /\ u.observed = w.observed
        /\ u.last = w.last /\ NetworkNoted(L, u) /\ Len(L) \in Nat
    <2>1. IsMoved(L, w, q, u)
      BY MovedFields
    <2> QED
      BY <2>1 DEF IsMoved
  <1>2. AreNew(L, u, es)
    BY PolledAreNew
  <1>3. \/ SameWait(u, v) /\ NotedUpTo(u, v, es, Len(es)) /\ NetworkNoted(L, v)
              /\ v.finished \in {u.finished, TRUE}
        \/ HasEnded(L, u, v, es)
    <2>1. DOMAIN u = WaitFields /\ u.pc # "done" /\ NetworkNoted(L, u)
      BY <1>1
    <2> QED
      BY <1>2, <2>1, ObserveAllGives
  <1>4. w.from.seq \in Nat /\ w.from \in Cursors /\ w.cursor.seq \in Nat /\ Len(es) \in Nat /\ w.from.seq <= w.cursor.seq
        /\ w.cursor.seq <= Len(L)
    BY DEF Caught, PendingInv, WaitCursor, Cursors, Delivers
  <1>5. CASE SameWait(u, v) /\ NotedUpTo(u, v, es, Len(es)) /\ NetworkNoted(L, v) /\ v.finished \in {u.finished, TRUE}
    <2>1. PICK z : z = [v EXCEPT !.pc = "sleep", !.polled = time]
      OBVIOUS
    <2>2. /\ DOMAIN v = WaitFields /\ v.pc = "poll" /\ z.pc = "sleep" /\ z.finished = v.finished
          /\ z.from = w.from /\ z.scope = w.scope
          /\ z.router = q /\ z.cursor = u.cursor /\ z.condition = v.condition /\ z.generation = w.generation
          /\ z.observed = v.observed /\ z.last = v.last /\ z.matched = v.matched /\ z.active = v.active
          /\ z.requests = v.requests /\ z.responses = v.responses
      <3>1. DOMAIN v = WaitFields /\ v.pc = u.pc /\ v.scope = u.scope /\ v.from = u.from /\ v.cursor = u.cursor
            /\ v.router = u.router /\ v.generation = u.generation
        BY <1>5 DEF SameWait
      <3> QED
        BY <1>1, <2>1, <3>1 DEF WaitFields
    <2>3. z.finished \in BOOLEAN
      BY <1>1, <1>5, <2>2
    <2>4. /\ v.observed \subseteq Due(L, w.from.seq, Len(L), w.scope) /\ v.last \in v.observed \cup {0}
          /\ v.last \in 0..Len(L)
          /\ w.observed \subseteq v.observed /\ \A k \in 1..Len(es) : es[k].seq \in v.observed
      <3>1. Len(es) \in 0..Len(es)
        BY <1>4
      <3>2. NotedUpTo(u, v, es, Len(es))
        BY <1>5
      <3> QED
        BY <3>1, <3>2, NotedNumbers
    <2>5. Admitted(L, z) = Admitted(L, w)
      BY <2>2 DEF Admitted
    <2>6. WaitObserved(L, z)
      <3>1. NetworkNoted(L, z)
        BY <1>5, <2>2 DEF NetworkNoted, RequestsNoted, RequestsActive
      <3>2. ASSUME NEW i \in Due(L, w.from.seq, Len(L), w.scope)
            PROVE  \E j \in v.observed : i = j \/ Merges(L, i, j, Admitted(L, w))
        <4>1. \/ \E j \in w.observed : i = j \/ Merges(L, i, j, Admitted(L, w))
              \/ \E k \in 1..Len(es) : i = es[k].seq \/ Merges(L, i, es[k].seq, Admitted(L, w))
          BY PollCovers
        <4> QED
          BY <2>4, <4>1
      <3>3. z.cursor.seq = Len(L) /\ v.last <= Len(L)
        BY <1>1, <2>2, <2>4
      <3> QED
        BY <2>2, <2>4, <2>5, <3>1, <3>2, <3>3 DEF WaitObserved
    <2>7. WaitCursor(L, z)
      <3>1. InStep(L, Admitted(L, w), w.from.seq, w.from.epoch, q) /\ q.seq = Len(L)
        BY DEF Caught
      <3>2. w.from.seq <= Len(L)
        BY <1>1, <1>4, Between
      <3> QED
        BY <1>1, <1>4, <2>2, <2>5, <3>1, <3>2 DEF WaitCursor
    <2>8. WaitAwake(L, z)
      <3>1. w.generation \in Nat /\ w.generation <= Len(L)
        BY DEF Caught, PendingInv, WaitAwake
      <3> QED
        BY <1>1, <2>2, <3>1 DEF WaitAwake
    <2> QED
      BY <2>1, <2>2, <2>3, <2>6, <2>7, <2>8 DEF PendingInv
  <1>6. CASE HasEnded(L, u, v, es)
    <2>1. /\ DOMAIN v = WaitFields /\ v.pc = "done" /\ v.outcome = "matched"
          /\ v.condition = w.condition /\ v.scope = w.scope /\ v.from = w.from
          /\ v.condition = "network_idle" => v.matched = 0 /\ v.active = {} /\ RequestsActive(L, v)
      BY <1>1, <1>6 DEF HasEnded, HasMatched
    <2>2. PICK m \in 0..Len(es) : NotedUpTo(u, v, es, m)
      BY <1>6 DEF HasEnded
    <2>3. /\ v.last \in 0..Len(L) /\ w.observed \subseteq v.observed /\ \A k \in 1..m : es[k].seq \in v.observed
          /\ \A k \in 1..Len(es) : es[k].seq <= v.last => k <= m
      BY <2>2, NotedNumbers
    <2>4. ASSUME v.condition = "network_idle", RequestsKept, NEW i \in Due(L, v.from.seq, v.last, v.scope),
                 L[i].tag = "request", L[i].request # None, ~L[i].excluded
          PROVE  Answered(L, i, v.last)
      <3>1. i \in w.from.seq + 1..v.last /\ i \in w.from.seq + 1..Len(L) /\ i \in 1..Len(L) /\ i \in Nat
        BY <1>1, <1>4, <2>1, <2>3 DEF Due
      <3>2. i \in Due(L, w.from.seq, Len(L), w.scope) /\ i \in Admitted(L, w)
        BY <2>1, <2>4, <3>1 DEF Due, Admitted
      <3>3. ~Coalescible(L[i])
        BY <2>4, <3>1 DEF Caught, LogKept
      <3>4. \A j \in Nat : ~Merges(L, i, j, Admitted(L, w))
        <4> SUFFICES ASSUME NEW j \in Nat, Merges(L, i, j, Admitted(L, w)) PROVE FALSE
          OBVIOUS
        <4>1. i \in Admitted(L, w) \cap i..j
          BY <3>1, <3>2 DEF Merges
        <4> QED
          BY <3>3, <4>1 DEF Merges
      <3>5. \/ \E j \in w.observed : i = j \/ Merges(L, i, j, Admitted(L, w))
            \/ \E k \in 1..Len(es) : i = es[k].seq \/ Merges(L, i, es[k].seq, Admitted(L, w))
        BY <3>2, PollCovers
      <3>6. i \in v.observed
        <4>1. CASE \E j \in w.observed : i = j \/ Merges(L, i, j, Admitted(L, w))
          <5>1. PICK j \in w.observed : i = j \/ Merges(L, i, j, Admitted(L, w))
            BY <4>1
          <5>2. w.observed \subseteq Nat
            BY <1>1 DEF NetworkNoted
          <5> QED
            BY <2>3, <3>4, <5>1, <5>2
        <4>2. CASE \E k \in 1..Len(es) : i = es[k].seq \/ Merges(L, i, es[k].seq, Admitted(L, w))
          <5>1. PICK k \in 1..Len(es) : i = es[k].seq \/ Merges(L, i, es[k].seq, Admitted(L, w))
            BY <4>2
          <5>2. es[k].seq \in Nat
            BY <1>2 DEF AreNew
          <5>3. i = es[k].seq
            BY <3>4, <5>1, <5>2
          <5>4. k <= m
            BY <2>3, <3>1, <5>3
          <5>5. k \in 1..m
            BY <1>4, <5>4
          <5> QED
            BY <2>3, <5>3, <5>5
        <4> QED
          BY <3>5, <4>1, <4>2
      <3> QED
        BY <2>1, <2>4, <3>6 DEF RequestsActive
    <2>5. DoneInv(L, v)
      BY <1>4, <2>1, <2>3, <2>4 DEF DoneInv
    <2> QED
      BY <2>1, <2>5
  <1> QED
    BY <1>3, <1>5, <1>6

\* The wait's own router gives what is new.
LEMMA OwnReplay ==
    ASSUME NEW L, NEW w, NEW q, Caught(L, w, q), NEW r, r = Replay(q, w.cursor, w.scope), r.accepted
    PROVE  r.seq = Len(L) /\ Delivers(L, r.events, Due(L, w.cursor.seq, Len(L), w.scope), Admitted(L, w))
  <1>1. /\ L \in Seq(EventRecords) /\ \A i \in 1..Len(L) : L[i].seq = i
        /\ q.seq = Len(L) /\ q \in Routers /\ Ordered(q, L, Len(L)) /\ Covers(q, L, Admitted(L, w), w.from.seq, Len(L))
    BY DEF Caught, InStep
  <1>2. /\ w.from.seq \in Nat /\ w.cursor.seq \in Nat /\ Len(L) \in Nat /\ w.from.seq <= w.cursor.seq
    BY DEF Caught, PendingInv, WaitCursor, Cursors
  <1>3. PICK set : set = {e \in ToSet(q.events) : e.seq > w.cursor.seq /\ ScopeMatches(e, w.scope)}
    OBVIOUS
  <1>4. /\ r.seq = q.seq /\ r.events = Chosen(q.events, set)
        /\ q.starts = <<>> \/ ~(w.cursor.seq + 1 < Head(q.starts))
    BY <1>3 DEF Replay
  <1>5. PICK among, part : among = Admitted(L, w) /\ part = Due(L, w.cursor.seq, Len(L), w.scope)
    OBVIOUS
  <1>6. PICK at \in Nat, base \in Nat, n \in Nat : at = w.cursor.seq /\ base = w.from.seq /\ n = Len(L)
    BY <1>2
  <1>7. among \subseteq Nat /\ part \subseteq among /\ \A s \in part : at < s /\ s <= n /\ s \in Nat
    <2>1. \A s \in part : s \in at + 1..n /\ L[s].scope.space \in Visible \cup {None} /\ ScopeMatches(L[s], w.scope)
      BY <1>5, <1>6 DEF Due
    <2>2. \A s \in part : s \in 0 + 1..n /\ at < s /\ s <= n /\ s \in Nat
      BY <1>6, <2>1
    <2> QED
      BY <1>5, <1>6, <2>1, <2>2 DEF Admitted, Due
  <1>8. q.starts = <<>> \/ q.starts[1] <= at + 1
    <2>1. q.starts \in Seq(Nat)
      BY <1>1 DEF Routers
    <2>2. CASE q.starts # <<>>
      <3>1. Head(q.starts) = q.starts[1] /\ q.starts[1] \in Nat
        BY <2>1, <2>2
      <3> QED
        BY <1>4, <1>6, <2>2, <3>1
    <2> QED
      BY <2>2
  <1>9. ASSUME NEW i \in 1..Len(q.events)
        PROVE  q.events[i] \in set <=> q.events[i].seq \in part
    <2>1. /\ q.events[i].seq \in among /\ q.events[i] = L[q.events[i].seq] /\ q.events[i].seq <= n
          /\ q.events[i].seq \in Nat
      BY <1>1, <1>5, <1>6, <1>7 DEF Covers, Ordered
    <2>2. q.events[i] \in ToSet(q.events)
      BY DEF ToSet
    <2>3. PICK e, s : e = q.events[i] /\ s = e.seq
      OBVIOUS
    <2>4. s \in Nat /\ s <= n /\ e = L[s] /\ L[s].scope.space \in Visible \cup {None} /\ ScopeMatches(L[s], w.scope)
      BY <1>5, <2>1, <2>3 DEF Admitted, Due
    <2>5. s \in part <=> s \in at + 1..n
      BY <1>5, <1>6, <2>4 DEF Due
    <2>6. e \in set <=> s > at
      BY <1>3, <1>6, <2>2, <2>3, <2>4
    <2>7. s > at <=> s \in at + 1..n
      BY <2>4
    <2> QED
      BY <2>3, <2>5, <2>6, <2>7
  <1>10. ASSUME NEW s \in part, NEW j \in among, j <= n /\ Merges(L, s, j, among) PROVE j \in part
    <2>1. s <= j /\ j \in Nat /\ s \in Nat /\ at < s
      BY <1>7, <1>10 DEF Merges
    <2>2. at < j /\ j \in at + 1..n
      BY <1>6, <1>10, <2>1
    <2> QED
      BY <1>5, <1>6, <2>2 DEF Admitted, Due
  <1>11. Delivers(L, Chosen(q.events, set), part, among)
    <2>1. Ordered(q, L, n) /\ Covers(q, L, among, base, n) /\ base <= at /\ q \in Routers
      BY <1>1, <1>2, <1>5, <1>6
    <2>2. \A s \in part : at < s /\ s <= n
      BY <1>7
    <2> QED
      BY <1>7, <1>8, <1>9, <1>10, <2>1, <2>2, ReplayDelivers
  <1> QED
    BY <1>1, <1>4, <1>5, <1>11

\* A wait that is given the broker's events has everything there is.
LEMMA FedIsCaught ==
    ASSUME BrokerInv, LogKept(log), NEW w, DOMAIN w = WaitFields, w.pc = "poll", ~w.finished, PendingInv(log, w),
           NEW batch, batch = ResumeEvents(w.cursor, w.scope), batch.accepted,
           NEW q, q = IngestBatch(w.router, batch, MaxWaitEvents)
    PROVE  Caught(log, w, q)
  <1>1. /\ w.from \in Cursors /\ w.cursor \in Cursors /\ w.cursor.epoch = w.from.epoch /\ w.from.seq <= w.cursor.seq
        /\ InStep(log, Admitted(log, w), w.from.seq, w.from.epoch, w.router) /\ w.router.seq = w.cursor.seq
    BY DEF PendingInv, WaitCursor
  <1>2. w.from.seq \in Nat /\ w.cursor.seq \in Nat
    BY <1>1 DEF Cursors
  <1>3. /\ batch.epoch = epoch /\ batch.seq = Len(log)
        /\ w.cursor.epoch = epoch /\ w.cursor.seq <= Len(log) /\ ~router.resync
        /\ Delivers(log, batch.events, Due(log, w.cursor.seq, Len(log), w.scope), 1..Len(log))
    BY <1>2, ResumeGives
  <1>4. /\ log \in Seq(EventRecords) /\ Len(log) \in Nat
        /\ \A i \in 1..Len(log) : log[i].seq = i /\ log[i].epoch = epoch /\ ~log[i].resync
    BY <1>3 DEF BrokerInv
  <1>5. PICK among, at, base, ep, r :
            among = Admitted(log, w) /\ at = w.cursor.seq /\ base = w.from.seq /\ ep = epoch /\ r = w.router
    OBVIOUS
  <1>6. {s \in among : at < s} = Due(log, w.cursor.seq, Len(log), w.scope) /\ among \subseteq 1..Len(log)
    <2>1. \A s : s \in 0 + 1..Len(log) /\ at < s <=> s \in at + 1..Len(log)
      BY <1>2, <1>4, <1>5
    <2> QED
      BY <1>4, <1>5, <2>1 DEF Admitted, Due
  <1>7. IsBatch(log, among, base, at, ep, batch.events)
    BY <1>1, <1>2, <1>3, <1>4, <1>5, <1>6 DEF IsBatch
  <1>8. InStep(log, among, base, ep, r) /\ r.seq = at /\ at <= Len(log) /\ batch.epoch = ep
    BY <1>1, <1>3, <1>5
  <1>9. q = IngestBatch(r, batch, MaxWaitEvents) /\ MaxWaitEvents \in Nat \ {0}
    BY <1>5, WaitAssumption
  <1>10. InStep(log, among, base, ep, q) /\ q.seq = Len(log)
    <2>1. PICK L : L = log
      OBVIOUS
    <2>2. IsGiven(L, among, base, at, ep, batch)
      BY <1>3, <1>7, <1>8, <2>1 DEF IsGiven
    <2>3. PICK limit \in Nat \ {0} : q = IngestBatch(r, batch, limit)
      BY <1>9
    <2>4. InStep(L, among, base, ep, r) /\ r.seq = at
      BY <1>8, <2>1
    <2>5. InStep(L, among, base, ep, q) /\ q.seq = Len(L)
      BY <2>2, <2>3, <2>4, BatchTaken
    <2> QED
      BY <2>1, <2>5
  <1> QED
    BY <1>1, <1>3, <1>4, <1>5, <1>10 DEF Caught

\* A wait that is over, or not.
IsWait(L, w) ==
    DOMAIN w = WaitFields /\ (PendingInv(L, w) \/ (w.pc = "done" /\ DoneInv(L, w)))

\* A wait that ends without a match claims nothing.
LEMMA EndedIsWait ==
    ASSUME NEW L, NEW w, DOMAIN w = WaitFields, NEW outcome, outcome # "matched", NEW u, u = Ended(w, outcome)
    PROVE  u.pc = "done" /\ IsWait(L, u)
  <1>1. DOMAIN u = WaitFields /\ u.pc = "done" /\ u.outcome = outcome
    BY DEF Ended, WaitFields
  <1> QED
    BY <1>1 DEF IsWait, DoneInv

\* WaitEngine::poll, as a whole.
LEMMA PollStep ==
    ASSUME BrokerInv, LogKept(log), DOMAIN wait = WaitFields, PendingInv(log, wait), Poll
    PROVE  IsWait(log, wait')
  <1>1. PICK w, batch, q : w = wait /\ batch = ResumeEvents(w.cursor, w.scope)
                           /\ q = IngestBatch(w.router, batch, MaxWaitEvents)
    OBVIOUS
  <1>2. PICK fed : fed = [w EXCEPT !.router = q]
    OBVIOUS
  <1>3. PICK polled : polled = PollRegistration(fed)
    OBVIOUS
  <1>4. wait' = IF polled.pc = "done" THEN polled ELSE [polled EXCEPT !.pc = "sleep", !.polled = clock]
    BY <1>1, <1>2, <1>3, Zenon DEF Poll
  <1>5. DOMAIN w = WaitFields /\ w.pc = "poll" /\ PendingInv(log, w)
    BY <1>1 DEF Poll
  <1>6. /\ DOMAIN fed = WaitFields /\ fed.pc = "poll" /\ fed.router = q /\ fed.cursor = w.cursor /\ fed.scope = w.scope
        /\ fed.finished = w.finished /\ fed.from = w.from /\ fed.generation = w.generation /\ fed.observed = w.observed
        /\ fed.last = w.last /\ fed.condition = w.condition /\ fed.matched = w.matched /\ fed.active = w.active
        /\ fed.requests = w.requests /\ fed.responses = w.responses
    BY <1>2, <1>5 DEF WaitFields
  <1>7. CASE fed.finished
    <2>1. polled = fed
      BY <1>3, <1>7 DEF PollRegistration
    <2>2. PICK z : z = [fed EXCEPT !.pc = "sleep", !.polled = clock]
      OBVIOUS
    <2>3. wait' = z
      BY <1>4, <1>6, <2>1, <2>2
    <2>4. /\ DOMAIN z = WaitFields /\ z.pc = "sleep" /\ z.cursor = w.cursor /\ z.scope = w.scope
          /\ z.finished = w.finished /\ z.from = w.from /\ z.generation = w.generation /\ z.observed = w.observed
          /\ z.last = w.last /\ z.condition = w.condition /\ z.matched = w.matched /\ z.active = w.active
          /\ z.requests = w.requests /\ z.responses = w.responses
      BY <1>6, <2>2 DEF WaitFields
    <2>5. NetworkNoted(log, w) => NetworkNoted(log, z)
      BY <2>4 DEF NetworkNoted, RequestsNoted, RequestsActive
    <2>6. Admitted(log, z) = Admitted(log, w)
      BY <2>4 DEF Admitted
    <2>7. WaitObserved(log, z)
      BY <1>5, <2>4, <2>5, <2>6 DEF PendingInv, WaitObserved
    <2>8. WaitCursor(log, z) /\ WaitAwake(log, z) /\ z.finished \in BOOLEAN
      BY <1>5, <1>6, <1>7, <2>4 DEF PendingInv, WaitCursor, WaitAwake
    <2> QED
      BY <2>3, <2>4, <2>7, <2>8 DEF IsWait, PendingInv
  <1>8. CASE \E outcome \in {"cancelled", "timeout", "lagged"} : polled = Ended(fed, outcome)
    <2>1. PICK outcome \in {"cancelled", "timeout", "lagged"} : polled = Ended(fed, outcome)
      BY <1>8
    <2>2. polled.pc = "done" /\ IsWait(log, polled)
      BY <1>6, <2>1, EndedIsWait
    <2> QED
      BY <1>4, <2>2
  <1>9. PICK r : r = Replay(fed.router, fed.cursor, fed.scope)
    OBVIOUS
  <1>10. CASE ~fed.finished /\ polled = ObserveAll([fed EXCEPT !.cursor.seq = r.seq], r.events) /\ r.accepted
    <2>1. r = Replay(q, w.cursor, w.scope)
      BY <1>6, <1>9
    <2>2. batch.accepted
      <3> SUFFICES ASSUME ~batch.accepted PROVE FALSE
        OBVIOUS
      <3>1. q = RequireResync(w.router)
        BY <1>1 DEF IngestBatch
      <3>2. w.router \in Routers
        BY <1>5, <1>6, <1>10 DEF PendingInv, WaitCursor, InStep
      <3>3. q.resync = TRUE
        BY <3>1, <3>2 DEF RequireResync, Routers
      <3>4. ~r.accepted
        BY <2>1, <3>3 DEF Replay
      <3> QED
        BY <1>10, <3>4
    <2>3. Caught(log, w, q)
      BY <1>1, <1>5, <1>6, <1>10, <2>2, FedIsCaught
    <2>4. r.seq = Len(log) /\ Delivers(log, r.events, Due(log, w.cursor.seq, Len(log), w.scope), Admitted(log, w))
      BY <1>10, <2>1, <2>3, OwnReplay
    <2>5. PICK u : u = Moved(log, w, q)
      OBVIOUS
    <2>6. u = [fed EXCEPT !.cursor.seq = r.seq]
      <3>1. "router" # "cursor"
        OBVIOUS
      <3>2. PICK c : c = [w.cursor EXCEPT !.seq = Len(log)]
        OBVIOUS
      <3>3. [fed EXCEPT !.cursor.seq = r.seq] = [fed EXCEPT !.cursor = c]
        BY <1>6, <2>4, <3>2
      <3>4. u = [w EXCEPT !.router = q, !.cursor = c]
        BY <2>5, <3>2 DEF Moved
      <3> QED
        BY <1>2, <3>3, <3>4
    <2>7. PICK es, v : es = r.events /\ v = ObserveAll(u, es)
      OBVIOUS
    <2>8. polled = v /\ Delivers(log, es, Due(log, w.cursor.seq, Len(log), w.scope), Admitted(log, w))
      BY <1>10, <2>4, <2>6, <2>7
    <2>9. /\ DOMAIN v = WaitFields
          /\ \/ v.pc = "poll" /\ PendingInv(log, [v EXCEPT !.pc = "sleep", !.polled = clock])
             \/ v.pc = "done" /\ DoneInv(log, v)
      <3>1. PICK L, time : L = log /\ time = clock
        OBVIOUS
      <3>2. Caught(L, w, q) /\ u = Moved(L, w, q) /\ v = ObserveAll(u, es)
        BY <2>3, <2>5, <2>7, <3>1
      <3>3. Delivers(L, es, Due(L, w.cursor.seq, Len(L), w.scope), Admitted(L, w))
        BY <2>8, <3>1
      <3>4. /\ DOMAIN v = WaitFields
            /\ \/ v.pc = "poll" /\ PendingInv(L, [v EXCEPT !.pc = "sleep", !.polled = time])
               \/ v.pc = "done" /\ DoneInv(L, v)
        BY <3>2, <3>3, PollObserves
      <3> QED
        BY <3>1, <3>4
    <2>10. CASE v.pc = "done"
      BY <1>4, <2>8, <2>9, <2>10 DEF IsWait
    <2>11. CASE v.pc = "poll"
      <3>1. wait' = [v EXCEPT !.pc = "sleep", !.polled = clock]
        BY <1>4, <2>8, <2>11
      <3>2. DOMAIN wait' = WaitFields
        BY <2>9, <3>1
      <3> QED
        BY <2>9, <2>11, <3>1, <3>2 DEF IsWait
    <2> QED
      BY <2>9, <2>10, <2>11
  <1>11. \/ fed.finished
         \/ \E outcome \in {"cancelled", "timeout", "lagged"} : polled = Ended(fed, outcome)
         \/ ~fed.finished /\ polled = ObserveAll([fed EXCEPT !.cursor.seq = r.seq], r.events) /\ r.accepted
    <2>1. CASE ~fed.finished /\ cancelled
      BY <1>3, <2>1 DEF PollRegistration
    <2>2. CASE ~fed.finished /\ ~cancelled /\ clock >= fed.deadline
      BY <1>3, <2>2 DEF PollRegistration
    <2>3. CASE ~fed.finished /\ ~cancelled /\ ~(clock >= fed.deadline)
      BY <1>3, <1>9, <2>3 DEF PollRegistration
    <2> QED
      BY <2>1, <2>2, <2>3
  <1> QED
    BY <1>7, <1>8, <1>10, <1>11

-----------------------------------------------------------------------------
(* The other steps of a wait.                                                  *)

\* What a wait has noted does not depend on what its thread is about to do.
SameNotes(w, u) ==
    /\ u.finished = w.finished /\ u.from = w.from /\ u.scope = w.scope /\ u.cursor = w.cursor
    /\ u.router = w.router /\ u.condition = w.condition /\ u.observed = w.observed /\ u.last = w.last
    /\ u.matched = w.matched /\ u.active = w.active /\ u.requests = w.requests /\ u.responses = w.responses

\* A wait that is pending stays so when its thread goes on.
LEMMA SamePending ==
    ASSUME NEW L, NEW w, PendingInv(L, w), NEW u, SameNotes(w, u), u.pc \in {"read", "poll", "sleep"}, WaitAwake(L, u)
    PROVE  PendingInv(L, u)
  <1>1. Admitted(L, u) = Admitted(L, w)
    BY DEF SameNotes, Admitted
  <1>2. NetworkNoted(L, w) => NetworkNoted(L, u)
    BY DEF SameNotes, NetworkNoted, RequestsNoted, RequestsActive
  <1>3. WaitObserved(L, u)
    BY <1>1, <1>2 DEF SameNotes, PendingInv, WaitObserved
  <1>4. WaitCursor(L, u) /\ u.finished \in BOOLEAN
    BY <1>1 DEF SameNotes, PendingInv, WaitCursor
  <1> QED
    BY <1>3, <1>4 DEF PendingInv

\* Register.
LEMMA RegisterStep ==
    ASSUME BrokerInv, NEW condition, NEW scope, NEW cursor \in {Cursor} \cup Quotable,
           Register(condition, scope, cursor)
    PROVE  IsWait(log, wait')
  <1>1. cursor \in Cursors /\ cursor = [epoch |-> cursor.epoch, seq |-> cursor.seq]
    <2>1. epoch \in Nat /\ epoch - 1 \in Nat /\ Len(log) \in Nat
      BY DEF BrokerInv
    <2>2. CASE cursor = Cursor
      BY <2>1, <2>2 DEF Cursor, Cursors
    <2>3. CASE cursor \in Quotable
      <3>1. cursor \in [epoch : {epoch - 1, epoch}, seq : Quotes] /\ Quotes \subseteq Nat
        BY <2>3, WaitAssumption DEF Quotable
      <3>2. cursor = [epoch |-> cursor.epoch, seq |-> cursor.seq] /\ cursor.epoch \in Nat /\ cursor.seq \in Nat
        BY <2>1, <3>1
      <3> QED
        BY <3>2 DEF Cursors
    <2> QED
      BY <2>2, <2>3
  <1>2. PICK w, L, at, ep, r : w = wait' /\ L = log /\ at = cursor.seq /\ ep = cursor.epoch /\ r = RouterAt(cursor)
    OBVIOUS
  <1>3. at \in Nat /\ ep \in Nat /\ r = RouterAt([epoch |-> ep, seq |-> at])
    BY <1>1, <1>2 DEF Cursors
  <1>4. /\ DOMAIN w = WaitFields /\ w.pc = "read" /\ w.finished = FALSE /\ w.from = cursor /\ w.cursor = cursor
        /\ w.scope = scope /\ w.router = r /\ w.generation = 0 /\ w.observed = {} /\ w.last = 0 /\ w.matched = 0
        /\ w.active = {} /\ w.requests = {} /\ w.responses = {}
    BY <1>2 DEF Register, WaitFields
  <1>5. PICK among : among = Admitted(L, w)
    OBVIOUS
  <1>6. among \subseteq Nat /\ Len(L) \in Nat
    BY <1>2, <1>5 DEF Admitted, Due, BrokerInv
  <1>7. /\ r \in Routers /\ r.epoch = ep /\ r.seq = at /\ ~r.resync
        /\ Ordered(r, L, at) /\ (among \subseteq Nat => Covers(r, L, among, at, at))
    BY <1>3, RouterStarts
  <1>8. WaitCursor(L, w)
    BY <1>1, <1>2, <1>3, <1>4, <1>5, <1>6, <1>7 DEF WaitCursor, InStep
  <1>9. NetworkNoted(L, w)
    BY <1>4 DEF NetworkNoted, RequestsNoted, RequestsActive
  <1>10. WaitObserved(L, w)
    <2>1. Due(L, at, at, scope) = {}
      BY <1>3 DEF Due
    <2> QED
      BY <1>2, <1>3, <1>4, <1>9, <2>1 DEF WaitObserved
  <1>11. WaitAwake(L, w)
    BY <1>4 DEF WaitAwake
  <1> QED
    BY <1>2, <1>4, <1>8, <1>10, <1>11 DEF IsWait, PendingInv

\* ReadGeneration: everything that is in the log has been counted.
LEMMA GenerationStep ==
    ASSUME BrokerInv, DOMAIN wait = WaitFields, PendingInv(log, wait), ReadGeneration
    PROVE  IsWait(log, wait')
  <1>1. PICK w, u, L : w = wait /\ u = wait' /\ L = log
    OBVIOUS
  <1>2. u = [w EXCEPT !.pc = "poll", !.generation = generation] /\ DOMAIN w = WaitFields
    BY <1>1 DEF ReadGeneration
  <1>3. DOMAIN u = WaitFields /\ u.pc = "poll" /\ u.generation = generation /\ SameNotes(w, u)
    BY <1>2 DEF SameNotes, WaitFields
  <1>4. WaitAwake(L, u)
    BY <1>1, <1>3 DEF WaitAwake, BrokerInv
  <1>5. PendingInv(L, u)
    BY <1>1, <1>3, <1>4, SamePending
  <1> QED
    BY <1>1, <1>3, <1>5 DEF IsWait

\* Wake.
LEMMA WakeStep ==
    ASSUME DOMAIN wait = WaitFields, PendingInv(log, wait), Wake
    PROVE  IsWait(log, wait')
  <1>1. PICK w, u, L : w = wait /\ u = wait' /\ L = log
    OBVIOUS
  <1>2. CASE cancelled
    BY <1>2, EndedIsWait DEF Wake
  <1>3. CASE ~cancelled
    <2>1. u = [w EXCEPT !.pc = "read"] /\ DOMAIN w = WaitFields
      BY <1>1, <1>3 DEF Wake
    <2>2. DOMAIN u = WaitFields /\ u.pc = "read" /\ u.generation = w.generation /\ SameNotes(w, u)
      BY <2>1 DEF SameNotes, WaitFields
    <2>3. WaitAwake(L, u)
      BY <1>1, <2>2 DEF WaitAwake, PendingInv
    <2>4. PendingInv(L, u)
      BY <1>1, <2>2, <2>3, SamePending
    <2> QED
      BY <1>1, <2>2, <2>4 DEF IsWait
  <1> QED
    BY <1>2, <1>3

\* Events that come in leave a wait as it is, whether it is over or not.
LEMMA WaitGrows ==
    ASSUME NEW L, NEW M, Longer(L, M), NEW w, IsWait(L, w)
    PROVE  IsWait(M, w)
  BY PendingGrows, DoneGrows DEF IsWait

-----------------------------------------------------------------------------
(* A client of events.read.                                                    *)

\* What a reader of the current epoch has of a log, unless a batch was cut.
HasRead(L, base, cursor, got) ==
    \A i \in Due(L, base, cursor, Global) :
        \E j \in got : j \in 1..Len(L) /\ (i = j \/ Merges(L, i, j, 1..Len(L)))

ReaderInv ==
    /\ DOMAIN reader = {"cursor", "base", "got", "cut"} /\ reader.cursor \in Cursors /\ reader.base \in Cursors
    /\ reader.cursor.epoch <= epoch /\ reader.cut \in BOOLEAN
    /\ reader.cursor.epoch = epoch =>
           /\ reader.cursor.seq <= Len(log)
           /\ ~reader.cut => HasRead(log, reader.base.seq, reader.cursor.seq, reader.got)

\* A longer log takes nothing away from what was read.
LEMMA ReadGrows ==
    ASSUME NEW L, NEW M, Longer(L, M), Grows(L, M, 1..Len(L), 1..Len(M)), NEW base \in Nat, NEW cursor \in Nat,
           cursor <= Len(L), NEW got, HasRead(L, base, cursor, got)
    PROVE  HasRead(M, base, cursor, got)
  <1> SUFFICES ASSUME NEW i \in Due(M, base, cursor, Global)
               PROVE  \E j \in got : j \in 1..Len(M) /\ (i = j \/ Merges(M, i, j, 1..Len(M)))
    BY DEF HasRead
  <1>1. Len(L) \in Nat /\ Len(M) \in Nat /\ Len(L) <= Len(M)
    BY DEF Longer
  <1>2. i \in Due(L, base, cursor, Global)
    BY DueGrows
  <1>3. PICK j \in got : j \in 1..Len(L) /\ (i = j \/ Merges(L, i, j, 1..Len(L)))
    BY <1>2 DEF HasRead
  <1>4. i \in 1..Len(L)
    BY <1>1, <1>2 DEF Due
  <1>5. i = j \/ Merges(M, i, j, 1..Len(M))
    <2>1. CASE Merges(L, i, j, 1..Len(L))
      BY <1>3, <1>4, <2>1, MergesGrow
    <2> QED
      BY <1>3, <2>1
  <1> QED
    BY <1>1, <1>3, <1>5

\* A batch that is not cut is read to its end.
LEMMA ReadOn ==
    ASSUME NEW L \in Seq(EventRecords), NEW base \in Nat, NEW cursor \in Nat, cursor <= Len(L), NEW got,
           HasRead(L, base, cursor, got), NEW es, Delivers(L, es, Due(L, cursor, Len(L), Global), 1..Len(L)),
           NEW more, \A k \in 1..Len(es) : es[k].seq \in more
    PROVE  HasRead(L, base, Len(L), got \cup more)
  <1> SUFFICES ASSUME NEW i \in Due(L, base, Len(L), Global)
               PROVE  \E j \in got \cup more : j \in 1..Len(L) /\ (i = j \/ Merges(L, i, j, 1..Len(L)))
    BY DEF HasRead
  <1>1. Len(L) \in Nat
    OBVIOUS
  <1>2. i \in base + 1..Len(L) /\ i \in Nat
    BY <1>1 DEF Due
  <1>3. CASE i <= cursor
    <2>1. i \in base + 1..cursor
      BY <1>2, <1>3
    <2>2. i \in Due(L, base, cursor, Global)
      BY <2>1 DEF Due
    <2> QED
      BY <2>2 DEF HasRead
  <1>4. CASE cursor < i
    <2>1. i \in cursor + 1..Len(L)
      BY <1>1, <1>2, <1>4
    <2>2. i \in Due(L, cursor, Len(L), Global)
      BY <2>1 DEF Due
    <2>3. PICK k \in 1..Len(es) : i = es[k].seq \/ Merges(L, i, es[k].seq, 1..Len(L))
      BY <2>2 DEF Delivers
    <2>4. es[k].seq \in Due(L, cursor, Len(L), Global)
      BY DEF Delivers
    <2>5. es[k].seq \in 1..Len(L)
      BY <1>1, <2>4 DEF Due
    <2> QED
      BY <2>3, <2>5
  <1> QED
    BY <1>2, <1>3, <1>4

\* events.read.
LEMMA ReadStep ==
    ASSUME BrokerInv, ReaderInv, NEW limit, ReadEvents(limit)
    PROVE  ReaderInv'
  <1>1. PICK batch : batch = ResumeEvents(reader.cursor, Global)
    OBVIOUS
  <1>2. PICK given, next :
            /\ given = SubSeq(batch.events, 1, IF limit < Len(batch.events) THEN limit ELSE Len(batch.events))
            /\ next = [epoch |-> batch.epoch, seq |-> batch.seq]
    OBVIOUS
  <1>3. /\ reader' = IF batch.accepted
                     THEN [reader EXCEPT !.cursor = next, !.got = @ \cup {e.seq : e \in ToSet(given)},
                                         !.cut = @ \/ limit < Len(batch.events)]
                     ELSE [cursor |-> next, base |-> next, got |-> {}, cut |-> FALSE]
        /\ epoch' = epoch /\ log' = log
    BY <1>1, <1>2, Zenon DEF ReadEvents
  <1>4. /\ DOMAIN reader = {"cursor", "base", "got", "cut"} /\ reader.cursor \in Cursors /\ reader.base \in Cursors
        /\ reader.cursor.epoch <= epoch /\ reader.cut \in BOOLEAN /\ reader.cursor.seq \in Nat /\ reader.base.seq \in Nat
    BY DEF ReaderInv, Cursors
  <1>5. /\ batch.epoch = epoch /\ batch.seq = Len(log) /\ batch.accepted \in BOOLEAN
        /\ batch.accepted =>
               /\ reader.cursor.epoch = epoch /\ reader.cursor.seq <= Len(log)
               /\ Delivers(log, batch.events, Due(log, reader.cursor.seq, Len(log), Global), 1..Len(log))
    BY <1>1, <1>4, ResumeGives
  <1>6. epoch \in Nat /\ Len(log) \in Nat /\ log \in Seq(EventRecords)
    BY DEF BrokerInv
  <1>7. next \in Cursors /\ next.epoch = epoch /\ next.seq = Len(log)
    BY <1>2, <1>5, <1>6 DEF Cursors
  <1>8. CASE ~batch.accepted
    <2>1. reader' = [cursor |-> next, base |-> next, got |-> {}, cut |-> FALSE]
      BY <1>3, <1>8
    <2>2. Due(log, Len(log), Len(log), Global) = {}
      BY <1>6 DEF Due
    <2>3. HasRead(log, Len(log), Len(log), {})
      BY <2>2 DEF HasRead
    <2>4. /\ DOMAIN reader' = {"cursor", "base", "got", "cut"} /\ reader'.cursor = next /\ reader'.base = next
          /\ reader'.got = {} /\ reader'.cut = FALSE
      BY <2>1
    <2>5. HasRead(log', reader'.base.seq, reader'.cursor.seq, reader'.got)
      BY <1>3, <1>7, <2>3, <2>4
    <2>6. reader'.cursor.epoch <= epoch' /\ reader'.cursor.seq <= Len(log')
      BY <1>3, <1>6, <1>7, <2>4
    <2> QED
      BY <1>7, <2>4, <2>5, <2>6 DEF ReaderInv
  <1>9. CASE batch.accepted
    <2>1. PICK es, more : es = batch.events /\ more = {e.seq : e \in ToSet(given)}
      OBVIOUS
    <2>2. /\ DOMAIN reader' = {"cursor", "base", "got", "cut"} /\ reader'.cursor = next /\ reader'.base = reader.base
          /\ reader'.got = reader.got \cup more /\ reader'.cut = (reader.cut \/ limit < Len(es))
      BY <1>3, <1>4, <1>9, <2>1
    <2>3. ASSUME ~reader'.cut PROVE HasRead(log, reader.base.seq, Len(log), reader'.got)
      <3>1. ~reader.cut /\ ~(limit < Len(es))
        BY <2>2, <2>3
      <3>2. Delivers(log, es, Due(log, reader.cursor.seq, Len(log), Global), 1..Len(log)) /\ es \in Seq(EventRecords)
        BY <1>5, <1>9, <2>1 DEF Delivers
      <3>3. given = SubSeq(es, 1, Len(es))
        BY <1>2, <2>1, <3>1
      <3>4. given = es
        BY <3>2, <3>3
      <3>5. \A k \in 1..Len(es) : es[k].seq \in more
        BY <2>1, <3>2, <3>4 DEF ToSet
      <3>6. HasRead(log, reader.base.seq, reader.cursor.seq, reader.got) /\ reader.cursor.seq <= Len(log)
        BY <1>5, <1>9, <3>1 DEF ReaderInv
      <3>7. PICK L, base, cursor, got :
                L = log /\ base = reader.base.seq /\ cursor = reader.cursor.seq /\ got = reader.got
        OBVIOUS
      <3>8. /\ L \in Seq(EventRecords) /\ base \in Nat /\ cursor \in Nat /\ cursor <= Len(L)
            /\ HasRead(L, base, cursor, got) /\ Delivers(L, es, Due(L, cursor, Len(L), Global), 1..Len(L))
        BY <1>4, <1>6, <3>2, <3>6, <3>7
      <3>9. HasRead(L, base, Len(L), got \cup more)
        BY <3>5, <3>8, ReadOn
      <3> QED
        BY <2>2, <3>7, <3>9
    <2>4. ~reader'.cut => HasRead(log', reader'.base.seq, reader'.cursor.seq, reader'.got)
      BY <1>3, <1>7, <2>2, <2>3
    <2>5. reader'.cursor.epoch <= epoch' /\ reader'.cursor.seq <= Len(log')
      BY <1>3, <1>6, <1>7, <2>2
    <2>6. reader'.cut \in BOOLEAN
      BY <2>2, Zenon
    <2> QED
      BY <1>4, <1>7, <2>2, <2>4, <2>5, <2>6 DEF ReaderInv
  <1> QED
    BY <1>5, <1>8, <1>9

-----------------------------------------------------------------------------
(* The stream, as a whole.                                                     *)

StreamInv == BrokerInv /\ LogKept(log) /\ ReaderInv /\ (wait = NoWait \/ IsWait(log, wait))

\* Before there is any event.
LEMMA StreamStarts == EventInit /\ WaitInit => StreamInv
  <1> SUFFICES ASSUME EventInit, WaitInit PROVE StreamInv
    OBVIOUS
  <1>1. BrokerInv
    BY BrokerStarts
  <1>2. log = <<>> /\ epoch = 1 /\ Len(log) = 0 /\ 1..Len(log) = {}
    BY DEF EventInit
  <1>3. LogKept(log)
    BY <1>2 DEF LogKept
  <1>4. PICK c : c = [epoch |-> 1, seq |-> 0]
    OBVIOUS
  <1>5. reader = [cursor |-> c, base |-> c, got |-> {}, cut |-> FALSE] /\ c \in Cursors /\ c.seq = 0 /\ c.epoch = 1
    BY <1>2, <1>4 DEF EventInit, Cursor, Cursors
  <1>6. HasRead(log, 0, 0, {})
    BY DEF HasRead, Due
  <1>7. ReaderInv
    BY <1>2, <1>5, <1>6 DEF ReaderInv
  <1> QED
    BY <1>1, <1>3, <1>7 DEF StreamInv, WaitInit

\* One event more: nobody loses anything.
LEMMA AppendKeepsAll ==
    ASSUME StreamInv, NEW t \in Templates, AppendEvent(t), UNCHANGED wait
    PROVE  StreamInv'
  <1>1. BrokerInv /\ LogKept(log) /\ ReaderInv
    BY DEF StreamInv
  <1>2. /\ BrokerInv' /\ Len(log') = Len(log) + 1 /\ epoch' = epoch
        /\ Grows(log, log', 1..Len(log), 1..Len(log'))
    BY <1>1, AppendStep
  <1>3. PICK L, M : L = log /\ M = log'
    OBVIOUS
  <1>4. Grows(L, M, 1..Len(L), 1..Len(M)) /\ Longer(L, M)
    BY <1>2, <1>3 DEF Grows, Longer
  <1>5. LogKept(M)
    <2> SUFFICES ASSUME RequestsKept, NEW i \in 1..Len(M), M[i].tag = "request" /\ M[i].request # None
                 PROVE  ~Coalescible(M[i])
      BY DEF LogKept
    <2>1. Len(L) \in Nat /\ Len(M) = Len(L) + 1 /\ M = Append(L, Numbered(t)) /\ L \in Seq(EventRecords)
      BY <1>2, <1>3, <1>4 DEF AppendEvent, Grows
    <2>2. CASE i \in 1..Len(L)
      BY <1>1, <1>3, <1>4, <2>2 DEF Grows, LogKept
    <2>3. CASE i = Len(L) + 1
      <3>1. Numbered(t).tag = t.tag /\ Numbered(t).request = t.request /\ Numbered(t).kind = t.kind
        BY DEF Numbered
      <3>2. M[i] = Numbered(t)
        BY <2>1, <2>3
      <3>3. ~Coalescible(t)
        BY <3>1, <3>2 DEF RequestsKept
      <3> QED
        BY <3>1, <3>2, <3>3 DEF Coalescible
    <2> QED
      BY <2>1, <2>2, <2>3
  <1>6. ReaderInv'
    <2>1. reader' = reader /\ epoch' = epoch
      BY DEF AppendEvent
    <2>2. /\ DOMAIN reader = {"cursor", "base", "got", "cut"} /\ reader.cursor \in Cursors /\ reader.base \in Cursors
          /\ reader.cursor.epoch <= epoch /\ reader.cut \in BOOLEAN /\ reader.cursor.seq \in Nat /\ reader.base.seq \in Nat
      BY <1>1 DEF ReaderInv, Cursors
    <2>3. ASSUME reader.cursor.epoch = epoch
          PROVE  /\ reader.cursor.seq <= Len(M)
                 /\ ~reader.cut => HasRead(M, reader.base.seq, reader.cursor.seq, reader.got)
      <3>1. /\ reader.cursor.seq <= Len(L)
            /\ ~reader.cut => HasRead(L, reader.base.seq, reader.cursor.seq, reader.got)
        BY <1>1, <1>3, <2>3 DEF ReaderInv
      <3>2. Len(L) \in Nat /\ Len(M) \in Nat /\ Len(L) <= Len(M)
        BY <1>4 DEF Longer
      <3>3. PICK base, cursor, got : base = reader.base.seq /\ cursor = reader.cursor.seq /\ got = reader.got
        OBVIOUS
      <3>4. base \in Nat /\ cursor \in Nat /\ cursor <= Len(L)
        BY <2>2, <3>1, <3>3
      <3>5. HasRead(L, base, cursor, got) => HasRead(M, base, cursor, got)
        BY <1>4, <3>4, ReadGrows
      <3> QED
        BY <3>1, <3>2, <3>3, <3>4, <3>5
    <2>4. HasRead(M, reader.base.seq, reader.cursor.seq, reader.got)
             => HasRead(log', reader'.base.seq, reader'.cursor.seq, reader'.got)
      BY <1>3, <2>1
    <2> QED
      BY <1>3, <2>1, <2>2, <2>3, <2>4 DEF ReaderInv
  <1>7. wait' = NoWait \/ IsWait(M, wait')
    <2>1. PICK w : w = wait
      OBVIOUS
    <2>2. w = NoWait \/ IsWait(L, w)
      BY <1>3, <2>1 DEF StreamInv
    <2>3. IsWait(L, w) => IsWait(M, w)
      BY <1>4, WaitGrows
    <2> QED
      BY <2>1, <2>2, <2>3
  <1>8. LogKept(log') /\ (wait' = NoWait \/ IsWait(log', wait'))
    BY <1>3, <1>5, <1>7
  <1> QED
    BY <1>2, <1>6, <1>8 DEF StreamInv

\* A restart loses the waits, and no reader's cursor is of the new epoch.
LEMMA RestartKeepsAll ==
    ASSUME StreamInv, RestartHost
    PROVE  StreamInv'
  <1>1. BrokerInv'
    BY RestartStep DEF StreamInv, RestartHost
  <1>2. epoch \in Nat /\ epoch' = epoch + 1 /\ log' = <<>> /\ reader' = reader /\ wait' = NoWait
    BY DEF StreamInv, BrokerInv, RestartHost, HostRestart
  <1>3. LogKept(log')
    BY <1>2 DEF LogKept
  <1>4. reader'.cursor.epoch <= epoch' /\ reader'.cursor.epoch # epoch'
    BY <1>2 DEF StreamInv, ReaderInv, Cursors
  <1>5. ReaderInv'
    BY <1>2, <1>4 DEF StreamInv, ReaderInv
  <1> QED
    BY <1>1, <1>2, <1>3, <1>5 DEF StreamInv

\* Steps of a wait alone.
LEMMA WaitKeepsAll ==
    ASSUME StreamInv, UNCHANGED eventVars,
           \/ \E c \in Conditions, s \in Scopes, q \in {Cursor} \cup Quotable : Register(c, s, q)
           \/ ReadGeneration \/ Poll \/ Wake \/ Cancel \/ Tick
    PROVE  StreamInv'
  <1>1. BrokerInv /\ LogKept(log) /\ ReaderInv /\ (wait = NoWait \/ IsWait(log, wait))
    BY DEF StreamInv
  <1>2. BrokerInv' /\ LogKept(log') /\ ReaderInv' /\ log' = log
    <2>1. log' = log /\ epoch' = epoch /\ router' = router /\ generation' = generation /\ reader' = reader
      BY DEF eventVars
    <2> QED
      BY <1>1, <2>1 DEF BrokerInv, ReaderInv
  <1>3. wait' = NoWait \/ IsWait(log, wait')
    <2>1. CASE \E c \in Conditions, s \in Scopes, q \in {Cursor} \cup Quotable : Register(c, s, q)
      BY <1>1, <2>1, RegisterStep
    <2>2. CASE Cancel \/ Tick
      BY <1>1, <2>2 DEF Cancel, Tick
    <2>3. CASE ReadGeneration \/ Poll \/ Wake
      <3>1. wait.pc \in {"read", "poll", "sleep"}
        BY <2>3 DEF ReadGeneration, Poll, Wake
      <3>2. DOMAIN wait = WaitFields /\ PendingInv(log, wait)
        BY <1>1, <3>1 DEF NoWait, IsWait
      <3> QED
        BY <1>1, <2>3, <3>2, GenerationStep, PollStep, WakeStep
    <2> QED
      BY <2>1, <2>2, <2>3
  <1>4. wait' = NoWait \/ IsWait(log', wait')
    BY <1>2, <1>3
  <1> QED
    BY <1>2, <1>4 DEF StreamInv

\* A read moves the reader alone.
LEMMA ReadKeepsAll ==
    ASSUME StreamInv, NEW n, ReadEvents(n), UNCHANGED wait
    PROVE  StreamInv'
  <1>1. BrokerInv /\ LogKept(log) /\ ReaderInv /\ (wait = NoWait \/ IsWait(log, wait))
    BY DEF StreamInv
  <1>2. log' = log /\ epoch' = epoch /\ router' = router /\ generation' = generation
    BY DEF ReadEvents
  <1>3. BrokerInv' /\ LogKept(log')
    BY <1>1, <1>2 DEF BrokerInv
  <1>4. ReaderInv'
    BY <1>1, ReadStep
  <1>5. wait' = NoWait \/ IsWait(log', wait')
    BY <1>1, <1>2
  <1> QED
    BY <1>3, <1>4, <1>5 DEF StreamInv

\* The inductive invariant holds throughout: the broker's router, the reader and the wait are in
\* step with the log, whatever is appended, read, polled or restarted in between.
THEOREM StreamSafety == WaitSpec => []StreamInv
  <1>1. EventInit /\ WaitInit => StreamInv
    BY StreamStarts
  <1>2. StreamInv /\ [ReaderNext \/ WaitNext(Conditions, Templates)]_<<eventVars, waitVars>> => StreamInv'
    <2> SUFFICES ASSUME StreamInv, [ReaderNext \/ WaitNext(Conditions, Templates)]_<<eventVars, waitVars>>
                 PROVE  StreamInv'
      OBVIOUS
    <2>1. CASE \E t \in Templates : AppendEvent(t) /\ UNCHANGED waitVars
      BY <2>1, AppendKeepsAll DEF waitVars
    <2>2. CASE \E n \in ReadLimits : ReadEvents(n) /\ UNCHANGED waitVars
      BY <2>2, ReadKeepsAll DEF waitVars
    <2>3. CASE RestartHost
      BY <2>3, RestartKeepsAll
    <2>4. CASE /\ UNCHANGED eventVars
               /\ \/ \E c \in Conditions, s \in Scopes, q \in {Cursor} \cup Quotable : Register(c, s, q)
                  \/ ReadGeneration \/ Poll \/ Wake \/ Cancel \/ Tick
      BY <2>4, WaitKeepsAll
    <2>5. CASE UNCHANGED <<eventVars, waitVars>>
      <3>1. /\ log' = log /\ epoch' = epoch /\ router' = router /\ generation' = generation /\ reader' = reader
            /\ wait' = wait
        BY <2>5 DEF eventVars, waitVars
      <3> QED
        BY <3>1 DEF StreamInv, BrokerInv, ReaderInv
    <2> QED
      BY <2>1, <2>2, <2>3, <2>4, <2>5 DEF ReaderNext, WaitNext
  <1> QED
    BY <1>1, <1>2, PTL DEF WaitSpec

\* The wait that the properties speak of is not over.
LEMMA PendingWait ==
    StreamInv /\ wait.pc \in {"read", "poll", "sleep"} => PendingInv(log, wait) /\ Len(log) \in Nat /\ generation = Len(log)
  <1> SUFFICES ASSUME StreamInv, wait.pc \in {"read", "poll", "sleep"}
               PROVE  PendingInv(log, wait) /\ Len(log) \in Nat /\ generation = Len(log)
    OBVIOUS
  <1>1. wait # NoWait /\ wait.pc # "done"
    BY DEF NoWait
  <1> QED
    BY <1>1 DEF StreamInv, IsWait, BrokerInv

\* Neither a client that waits nor one that reads loses an event, for every number of
\* events, every retention of the ledger and of a wait, every set of scopes and of
\* conditions, through any number of restarts.
THEOREM NothingMissed == WaitSpec => []StreamMissesNothing
  <1>1. StreamInv => WaitMissesNothing
    <2> SUFFICES ASSUME StreamInv, wait.pc \in {"read", "poll", "sleep"}
                 PROVE  /\ \A i \in wait.observed : log[i].scope.space \in Visible \cup {None}
                        /\ \A i \in DueBetween(wait.from.seq, wait.cursor.seq, wait.scope) :
                              \E j \in wait.observed :
                                  i = j \/ MergedInto(i, j, DueBetween(0, Len(log), wait.scope))
      BY DEF WaitMissesNothing
    <2>1. WaitObserved(log, wait)
      BY PendingWait DEF PendingInv
    <2>2. \A i \in wait.observed : log[i].scope.space \in Visible \cup {None}
      BY <2>1 DEF WaitObserved, Due
    <2>3. /\ DueBetween(wait.from.seq, wait.cursor.seq, wait.scope) = Due(log, wait.from.seq, wait.cursor.seq, wait.scope)
          /\ DueBetween(0, Len(log), wait.scope) = Admitted(log, wait)
      BY DEF DueBetween, Due, Admitted
    <2>4. \A i, j : Merges(log, i, j, Admitted(log, wait)) => MergedInto(i, j, Admitted(log, wait))
      BY DEF Merges, MergedInto
    <2> QED
      BY <2>1, <2>2, <2>3, <2>4 DEF WaitObserved
  <1>2. StreamInv => ReaderMissesNothing
    <2> SUFFICES ASSUME StreamInv, ~reader.cut, reader.cursor.epoch = epoch,
                        NEW i \in DueBetween(reader.base.seq, reader.cursor.seq, Global)
                 PROVE  \E j \in reader.got : j <= Len(log) /\ (i = j \/ MergedInto(i, j, 1..Len(log)))
      BY DEF ReaderMissesNothing, ReadsComplete
    <2>1. HasRead(log, reader.base.seq, reader.cursor.seq, reader.got) /\ Len(log) \in Nat
      BY DEF StreamInv, ReaderInv, BrokerInv
    <2>2. i \in Due(log, reader.base.seq, reader.cursor.seq, Global)
      BY DEF DueBetween, Due
    <2>3. PICK j \in reader.got : j \in 1..Len(log) /\ (i = j \/ Merges(log, i, j, 1..Len(log)))
      BY <2>1, <2>2 DEF HasRead
    <2>4. i = j \/ MergedInto(i, j, 1..Len(log))
      BY <2>3 DEF Merges, MergedInto
    <2> QED
      BY <2>1, <2>3, <2>4
  <1>3. StreamInv => StreamMissesNothing
    BY <1>1, <1>2 DEF StreamMissesNothing
  <1> QED
    BY <1>3, StreamSafety, PTL

\* No commit slips between the read of the generation and the sleep of a wait.
THEOREM NoLostWakeup == WaitSpec => []SleeperIsCurrent
  <1>1. StreamInv => SleeperIsCurrent
    <2> SUFFICES ASSUME StreamInv, wait.pc = "sleep", ~wait.finished, wait.generation = generation
                 PROVE  wait.cursor.seq = Len(log)
      BY DEF SleeperIsCurrent
    <2>1. PendingInv(log, wait) /\ Len(log) \in Nat /\ generation = Len(log)
      BY PendingWait
    <2>2. wait.generation <= wait.cursor.seq /\ wait.cursor.seq <= Len(log) /\ wait.cursor.seq \in Nat
      BY <2>1 DEF PendingInv, WaitAwake, WaitCursor, Cursors
    <2> QED
      BY <2>1, <2>2
  <1> QED
    BY <1>1, StreamSafety, PTL

\* A wait for a response is over once it has seen the response and its request, in whichever
\* order they came.
THEOREM ResponsesMeetRequests == WaitSpec => []ResponseCorrelated
  <1>1. StreamInv => ResponseCorrelated
    <2> SUFFICES ASSUME StreamInv, wait.pc \in {"read", "poll", "sleep"}, wait.condition = "response",
                        NEW i \in wait.observed, NEW j \in wait.observed,
                        log[i].tag = "request", log[j].tag = "response",
                        log[i].request = log[j].request, log[i].request # None
                 PROVE  FALSE
      BY DEF ResponseCorrelated
    <2>1. RequestsNoted(log, wait)
      BY PendingWait DEF PendingInv, WaitObserved, NetworkNoted
    <2> QED
      BY <2>1 DEF RequestsNoted
  <1> QED
    BY <1>1, StreamSafety, PTL

\* A wait that reports an idle network does so at an event before which every request of its
\* scope has ended, as long as the events of requests are not of a kind that is merged.
THEOREM IdleMeansQuiet ==
    ASSUME RequestsKept
    PROVE  WaitSpec => []IdleIsQuiet
  <1>1. StreamInv => IdleIsQuiet
    <2> SUFFICES ASSUME StreamInv, wait.pc = "done", wait.outcome = "matched", wait.condition = "network_idle",
                        NEW i \in DueBetween(wait.from.seq, Reported(wait), wait.scope),
                        log[i].tag = "request", log[i].request # None, ~log[i].excluded
                 PROVE  \E j \in i + 1..Reported(wait) :
                            log[j].tag = "finished" /\ log[j].request = log[i].request
      BY DEF IdleIsQuiet
    <2>1. wait # NoWait
      BY DEF NoWait
    <2>2. DoneInv(log, wait)
      BY <2>1 DEF StreamInv, IsWait, PendingInv
    <2>3. Reported(wait) = wait.last
      BY <2>2 DEF DoneInv, Reported
    <2>4. i \in Due(log, wait.from.seq, wait.last, wait.scope)
      BY <2>3 DEF DueBetween, Due
    <2>5. Answered(log, i, wait.last)
      BY <2>2, <2>4 DEF DoneInv
    <2> QED
      BY <2>3, <2>5 DEF Answered
  <1> QED
    BY <1>1, StreamSafety, PTL
=============================================================================
