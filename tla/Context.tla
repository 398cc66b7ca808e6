------------------------------ MODULE Context ------------------------------
(* What snapshot.read answers: the context builder that turns a snapshot into  *)
(* a full, compact, focused or incremental body within a budget, and the       *)
(* deltas of documents.  (agentyc-host/src/context.rs and                      *)
(* agentyc-core/src/snapshots.rs.)  A document is a function from the keys of  *)
(* its elements; its content hash is the document itself; the size of what is  *)
(* serialised is a small weight.                                               *)
EXTENDS Naturals, FiniteSets

CONSTANTS
    Root,           \* the parent of an element that has none
    NoBudget,       \* no max_serialized_bytes, no token_budget
    MaxOperations,  \* DeltaLimits::max_operations
    MaxChainDepth,  \* DeltaLimits::max_chain_depth
    MetadataCost    \* weight of the metadata of an answer

VARIABLES
    ask,        \* the input: a snapshot, perhaps a base, and a request
    answer      \* the ContextOutput

contextVars == <<ask, answer>>

Keys(doc) == DOMAIN doc
Restricted(doc, keys) == [k \in keys |-> doc[k]]

\* redact_elements: an attribute that is sensitive gets the replacement value.
Redacted(doc) ==
    [k \in Keys(doc) |-> IF doc[k].value = "raw" THEN [doc[k] EXCEPT !.value = "masked"] ELSE doc[k]]

\* compact_elements: what is not a control or a frame keeps neither text nor attributes.
Compacted(doc) ==
    [k \in Keys(doc) |-> IF doc[k].value = "text" THEN [doc[k] EXCEPT !.value = "none"] ELSE doc[k]]

-----------------------------------------------------------------------------
(* SnapshotDelta                                                               *)

\* build_delta_body for a key of both documents: a move if only the order differs.
OperationFor(base, result, k) ==
    IF [base[k] EXCEPT !.order = result[k].order] = result[k]
    THEN [op |-> "move", key |-> k, order |-> result[k].order]
    ELSE [op |-> "replace", key |-> k, element |-> result[k]]

Operations(base, result) ==
    {[op |-> "remove", key |-> k] : k \in Keys(base) \ Keys(result)}
    \cup {[op |-> "upsert", key |-> k, element |-> result[k]] : k \in Keys(result) \ Keys(base)}
    \cup {OperationFor(base, result, k) : k \in {j \in Keys(base) \cap Keys(result) : base[j] # result[j]}}

\* SnapshotDelta::validate.
DeltaValid(delta) ==
    /\ Cardinality(delta.operations) <= MaxOperations
    /\ delta.depth <= MaxChainDepth
    /\ delta.resultVersion > delta.baseVersion

\* SnapshotDelta::apply: the operations name different keys, so their order is of no
\* consequence; all but an upsert need an element to work on.
Applied(operations, base) ==
    LET keys(ops) == {o.key : o \in {p \in operations : p.op \in ops}}
        of(k) == CHOOSE o \in operations : o.key = k
    IN [k \in (Keys(base) \ keys({"remove"})) \cup keys({"upsert"}) |->
           IF k \in keys({"upsert", "replace"}) THEN of(k).element
           ELSE IF k \in keys({"move"}) THEN [base[k] EXCEPT !.order = of(k).order]
           ELSE base[k]]

-----------------------------------------------------------------------------
(* Focus                                                                       *)

\* The chain of parents of an element, as far as it goes.
Chain(doc, k) ==
    LET up[n \in 0..Cardinality(Keys(doc))] ==
            IF n = 0 THEN {k}
            ELSE up[n - 1] \cup {doc[j].parent : j \in up[n - 1] \cap Keys(doc)}
    IN up[Cardinality(Keys(doc))]

Rooted(doc, k) == Root \in Chain(doc, k) /\ Chain(doc, k) \ {Root} \subseteq Keys(doc)
Cyclic(doc, k) == Chain(doc, k) \subseteq Keys(doc)

\* focus_elements: the whole of the only frame, or the ancestors and the descendants of
\* the element asked for; a parent that is missing or a cycle is an error.
Focusable(doc, focus) ==
    IF focus = "frame" THEN \A k \in Keys(doc) : Rooted(doc, k)
    ELSE /\ focus \in Keys(doc) /\ Rooted(doc, focus)
         /\ \A k \in Keys(doc) : Cyclic(doc, k) => focus \in Chain(doc, k)

FocusKeys(doc, focus) ==
    IF focus = "frame" THEN Keys(doc)
    ELSE (Chain(doc, focus) \ {Root}) \cup {k \in Keys(doc) : focus \in Chain(doc, k)}

-----------------------------------------------------------------------------
(* Costs and budgets                                                           *)

ElementCost(e) == IF e.value = "none" THEN 1 ELSE 2
CostOf(doc) ==
    LET sum[n \in 0..Cardinality(Keys(doc))] ==
            IF n = 0 THEN 0
            ELSE sum[n - 1] + ElementCost(doc[CHOOSE k \in Keys(doc) :
                                 Cardinality({j \in Keys(doc) : doc[j].order < doc[k].order}) = n - 1])
    IN sum[Cardinality(Keys(doc))]
DeltaCost(operations) ==
    2 * Cardinality(operations) + Cardinality({o \in operations : o.op \in {"replace", "upsert"}})

\* fits_budget: bytes and tokens, each of which a request may limit.
Fits(cost) ==
    \A limit \in {ask.budget, ask.tokens} \ {NoBudget} : MetadataCost + cost <= limit

\* truncate_elements: elements go from the end until the body is within the limit; with
\* no limit of bytes all of them go.
Truncated(doc) ==
    LET limit == IF ask.budget = NoBudget THEN 0 ELSE ask.budget
        prefix(n) == Restricted(doc, {k \in Keys(doc) :
                         Cardinality({j \in Keys(doc) : doc[j].order < doc[k].order}) < n})
        small == {n \in 0..Cardinality(Keys(doc)) : n = 0 \/ CostOf(prefix(n)) <= limit}
    IN IF limit = 0 THEN prefix(0)
       ELSE prefix(CHOOSE n \in small : \A m \in small : m <= n)

-----------------------------------------------------------------------------
(* build_envelope_with_tokenizer                                               *)

Error == [kind |-> "error"]
Marked(kind, coverage, truncated, resync) ==
    [kind |-> kind, coverage |-> coverage, truncated |-> truncated, resync |-> resync]
Elements(doc, coverage, less) ==
    [kind |-> "elements", coverage |-> coverage, truncated |-> less, resync |-> less, doc |-> doc]

\* resync_output, or the error of a request that does not allow it.
Resync ==
    IF ask.allowResync /\ Fits(1) THEN Marked("resync", "partial", FALSE, TRUE) ELSE Error

MetadataOnly == IF Fits(0) THEN Marked("metadata", ask.coverage, FALSE, FALSE) ELSE Error

FocusRequested == ask.focus # Root

\* Only a coherent snapshot that is not truncated may be given out; a truncated one never
\* claims to be complete.
BodySafe == ask.coherent /\ ~ask.truncated
Complete == BodySafe /\ ask.coverage = "complete"

\* base_resync_reason: the base is a complete full snapshot of the same generation, older
\* by no more than the chain allows.
BaseUsable ==
    /\ ask.base.complete /\ ask.base.sameGeneration
    /\ BodySafe /\ ask.version > ask.base.version
    /\ ask.version - ask.base.version <= MaxChainDepth

\* Mutant: the base is recognised by its version only.
BaseMatchesByVersion == ask.base.sameGeneration /\ ask.base.version < ask.version

\* base_matches: the hash the base declares is that of its redacted elements.
BaseMatches ==
    /\ ask.base.doc = Redacted(ask.base.doc)
    /\ ask.base.sameGeneration /\ ask.base.version < ask.version

Document == Redacted(ask.doc)

TheDelta ==
    [operations |-> Operations(Redacted(ask.base.doc), Document), depth |-> 1,
     baseVersion |-> ask.base.version, resultVersion |-> ask.version]

DeltaAvailable == ask.base.present /\ BaseMatches /\ DeltaValid(TheDelta)

\* The elements that the request is about.
Wanted == IF FocusRequested THEN Restricted(Document, FocusKeys(Document, ask.focus)) ELSE Document

\* select_body: full and compact bodies need a safe snapshot, and a complete one when the
\* request insists; a delta always does.  "auto" takes the cheapest, at equal cost a delta
\* before a compact body before a full one.
Representations ==
    IF BodySafe /\ (Complete \/ ~ask.insist)
    THEN {"full", "compact"} \cup (IF Complete /\ DeltaAvailable THEN {"delta"} ELSE {})
    ELSE {}

Rank(r) == CASE r = "delta" -> 0 [] r = "compact" -> 1 [] OTHER -> 2
CostFor(r) ==
    CASE r = "delta" -> DeltaCost(TheDelta.operations)
      [] r = "compact" -> CostOf(Compacted(Wanted))
      [] OTHER -> CostOf(Wanted)

Selected ==
    IF ask.mode # "auto"
    THEN {r \in Representations : r = (IF ask.mode = "focus" THEN "full" ELSE ask.mode)}
    ELSE {r \in Representations : \A s \in Representations :
             \/ CostFor(r) < CostFor(s)
             \/ CostFor(r) = CostFor(s) /\ Rank(r) <= Rank(s)}

\* Mutant: a body that was cut down to nothing is not marked.
ElementsUnmarked(doc) ==
    LET cut == ~Fits(CostOf(doc))
        body == IF cut THEN Truncated(doc) ELSE doc
        less == Cardinality(Keys(body)) < Cardinality(Keys(doc)) /\ Keys(body) # {}
    IN IF Fits(CostOf(body))
       THEN Elements(body, IF less THEN "partial" ELSE ask.coverage, less)
       ELSE Resync

\* An elements body that does not fit is cut; if it still does not, there is none.
ElementsAnswer(doc) ==
    LET cut == ~Fits(CostOf(doc))
        body == IF cut THEN Truncated(doc) ELSE doc
        less == Cardinality(Keys(body)) < Cardinality(Keys(doc))
    IN IF Fits(CostOf(body))
       THEN Elements(body, IF less THEN "partial" ELSE ask.coverage, less)
       ELSE Resync

DeltaAnswer ==
    IF Fits(DeltaCost(TheDelta.operations))
    THEN [kind |-> "delta", coverage |-> "complete", truncated |-> FALSE, resync |-> FALSE,
          operations |-> TheDelta.operations]
    ELSE Resync

\* The body that was selected.
BodyAnswer ==
    IF Selected = {"delta"} THEN DeltaAnswer
    ELSE IF Selected = {"compact"} THEN ElementsAnswer(Compacted(Wanted))
    ELSE ElementsAnswer(Wanted)

\* The order of the checks is that of the code.
Answer ==
    LET unfocusable == FocusRequested /\ ~Focusable(Document, ask.focus) IN
    IF \/ ask.mode = "focus" /\ ~FocusRequested
       \/ FocusRequested /\ ~Complete
    THEN Error
    ELSE IF ask.cached /\ ask.mode # "delta" THEN IF unfocusable THEN Error ELSE MetadataOnly
    ELSE IF ask.mode = "delta" /\ (~ask.base.present \/ ~BaseUsable) THEN Resync
    ELSE IF unfocusable THEN Error
    ELSE IF ask.mode = "delta" /\ ~DeltaAvailable THEN Resync
    ELSE IF Selected = {} THEN Resync
    ELSE BodyAnswer

NoAnswer == [kind |-> "none"]
ContextInit(input) == ask = input /\ answer = NoAnswer
ContextNext == answer = NoAnswer /\ answer' = Answer /\ UNCHANGED ask

\* Any input at all.
ContextSpec == ContextInit(ask) /\ [][ContextNext]_contextVars

-----------------------------------------------------------------------------
\* Whoever applies a delta that was answered to the base it named, as it sent it, gets the
\* document that a full answer would have given.
DeltaReproduces ==
    answer.kind = "delta" => Applied(answer.operations, ask.base.doc) = Document

\* An answer with elements has all the elements that the request is about, or says that it
\* is partial, truncated and to be read again; and it claims to be complete only if the
\* snapshot is.
OmissionsMarked ==
    answer.kind = "elements" =>
        /\ Keys(answer.doc) = Keys(Wanted) \/ (answer.coverage = "partial" /\ answer.truncated /\ answer.resync)
        /\ answer.coverage = "complete" => Complete
=============================================================================
