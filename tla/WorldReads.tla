----------------------------- MODULE WorldReads -----------------------------
(***************************************************************************)
(* Reads of a world of MemoryWorld: a reader opens a read context          *)
(* (application/world_graph_projection.py, _open_observed) in several      *)
(* calls on the repositories, most of them without a lock, while units of  *)
(* work go on, and then asks Retrieval's questions of it.  What a context  *)
(* answers is a function of what its calls returned, so the properties of  *)
(* answers speak of every question at the moment the context is complete.  *)
(*                                                                         *)
(* Simplifications:                                                        *)
(*  - One reader at a time; a session is a context that is kept open.  The *)
(*    parsed revision cache is keyed by the content of the revision and    *)
(*    has no state of its own here.                                        *)
(*  - The reviewed observations of every context are read, though only     *)
(*    some questions need them; the context can be used before they are.   *)
(***************************************************************************)
EXTENDS MemoryWorld

CONSTANTS
    Readers,        \* [world, mode, campaign, admissibility]
    GraphOf,        \* graph -> its content, as GraphScope reads it
    ArtifactOf,     \* <<artifact, as>> -> its record, but for the world
    ContributionOf, \* review -> its contribution, as Retrieval reads it
    Producers,      \* initializations by the first-world producer
    Questions,      \* what is asked of a context
    PageSizes,
    MaxReads        \* bounds the contexts that are asked for outside a walk

INSTANCE Retrieval

VARIABLES
    rpc,            \* what the reader does next
    ask,            \* who reads, and the pinned revision or None
    view,           \* what its calls have returned
    kept,           \* a walk through a paged listing, or None
    asked           \* contexts asked for outside a walk

reads == <<rpc, ask, view, kept, asked>>
vars == <<memoryVars, reads>>

Unread == [head |-> None, revision |-> None, sources |-> None, genesis |-> {},
           scoped |-> None, memo |-> {}, history |-> <<>>, reviewed |-> None]

Init ==
    /\ MemoryInit
    /\ rpc = "idle" /\ ask = None /\ view = Unread /\ kept = None /\ asked = 0

-----------------------------------------------------------------------------
(* What the repositories return.                                           *)

(* get_provenance_snapshot.                                                *)
SourcesStored ==
    LET Stored(family, id) == {x \in rows : x.family = family /\ x.id = id}
        As(id) == (CHOOSE x \in Stored("artifact", id) : TRUE)
    IN  [artifacts |-> [id \in {p[1] : p \in DOMAIN ArtifactOf} |->
            IF Stored("artifact", id) = {} THEN None
            ELSE ArtifactOf[<<id, As(id).as>>] @@ [world |-> As(id).world]],
         revisions |-> [id \in DOMAIN Cited \cup {None} |->
            IF id = None \/ Stored("source revision", id) = {} THEN None ELSE Cited[id]]]

Read(graph, sources, genesis) ==
    [graph |-> GraphOf[graph], sources |-> sources, reader |-> ask.reader, genesis |-> genesis]

(* genesis_evidence_compatibility_from_d0: the records of the first        *)
(* revision whose domain is the placeholder for that of their artifact.    *)
GenesisRecords(graph, sources) ==
    LET evidence == GraphOf[graph].evidence IN
    {<<e, evidence[e]>> : e \in {d \in DOMAIN evidence :
        /\ evidence[d].domain = "other"
        /\ sources.artifacts[evidence[d].artifact] # None
        /\ sources.artifacts[evidence[d].artifact].domain = "worldbuilding"}}

(* read_verified_ancestry: the revision and its ancestors.                 *)
RECURSIVE Ancestry(_)
Ancestry(revision) ==
    IF revision = None THEN <<>> ELSE <<revision>> \o Ancestry(revision.parent)

Publications(revision) ==
    LET Entry(r) == [revision |-> r,
                     contribution |-> IF \E p \in records["revision"] : p.revision = r
                                      THEN ContributionOf[r.op] ELSE None]
    IN  [i \in 1 .. Len(Ancestry(revision)) |-> Entry(Ancestry(revision)[i])]

-----------------------------------------------------------------------------
(* Opening a context.                                                      *)

(* A request is coherent, and pinned to a revision the client knows of:    *)
(* the head, or the one of the walk it is on.                              *)
Ask ==
    \E reader \in Readers, pinned \in BOOLEAN :
        /\ rpc = "idle" /\ (kept # None \/ asked < MaxReads)
        /\ ScopeCoherent(reader)
        /\ pinned => heads[reader.world] # None
        /\ ask' = [reader |-> reader,
                   pin |-> IF ~pinned THEN None
                           ELSE IF kept = None THEN heads[reader.world] ELSE kept.revision]
        /\ rpc' = "head" /\ asked' = IF kept = None THEN asked + 1 ELSE asked
        /\ UNCHANGED <<memoryVars, view, kept>>

Close ==
    /\ rpc' = "idle"
    /\ ask' = None
    /\ view' = Unread
    /\ UNCHANGED <<memoryVars, kept, asked>>

Got(stage, seen) ==
    /\ rpc' = stage
    /\ view' = seen
    /\ UNCHANGED <<memoryVars, ask, kept, asked>>

GetHead ==
    /\ rpc = "head"
    /\ IF heads[ask.reader.world] = None THEN Close
       ELSE Got("revision", [view EXCEPT !.head = heads[ask.reader.world]])

GetRevision ==
    LET wanted == IF ask.pin = None THEN view.head ELSE ask.pin IN
    /\ rpc = "revision"
    /\ IF wanted \notin graphs THEN Close
       ELSE Got("sources", [view EXCEPT !.revision = wanted])

GetSources ==
    /\ rpc = "sources"
    /\ held["sources"] = None
    /\ Got("genesis", [view EXCEPT !.sources = SourcesStored])

Projected(genesis) ==
    LET read == Read(view.revision.graph, view.sources, genesis)
        scoped == Project(read)
    IN  [view EXCEPT !.genesis = genesis, !.scoped = scoped, !.memo = Remembered(read, scoped)]

(* _genesis_compatibility_for: the receipt is read under the lock of the   *)
(* world, the first revision without it.                                   *)
GetGenesis ==
    LET receipt == receipts[<<"initialization", ask.reader.world>>] IN
    /\ rpc = "genesis"
    /\ held[ask.reader.world] = None
    /\ CASE receipt = None -> Got("history", Projected({}))
         [] receipt # None /\ ~Reconstructs(receipt) -> Close
         [] OTHER ->
            IF receipt.revision = view.revision
            THEN Got("history", Projected(IF receipt.id \in Producers
                     THEN GenesisRecords(view.revision.graph, view.sources) ELSE {}))
            ELSE Got("genesis sources", [view EXCEPT !.genesis = receipt])

GetGenesisSources ==
    LET receipt == view.genesis IN
    /\ rpc = "genesis sources"
    /\ held["sources"] = None
    /\ IF receipt.revision \notin graphs THEN Close
       ELSE Got("history", Projected(IF receipt.id \in Producers
                THEN GenesisRecords(receipt.revision.graph, SourcesStored) ELSE {}))

Context ==
    [read |-> Read(view.revision.graph, view.sources, view.genesis), scoped |-> view.scoped,
     memo |-> view.memo, revision |-> view.revision, history |-> view.history,
     reviewed |-> view.reviewed]

(* The lock of the world is held for the whole ancestry.                   *)
GetHistory ==
    LET history == Publications(view.revision)
        context == [Context EXCEPT !.history = history]
    IN  /\ rpc = "history"
        /\ held[ask.reader.world] = None
        /\ IF \E i \in 1 .. Len(history) : history[i].revision \notin graphs
           THEN Close
           ELSE Got("open", [view EXCEPT !.history = history,
                                         !.reviewed =
                                             ReviewedObservations(context, context.scoped.objects)])

-----------------------------------------------------------------------------
(* The answers of a context.                                               *)

GMOnly(context) == context.read.reader.admissibility = "gm"

(* The anchor that another reader of the revision has for a record, and    *)
(* the one it has for a recap, if the source is stored.                    *)
TokenOf(reader, e, context) == AnchorId([context EXCEPT !.read.reader = reader], e)

ContextResolved(q, context) ==
    IF context.read.sources.artifacts[q.pair[1]] = None THEN Nothing
    ELSE ResolveContext(context, ContextAnchorId(context, q.reader, q.pair, q.selector), q.allowed)

AnswerTo(q, context) ==
    CASE q.op = "search" -> Search(context, q.query, q.seeds, q.bounds)
      [] q.op = "neighborhood" -> Neighborhood(context, q.seeds, q.depth, q.bounds)
      [] q.op = "object" -> LookUp(context, q.object, q.bounds)
      [] q.op = "complete object" -> LookUpComplete(context, q.object)
      [] q.op = "evidence" -> EvidenceFor(context, q.target, q.bounds.anchors)
      [] q.op = "select" -> SelectObservations(context, q.pair, q.ids, q.bounds.assertions)
      [] q.op = "selected index" -> SelectedIndex(context, q.targets, q.bounds.anchors)
      [] q.op = "resolve" -> ResolveAnchor(context, TokenOf(q.reader, q.evidence, context))
      [] q.op = "resolve in session" ->
           ResolveInSession(context, q.pair, TokenOf(q.reader, q.evidence, context))
      [] q.op = "resolve context" /\ GMOnly(context) -> ContextResolved(q, context)
      [] q.op = "anchor index" /\ GMOnly(context) -> AnchorIndex(context, q.bounds.anchors)
      [] q.op = "context index" /\ GMOnly(context) -> ContextIndex(context, q.bounds.anchors)
      [] OTHER -> Nothing

(* discover_reviewed_source_observations, of a pinned context: the first   *)
(* page of a listing, or the next one of the walk; a cursor that is not    *)
(* valid is refused.                                                       *)
Discover ==
    \E pair \in {q.pair : q \in {x \in Questions : x.op = "select"}}, size \in PageSizes :
        LET cursor == IF kept = None THEN None ELSE kept.next
            page == Page(Context, pair, size, cursor)
            before == IF kept = None THEN <<>> ELSE kept.entries
        IN  /\ rpc = "open"
            /\ ask.pin # None
            /\ kept # None => /\ kept.next # None
                              /\ pair = kept.pair /\ size = kept.size
            /\ CursorValid(Context, pair, size, cursor)
            /\ page.entries # <<>>
            /\ kept' = [revision |-> view.revision, pair |-> pair, size |-> size,
                        entries |-> before \o page.entries, next |-> page.next]
            /\ rpc' = "idle" /\ ask' = None /\ view' = Unread
            /\ UNCHANGED <<memoryVars, asked>>

(* The client is done with the walk.                                       *)
Drop ==
    /\ rpc = "idle"
    /\ kept # None
    /\ kept' = None
    /\ UNCHANGED <<memoryVars, rpc, ask, view, asked>>

Finish == rpc = "open" /\ Close

Reading ==
    \/ Ask \/ GetHead \/ GetRevision \/ GetSources \/ GetGenesis \/ GetGenesisSources
    \/ GetHistory \/ Discover \/ Drop \/ Finish

Next == Reading \/ (MemoryNext /\ UNCHANGED reads)

Spec == Init /\ [][Next]_vars

-----------------------------------------------------------------------------
(* What a reader may see, told without the projection.                     *)
MayRead(reader, x) ==
    /\ reader.mode = "cross campaign" \/ x.campaign \in {None, reader.campaign}
    /\ reader.admissibility = "gm" \/ x.visibility = "player"

(* A source is stored, in use and readable.                                *)
Readable(context, id) ==
    LET artifact == context.read.sources.artifacts[id]
        reader == context.read.reader
    IN  /\ artifact # None
        /\ artifact.world = reader.world /\ artifact.status = "active"
        /\ artifact.visibility # "unset" /\ MayRead(reader, artifact)

Sound(context, e) ==
    /\ e \in DOMAIN context.read.graph.evidence
    /\ Readable(context, context.read.graph.evidence[e].artifact)

Entitled(context, a) ==
    /\ MayRead(context.read.reader, a)
    /\ a.evidence # {} /\ \A e \in a.evidence : Sound(context, e)

Telling(context, kind, o) ==
    {a \in context.read.graph.assertions : a.kind = kind /\ a.of = o}

EntitledObject(context, o) == \E a \in Telling(context, "existence", o) : Entitled(context, a)

(* A relationship is told with its ends and the aspects of them it names.  *)
EntitledRow(context, a) ==
    LET ends == IF a.kind = "edge" THEN {1, 2} ELSE {} IN
    /\ Entitled(context, a)
    /\ a.kind # "edge" => EntitledObject(context, a.of)
    /\ \A i \in ends :
          /\ EntitledObject(context, a.ends[i])
          /\ a.aspects[i] # None =>
                \E b \in Telling(context, "aspect", a.ends[i]) :
                    b.id = a.aspects[i] /\ Entitled(context, b)

(* The question names the object by a name the reader may not know.        *)
NamedInSecret(context, o, query) ==
    \E a \in Telling(context, "alias", o) :
        /\ a.text \subseteq query
        /\ ~\E b \in Telling(context, "alias", o) : b.text = a.text /\ Entitled(context, b)

Complete == rpc # "open" /\ rpc' = "open"

EntitledAnswer(q, context, answer) ==
    /\ \A o \in answer.objects : EntitledObject(context, o)
    /\ \A a \in answer.relationships : EntitledRow(context, a)
    /\ \A a \in answer.rows :
          IF q.op \in {"context index", "resolve context"} THEN Readable(context, a[1])
          ELSE EntitledRow(context, a)
    /\ \A a \in answer.observations : Entitled(context, a) /\ EntitledObject(context, a.subject)
    /\ \A x \in answer.anchors : Sound(context, x.id)
    /\ q.op = "search" => \A o \in answer.objects \ q.seeds : ~NamedInSecret(context, o, q.query)
    /\ "reader" \in DOMAIN q /\ answer.found => q.reader = context.read.reader

(* Whatever a question is answered with - objects, their texts, the        *)
(* relationships with both ends, the observations of reviews, the source   *)
(* anchors - the reader is entitled to: by its own scope and audience and  *)
(* by those of every source it rests on, as they were stored when the      *)
(* context was opened; nobody finds an object by asking for a name that is *)
(* withheld, or resolves an anchor that another reader was given           *)
(* (graph_scope.py and world_graph_retrieval.py).                          *)
ServedIsEntitled ==
    [][Complete => \A context \in {Context'}, q \in Questions :
         \A answer \in {AnswerTo(q, context)} : EntitledAnswer(q, context, answer)]_vars

Unbounded == [objects |-> 99, relationships |-> 99, assertions |-> 99, anchors |-> 99]

(* What the reviews of the revision's ancestry observed of an object, as   *)
(* far as the reader is entitled to it.                                    *)
Observed(context, o) ==
    UNION {{a \in context.history[i].contribution.assertions :
               /\ a.kind = "attribute" /\ a.accepted /\ a.subject = o /\ a.shape # "other"
               /\ Entitled(context, a)} :
           i \in {k \in 1 .. Len(context.history) : context.history[k].contribution # None}}

(* What an answer does not tell, it reports.                               *)
Reported(q, context, answer) ==
    LET uncut == answer.cut = {}
        whole == uncut /\ answer.gaps = {}
    IN  /\ "bounds" \in DOMAIN q /\ uncut =>
              answer = AnswerTo([q EXCEPT !.bounds = Unbounded], context)
        /\ whole => \A a \in answer.relationships \cup answer.rows \cup answer.observations :
              a.evidence \subseteq {x.id : x \in answer.anchors}
        /\ "seeds" \in DOMAIN q => q.seeds \subseteq answer.objects \cup answer.missing
        /\ q.op = "complete object" /\ answer.found =>
              /\ uncut => \A a \in answer.relationships :
                    {a.ends[1], a.ends[2]} \subseteq answer.objects
              /\ whole => Observed(context, q.object) \subseteq answer.observations

(* An answer says what it leaves out.  One that says nothing of a cut is   *)
(* the answer without bounds, and has both ends of all relationships of a  *)
(* complete object; when it says nothing of a gap either, all evidence of  *)
(* what it tells has its anchor, and a complete object has all that was    *)
(* observed of it; seeds are told or named as missing (_cap, and the       *)
(* RetrievalCoverage of every operation).                                  *)
NothingLeftOutSilently ==
    [][Complete =>
         \A context \in {Context'},
            q \in {x \in Questions : x.op \in {"search", "neighborhood", "object",
                                               "complete object", "evidence"}} :
            \A answer \in {AnswerTo(q, context)} : Reported(q, context, answer)]_vars

(* The pages of a walk are one listing: whatever is stored or repaired     *)
(* between two pages, the entries handed out so far are the beginning of   *)
(* what the revision's reviews observed of the source, as it stands at the *)
(* last page (discover_reviewed_source_observations and its cursors).      *)
PagesAreOneListing ==
    [][kept' # kept /\ kept' # None =>
         LET listing == Listing(Context, kept'.pair) IN
         /\ kept'.entries = SubSeq(listing, 1, Len(kept'.entries))
         /\ kept'.next = None => kept'.entries = listing]_vars
=============================================================================
