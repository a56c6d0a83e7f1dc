---------------------------- MODULE MemoryWorld ----------------------------
(***************************************************************************)
(* The in-memory authority (infrastructure/memory/repositories.py): graph  *)
(* revisions, heads, sources and history in dictionaries that threads      *)
(* share, and the units of work over them - adoption, initialization,      *)
(* repair, finalized publication, withdrawal - which write one dictionary  *)
(* after the other under locks and undo their writes by hand when one of   *)
(* them fails.                                                             *)
(*                                                                         *)
(* Simplifications:                                                        *)
(*  - A revision id is the record it is hashed from.  What a review or a   *)
(*    withdrawal makes of a graph is given (Edited): GraphEdits and        *)
(*    WorldGraph model it, and the admission policies.                     *)
(*  - A row stands for an artifact, a revision of it, an admission         *)
(*    receipt, a contribution or a decision.  The source writes of a unit  *)
(*    are one step, and so are its history writes, the two assignments of  *)
(*    a publication and those of a receipt.                                *)
(*  - A call under one lock which can change nothing before it fails is    *)
(*    one step, and no step at all when it is refused.                     *)
(*  - The undo of a unit is one step, though it removes revisions before   *)
(*    it puts the head back.  It keeps the lock of its world to its end;   *)
(*    what the calls that take no such lock (get_head, get_revision, reads *)
(*    of sources) may see between its writes is left out: a head whose     *)
(*    revision is gone, or rows that are about to be put back.             *)
(***************************************************************************)
EXTENDS GraphStores, Naturals, Sequences, FiniteSets

CONSTANTS
    Threads,        \* threads that run units of work
    Standing,       \* adoption receipts that may stand before, maybe with reviews
    Requests,       \* units of work that threads ask for
    Puts,           \* sets of rows stored by one call
    Cited,          \* source revision -> its artifact
    Reviews,        \* review id -> [world, form]
    Raw,            \* <<operation, graph>> published without a review
    Edited,         \* <<review or withdrawal id, graph>> -> graph, or None
    MaxCalls,       \* bounds the calls of a behaviour
    MaxFailures     \* bounds the units that fail where they need not

Sources == {"artifact", "source revision"}
History == {"contribution", "decision"}
Beginnings == {"adoption", "initialization"}
Indexes == {"review", "operation", "revision"}
Locks == Worlds \cup {"sources", "contributions", "identity", "withdrawals"}

(* A row of a bundle, sealed with the world that it is for.                *)
IsRow(x, w) ==
    /\ x = [family |-> x.family, id |-> x.id, world |-> w, as |-> x.as]
    /\ x.family \in Sources \cup History

Starting == {q \in Requests : q.op \in Beginnings}

Ids == {q.id : q \in Starting} \cup {s.id : s \in Standing}

(* The worlds that adoptions and initializations are for.                  *)
Owners == {<<q.op, q.id, q.world>> : q \in Starting} \cup
          {<<s.kind, s.id, s.world>> : s \in Standing}

GraphRevision(w, parent, op, graph) ==
    [world |-> w, parent |-> parent, op |-> op, graph |-> graph]

Receipts ==
    [kind : Beginnings, world : Worlds, id : Ids, rows : {o.rows : o \in Starting \cup Standing},
     form : {"v2", "v3", "v4"},
     targets : {{}} \cup {q.targets : q \in {q \in Requests : q.op = "repair"}}
                    \cup {s.targets : s \in Standing},
     revision : {GraphRevision(q.world, None, q.id, q.graph) : q \in Starting}
                    \cup {s.revision : s \in Standing}]

(* A receipt as it may stand in a world.                                   *)
IsReceipt(s, kind, w) ==
    /\ s \in Receipts /\ s.kind = kind /\ <<kind, s.id, w>> \in Owners
    /\ s.world = w /\ s.revision = GraphRevision(w, None, s.id, s.revision.graph)
    /\ \A x \in s.rows : IsRow(x, w)

(* The rows of an adoption and of an initialization are of their world.    *)
ASSUME MemoryAssumption ==
    /\ \A q \in Requests :
          /\ q.op \in Beginnings \cup {"repair", "publish", "withdraw"}
          /\ q.world \in Worlds
          /\ q.op \in Beginnings => \A x \in q.rows : IsRow(x, q.world)
          /\ q.op = "publish" => q.id \in DOMAIN Reviews /\ Reviews[q.id].world = q.world
    /\ \A r \in DOMAIN Reviews :
          Reviews[r].world \in Worlds /\ Reviews[r].form \in {"plain", "typed", "guarded"}
    /\ \A s \in Standing :
          s.kind \in Beginnings /\ s.world \in Worlds /\ IsReceipt(s, s.kind, s.world)
    /\ Worlds \cap (Ids \cup {"sources", "contributions", "identity", "withdrawals"}) = {}
    /\ MaxCalls \in Nat /\ MaxFailures \in Nat
    /\ None \notin Threads \cup Receipts

VARIABLES
    rows,           \* the source, contribution and decision dictionaries
    graphs, heads,  \* the revisions stored for each world, and its head
    reviews,        \* finalized reviews: the parent each was made over, or None
    records,        \* the three dictionaries of finalized publications
    receipts,       \* by <<kind, world>> and by <<kind, id>>, or None
    withdrawals,    \* withdrawal receipts
    lost,           \* history: what failed withdrawals took of other worlds
    held,           \* the thread in each lock, or None
    doing, unit,    \* how far a thread is with its unit, which it is
    wants,          \* locks that the thread of a unit has still to take
    undo,           \* what the unit saved before its first write
    calls, failures

store == <<rows, graphs, heads, reviews, records, receipts, withdrawals, lost>>
units == <<held, doing, unit, wants, undo, failures>>
memoryVars == <<store, units, calls>>

-----------------------------------------------------------------------------
(* Rows and receipts.                                                      *)

RowsOf(w, families) == {x \in rows : x.world = w /\ x.family \in families}

(* Source ids are global, those of the history belong to a world.          *)
SameKey(x, y) ==
    x.family = y.family /\ x.id = y.id /\ (x.family \in History => x.world = y.world)

(* The id is stored with another content.                                  *)
Conflicts(new) == \E x \in rows, y \in new : SameKey(x, y) /\ x # y

Receipt(kind, w, id, bundle, graph) ==
    [kind |-> kind, world |-> w, id |-> id, rows |-> bundle, form |-> "v2", targets |-> {},
     revision |-> GraphRevision(w, None, id, graph)]

Repaired(receipt, x) ==
    IF x.family = "artifact" /\ x.id \in receipt.targets THEN [x EXCEPT !.as = "repaired"] ELSE x

Effective(receipt) == {Repaired(receipt, x) : x \in receipt.rows}

Reconstructs(receipt) == receipt.revision \in graphs

Stood == {s \in Standing : receipts[<<s.kind, s.world>>] = s}

MemoryInit ==
    /\ receipts \in {[k \in Beginnings \X (Worlds \cup Ids) |->
                        IF \E s \in began : k[1] = s.kind /\ k[2] \in {s.world, s.id}
                        THEN CHOOSE s \in began : k[1] = s.kind /\ k[2] \in {s.world, s.id}
                        ELSE None] :
                     began \in {S \in SUBSET Standing : \A s, t \in S : s.world = t.world => s = t}}
    /\ rows = UNION {Effective(s) : s \in Stood}
    /\ graphs = {s.revision : s \in Stood}
    /\ heads = [w \in Worlds |-> IF \E s \in Stood : s.world = w
                                 THEN (CHOOSE s \in Stood : s.world = w).revision ELSE None]
    /\ reviews \in [DOMAIN Reviews -> {heads[w] : w \in Worlds} \cup {None}]
    /\ \A r \in DOMAIN Reviews : reviews[r] \in {heads[Reviews[r].world], None}
    /\ records = [i \in Indexes |-> {}]
    /\ withdrawals = {} /\ lost = {}
    /\ held = [l \in Locks |-> None]
    /\ doing = [c \in Threads |-> "idle"]
    /\ unit = [c \in Threads |-> None]
    /\ wants = [c \in Threads |-> <<>>]
    /\ undo = [c \in Threads |-> None]
    /\ calls = 0 /\ failures = 0

Called == calls < MaxCalls /\ calls' = calls + 1

-----------------------------------------------------------------------------
(* Calls under one lock.                                                   *)

(* put_artifact and put_revision.                                          *)
PutSource ==
    \E new \in Puts :
        /\ \A x \in new : x.family \in Sources
        /\ held["sources"] = None /\ Called
        /\ ~Conflicts(new)
        /\ rows' = rows \cup new
        /\ UNCHANGED <<graphs, heads, reviews, records, receipts, withdrawals, lost, units>>

(* admit_source_revision: the artifact, its revision and the receipt are   *)
(* stored together; the head the command expects is not looked at.         *)
AdmitSource ==
    \E new \in Puts :
        /\ \E x \in new : x.family = "admission"
        /\ held["sources"] = None /\ Called
        /\ ~Conflicts(new)
        /\ rows' = rows \cup new
        /\ UNCHANGED <<graphs, heads, reviews, records, receipts, withdrawals, lost, units>>

AppendContribution ==
    \E new \in Puts :
        /\ \A x \in new : x.family = "contribution"
        /\ held["contributions"] = None /\ Called
        /\ ~Conflicts(new)
        /\ rows' = rows \cup new
        /\ UNCHANGED <<graphs, heads, reviews, records, receipts, withdrawals, lost, units>>

AppendDecision ==
    \E new \in Puts :
        /\ \A x \in new : x.family = "decision"
        /\ held["identity"] = None /\ Called
        /\ ~Conflicts(new)
        /\ rows' = rows \cup new
        /\ UNCHANGED <<graphs, heads, reviews, records, receipts, withdrawals, lost, units>>

(* A review is made over the head its reviewer saw.                        *)
FinalizeReview ==
    \E r \in DOMAIN Reviews :
        /\ reviews[r] = None /\ heads[Reviews[r].world] # None
        /\ held["contributions"] = None /\ Called
        /\ reviews' = [reviews EXCEPT ![r] = heads[Reviews[r].world]]
        /\ UNCHANGED <<rows, graphs, heads, records, receipts, withdrawals, lost, units>>

(* Mutant: the parent of a publication is not compared with the head.      *)
PublishedAnyway(child) ==
    /\ graphs' = graphs \cup {child}
    /\ heads' = [heads EXCEPT ![child.world] = child]

(* Compare and swap; a stored revision is published again.                 *)
Published(child) ==
    /\ heads[child.world] = child.parent
    /\ graphs' = graphs \cup {child}
    /\ heads' = [heads EXCEPT ![child.world] = child]

PublishRaw ==
    \E w \in Worlds, x \in Raw :
        /\ held[w] = None /\ Called
        /\ Published(GraphRevision(w, heads[w], x[1], x[2]))
        /\ UNCHANGED <<rows, reviews, records, receipts, withdrawals, lost, units>>

RollbackHead ==
    \E r \in graphs :
        /\ held[r.world] = None /\ Called
        /\ heads' = [heads EXCEPT ![r.world] = r]
        /\ UNCHANGED <<rows, graphs, reviews, records, receipts, withdrawals, lost, units>>

(* The membership is proved and the form swapped under all four locks.     *)
PromoteReceipt ==
    \E w \in Worlds :
        LET receipt == receipts[<<"adoption", w>>]
            promoted == [receipt EXCEPT !.form = "v3"]
        IN  /\ {l \in {w, "sources", "contributions", "identity"} : held[l] # None} = {}
            /\ Called
            /\ receipt # None
            /\ receipt.form = "v2" /\ Reconstructs(receipt)
            /\ RowsOf(w, Sources \cup History) = receipt.rows
            /\ receipts' = [receipts EXCEPT ![<<"adoption", w>>] = promoted,
                                            ![<<"adoption", receipt.id>>] = promoted]
            /\ UNCHANGED <<rows, graphs, heads, reviews, records, withdrawals, lost, units>>

-----------------------------------------------------------------------------
(* Units of work: their locks, taken one after the other.                  *)

LocksOf(q) ==
    CASE q.op \in Beginnings -> <<q.world>>
      [] q.op = "repair" -> <<q.world, "sources", "contributions", "identity">>
      [] q.op = "withdraw" -> <<"withdrawals", q.world>>
      [] q.op = "publish" /\ Reviews[q.id].form = "guarded" -> <<q.world, "sources", "identity">>
      [] q.op = "publish" /\ Reviews[q.id].form = "typed" -> <<q.world, "sources">>
      [] OTHER -> <<q.world>>

(* The parent of a publication is the one of its review, the parent of a   *)
(* withdrawal the head that its thread saw.                                *)
Call(c) ==
    \E q \in Requests :
        LET w == q.world
            parent == CASE q.op = "publish" -> reviews[q.id]
                        [] q.op = "withdraw" -> heads[w]
                        [] OTHER -> None
            graph == IF q.op \in {"publish", "withdraw"} /\ parent # None
                     THEN Edited[<<q.id, parent.graph>>] ELSE q.graph
        IN  /\ doing[c] = "idle" /\ Called
            /\ q.op \in {"publish", "withdraw"} => parent # None /\ graph # None
            /\ doing' = [doing EXCEPT ![c] = "locking"]
            /\ unit' = [unit EXCEPT ![c] =
                  [request |-> q, child |-> GraphRevision(w, parent, q.id, graph)]]
            /\ wants' = [wants EXCEPT ![c] = LocksOf(q)]
            /\ UNCHANGED <<store, held, undo, failures>>

Take(c) ==
    /\ wants[c] # <<>>
    /\ held[Head(wants[c])] = None
    /\ held' = [held EXCEPT ![Head(wants[c])] = c]
    /\ wants' = [wants EXCEPT ![c] = Tail(@)]
    /\ doing' = [doing EXCEPT ![c] = IF Len(wants[c]) = 1 THEN "deciding" ELSE @]
    /\ UNCHANGED <<store, unit, undo, calls, failures>>

Leave(c) ==
    /\ held' = [l \in Locks |-> IF held[l] = c THEN None ELSE held[l]]
    /\ doing' = [doing EXCEPT ![c] = "idle"]
    /\ unit' = [unit EXCEPT ![c] = None]
    /\ undo' = [undo EXCEPT ![c] = None]
    /\ UNCHANGED <<wants, calls>>

(* A refusal, or the answer to a replay.                                   *)
RefuseUnit(c) == Leave(c) /\ UNCHANGED <<store, failures>>

To(c, stage) ==
    /\ doing' = [doing EXCEPT ![c] = stage]
    /\ UNCHANGED <<held, unit, wants, undo, calls, failures>>

(* The first write is next; what it will overwrite is saved.               *)
Proceed(c, stage, saved) ==
    /\ doing' = [doing EXCEPT ![c] = stage]
    /\ undo' = [undo EXCEPT ![c] = saved]
    /\ UNCHANGED <<store, held, unit, wants, calls, failures>>

-----------------------------------------------------------------------------
(* What a unit decides under its locks.                                    *)

Unused(w) ==
    /\ heads[w] = None
    /\ \A r \in graphs : r.world # w
    /\ RowsOf(w, {"artifact"} \cup History) = {}

PristineForAdoption(w) == receipts[<<"initialization", w>>] = None /\ Unused(w)

PristineForInitialization(w) ==
    (\A k \in Beginnings : receipts[<<k, w>>] = None) /\ Unused(w)

SnapshotForAdoption(w) ==
    [rows |-> RowsOf(w, Sources \cup History), head |-> heads[w],
     revisions |-> {r \in graphs : r.world = w}, receipt |-> receipts[<<"adoption", w>>]]

(* The decisions of the world are not saved.                               *)
SnapshotForInitialization(w) ==
    [rows |-> RowsOf(w, Sources \cup {"contribution"}), head |-> heads[w],
     revisions |-> {r \in graphs : r.world = w},
     receipt |-> receipts[<<"initialization", w>>]]

DecideAdoption(c) ==
    LET q == unit[c].request IN
    /\ doing[c] = "deciding"
    /\ q.op = "adoption"
    /\ IF /\ receipts[<<"adoption", q.world>>] = None
          /\ receipts[<<"adoption", q.id>>] = None
          /\ PristineForAdoption(q.world)
       THEN Proceed(c, "sources", SnapshotForAdoption(q.world))
       ELSE RefuseUnit(c)

DecideInitialization(c) ==
    LET q == unit[c].request IN
    /\ doing[c] = "deciding"
    /\ q.op = "initialization"
    /\ IF /\ receipts[<<"initialization", q.world>>] = None
          /\ receipts[<<"initialization", q.id>>] = None
          /\ PristineForInitialization(q.world)
       THEN Proceed(c, "sources", SnapshotForInitialization(q.world))
       ELSE RefuseUnit(c)

(* The rows of the receipt are stored as they were sealed.                 *)
DecideRepair(c) ==
    LET q == unit[c].request
        receipt == receipts[<<"adoption", q.world>>]
    IN  /\ doing[c] = "deciding"
        /\ q.op = "repair"
        /\ IF /\ receipt # None /\ receipt.form = "v3"
              /\ Reconstructs(receipt)
              /\ receipt.rows \subseteq rows
              /\ ~q.dryRun
           THEN Proceed(c, "sources", SnapshotForAdoption(q.world))
           ELSE RefuseUnit(c)

RecordOf(c) == [review |-> unit[c].request.id, revision |-> unit[c].child]

(* A publication on record is answered.  A revision published without its  *)
(* review is recorded as it stands, wherever the head is by now.           *)
DecidePublication(c) ==
    LET child == unit[c].child
        known == {p \in UNION {records[i] : i \in Indexes} : p.review = unit[c].request.id}
    IN  /\ doing[c] = "deciding"
        /\ unit[c].request.op = "publish"
        /\ \/ child.parent \notin graphs /\ RefuseUnit(c)
           \/ child.parent \in graphs /\ known # {} /\ RefuseUnit(c)
           \/ /\ child.parent \in graphs /\ known = {} /\ child \in graphs
              /\ records' = [i \in Indexes |-> records[i] \cup {RecordOf(c)}]
              /\ Leave(c)
              /\ UNCHANGED <<rows, graphs, heads, reviews, receipts, withdrawals, lost, failures>>
           \/ /\ child.parent \in graphs /\ known = {} /\ child \notin graphs
              /\ Proceed(c, "graph", [head |-> heads[child.world], records |-> records])

(* The operation id is claimed over all worlds, under a lock of its own.   *)
DecideWithdrawal(c) ==
    LET q == unit[c].request
        receipt == receipts[<<"adoption", q.adoption>>]
    IN  /\ doing[c] = "deciding"
        /\ q.op = "withdraw"
        /\ IF /\ \A x \in withdrawals : x.id # q.id
              /\ receipt # None /\ receipt.form = "v4" /\ receipt.world = q.world
              /\ Reconstructs(receipt)
              /\ heads[q.world] = unit[c].child.parent
              /\ heads[q.world] \in graphs
              /\ \E x \in RowsOf(q.world, {"artifact"}) : x.id = q.source
              /\ \E x \in rows : x.family = "source revision" /\ x.id = q.revision
              /\ Cited[q.revision] = q.source
           THEN Proceed(c, "graph", [head |-> heads[q.world], revisions |-> graphs])
           ELSE RefuseUnit(c)

-----------------------------------------------------------------------------
(* The writes of a unit.                                                   *)

Written(q, families) == {x \in q.rows : x.family \in families}

WriteSources(c) ==
    LET new == Written(unit[c].request, Sources) IN
    /\ doing[c] = "sources"
    /\ unit[c].request.op \in Beginnings
    /\ ~Conflicts(new)
    /\ rows' = rows \cup new
    /\ To(c, "history")
    /\ UNCHANGED <<graphs, heads, reviews, records, receipts, withdrawals, lost>>

(* The artifacts a repair corrects are overwritten.                        *)
RepairArtifacts(c) ==
    LET q == unit[c].request
        receipt == [receipts[<<"adoption", q.world>>] EXCEPT !.targets = q.targets]
    IN  /\ doing[c] = "sources"
        /\ q.op = "repair"
        /\ rows' = (rows \ receipt.rows) \cup Effective(receipt)
        /\ To(c, "receipt")
        /\ UNCHANGED <<graphs, heads, reviews, records, receipts, withdrawals, lost>>

WriteHistory(c) ==
    LET new == Written(unit[c].request, History) IN
    /\ doing[c] = "history"
    /\ ~Conflicts(new)
    /\ rows' = rows \cup new
    /\ To(c, "graph")
    /\ UNCHANGED <<graphs, heads, reviews, records, receipts, withdrawals, lost>>

PublishChild(c) ==
    /\ Published(unit[c].child)
    /\ To(c, "receipt")
    /\ UNCHANGED <<rows, reviews, records, receipts, withdrawals, lost>>

PublishFirst(c) == doing[c] = "graph" /\ unit[c].request.op \in Beginnings /\ PublishChild(c)

PublishReviewed(c) == doing[c] = "graph" /\ unit[c].request.op = "publish" /\ PublishChild(c)

PublishWithdrawn(c) == doing[c] = "graph" /\ unit[c].request.op = "withdraw" /\ PublishChild(c)

(* A receipt goes into the dictionaries by world and by id.                *)
StoreReceipt(c, receipt) ==
    /\ receipts' = [receipts EXCEPT ![<<receipt.kind, receipt.world>>] = receipt,
                                    ![<<receipt.kind, receipt.id>>] = receipt]
    /\ To(c, "ending")
    /\ UNCHANGED <<rows, graphs, heads, reviews, records, withdrawals, lost>>

AdoptionReceipt(c) ==
    LET q == unit[c].request IN
    /\ doing[c] = "receipt" /\ q.op = "adoption"
    /\ StoreReceipt(c, Receipt("adoption", q.world, q.id, q.rows, q.graph))

InitializationReceipt(c) ==
    LET q == unit[c].request IN
    /\ doing[c] = "receipt" /\ q.op = "initialization"
    /\ StoreReceipt(c, Receipt("initialization", q.world, q.id, q.rows, q.graph))

RepairReceipt(c) ==
    LET q == unit[c].request IN
    /\ doing[c] = "receipt" /\ q.op = "repair"
    /\ StoreReceipt(c, [receipts[<<"adoption", q.world>>] EXCEPT !.form = "v4",
                                                                !.targets = q.targets])

(* The record of a finalized publication goes into all three dictionaries. *)
RecordPublication(c) ==
    /\ doing[c] = "receipt"
    /\ unit[c].request.op = "publish"
    /\ records' = [i \in Indexes |-> records[i] \cup {RecordOf(c)}]
    /\ To(c, "ending")
    /\ UNCHANGED <<rows, graphs, heads, reviews, receipts, withdrawals, lost>>

WithdrawalReceipt(c) ==
    LET q == unit[c].request IN
    /\ doing[c] = "receipt"
    /\ q.op = "withdraw"
    /\ withdrawals' = withdrawals \cup
          {[world |-> q.world, id |-> q.id, revision |-> unit[c].child]}
    /\ To(c, "ending")
    /\ UNCHANGED <<rows, graphs, heads, reviews, records, receipts, lost>>

(* What the unit wrote can be read back: the revision is stored.           *)
ReadsBack(c) ==
    LET q == unit[c].request IN
    CASE q.op = "withdraw" -> TRUE
      [] q.op = "repair" -> Reconstructs(receipts[<<"adoption", q.world>>])
      [] OTHER -> unit[c].child \in graphs

EndUnit(c) ==
    /\ doing[c] = "ending"
    /\ ReadsBack(c)
    /\ Leave(c)
    /\ UNCHANGED <<store, failures>>

-----------------------------------------------------------------------------
(* A unit that fails undoes its writes and raises.                         *)

Bound(c) ==
    \/ /\ doing[c] = "sources" /\ unit[c].request.op \in Beginnings
       /\ Conflicts(Written(unit[c].request, Sources))
    \/ doing[c] = "history" /\ Conflicts(Written(unit[c].request, History))
    \/ doing[c] = "graph" /\ heads[unit[c].child.world] # unit[c].child.parent
    \/ doing[c] = "ending" /\ ~ReadsBack(c)

Fails(c) ==
    /\ doing[c] \in {"sources", "history", "graph", "receipt", "ending"}
    /\ Bound(c) \/ failures < MaxFailures
    /\ failures' = failures + IF Bound(c) THEN 0 ELSE 1

(* All rows of the world, the concurrent ones among them, give way to the  *)
(* ones of the snapshot.                                                   *)
Restore(c, kind, families) ==
    LET w == unit[c].request.world
        saved == undo[c]
        now == receipts[<<kind, w>>]
    IN  /\ Fails(c)
        /\ rows' = (rows \ RowsOf(w, families)) \cup saved.rows
        /\ graphs' = {r \in graphs : r.world # w} \cup saved.revisions
        /\ heads' = [heads EXCEPT ![w] = saved.head]
        /\ receipts' = [k \in DOMAIN receipts |->
              IF k = <<kind, w>> \/ (now # None /\ k = <<kind, now.id>>)
              THEN saved.receipt ELSE receipts[k]]
        /\ Leave(c)
        /\ UNCHANGED <<reviews, records, withdrawals, lost>>

RestoreAdoption(c) ==
    /\ unit[c] # None /\ unit[c].request.op \in {"adoption", "repair"}
    /\ Restore(c, "adoption", Sources \cup History)

RestoreInitialization(c) ==
    /\ unit[c] # None /\ unit[c].request.op = "initialization"
    /\ Restore(c, "initialization", Sources \cup {"contribution"})

(* Mutant: the head stays where the failed publication moved it.           *)
UndoPublicationKeepingHead(c) ==
    /\ Fails(c)
    /\ unit[c].request.op = "publish"
    /\ graphs' = graphs \ {unit[c].child}
    /\ records' = undo[c].records
    /\ Leave(c)
    /\ UNCHANGED <<rows, heads, reviews, receipts, withdrawals, lost>>

UndoPublication(c) ==
    LET kept == undo[c].records
        mine == RecordOf(c)
    IN  /\ Fails(c)
        /\ unit[c].request.op = "publish"
        /\ graphs' = graphs \ {unit[c].child}
        /\ heads' = [heads EXCEPT ![unit[c].child.world] = undo[c].head]
        /\ records' = [i \in Indexes |->
              (records[i] \ {mine}) \cup (kept[i] \cap {mine})]
        /\ Leave(c)
        /\ UNCHANGED <<rows, reviews, receipts, withdrawals, lost>>

(* A unit's publication counts when the unit ends: until then it may still *)
(* be undone, but for a revision that was stored before.                   *)
Publishing(w) == {c \in Threads : /\ held[w] = c
                                  /\ doing[c] \in {"receipt", "ending"}
                                  /\ unit[c].request.op # "repair"}

Unsettled(r) ==
    \E c \in Publishing(r.world) :
        /\ r = unit[c].child
        /\ unit[c].request.op = "withdraw" => r \notin undo[c].revisions

(* Every revision stored since, of any world, is removed.                  *)
UndoWithdrawal(c) ==
    LET w == unit[c].request.world
        removed == graphs \ undo[c].revisions
    IN  /\ Fails(c)
        /\ unit[c].request.op = "withdraw"
        /\ graphs' = graphs \ removed
        /\ lost' = lost \cup {r \in removed : r.world # w /\ ~Unsettled(r)}
        /\ heads' = [heads EXCEPT ![w] = undo[c].head]
        /\ withdrawals' = {x \in withdrawals : ~(x.world = w /\ x.id = unit[c].request.id)}
        /\ Leave(c)
        /\ UNCHANGED <<rows, reviews, records, receipts>>

-----------------------------------------------------------------------------
Unit(c) ==
    \/ Call(c) \/ Take(c)
    \/ DecideAdoption(c) \/ DecideInitialization(c) \/ DecideRepair(c)
    \/ DecidePublication(c) \/ DecideWithdrawal(c)
    \/ WriteSources(c) \/ RepairArtifacts(c) \/ WriteHistory(c)
    \/ PublishFirst(c) \/ PublishReviewed(c) \/ PublishWithdrawn(c)
    \/ AdoptionReceipt(c) \/ InitializationReceipt(c) \/ RepairReceipt(c)
    \/ RecordPublication(c) \/ WithdrawalReceipt(c) \/ EndUnit(c)
    \/ RestoreAdoption(c) \/ RestoreInitialization(c)
    \/ UndoPublication(c) \/ UndoWithdrawal(c)

MemoryNext ==
    \/ PutSource \/ AdmitSource \/ AppendContribution \/ AppendDecision
    \/ FinalizeReview \/ PublishRaw \/ RollbackHead \/ PromoteReceipt
    \/ \E c \in Threads : Unit(c)

MemorySpec == MemoryInit /\ [][MemoryNext]_memoryVars

-----------------------------------------------------------------------------
(* Whoever takes the lock of a world finds it whole: its head, the parents *)
(* of its revisions and the revisions that receipts and records name are   *)
(* stored, but for those that a failed withdrawal of another world took    *)
(* along; the dictionaries that index one thing agree - a receipt is found *)
(* by its id, unless units of two worlds carry that id -, the rows of      *)
(* the receipt are there as it has them, and the world began once.         *)
OfOneWorld(kind, id) ==
    \A o, p \in Owners : o[1] = kind /\ o[2] = id /\ p[1] = kind /\ p[2] = id => o[3] = p[3]

KnownRevisions == graphs \cup lost

StoreCoherent ==
    \A w \in Worlds : held[w] = None =>
        /\ heads[w] # None => heads[w] \in KnownRevisions
        /\ \A r \in KnownRevisions : r.world = w /\ r.parent # None => r.parent \in KnownRevisions
        /\ \A i \in Indexes : \A p \in records[i] : p.revision.world = w =>
              p.revision \in KnownRevisions /\ \A j \in Indexes : p \in records[j]
        /\ \A x \in withdrawals : x.world = w => x.revision \in KnownRevisions
        /\ \A k \in Beginnings : receipts[<<k, w>>] # None =>
              /\ OfOneWorld(k, receipts[<<k, w>>].id) =>
                    receipts[<<k, receipts[<<k, w>>].id>>] = receipts[<<k, w>>]
              /\ receipts[<<k, w>>].revision \in KnownRevisions
              /\ Effective(receipts[<<k, w>>]) \subseteq rows
        /\ Cardinality({k \in Beginnings : receipts[<<k, w>>] # None}) <= 1

(* InMemoryWorldGraphRepository: "Immutable revisions + one head per       *)
(* world": the head of every world names a stored revision.                *)
HeadsResolve == \A w \in Worlds : heads[w] # None => heads[w] \in graphs

(* The state of the worlds as their units have left it, with what failed   *)
(* withdrawals of other worlds took along.                                 *)
SettledHead ==
    [w \in Worlds |-> IF Publishing(w) = {} THEN heads[w]
                      ELSE undo[CHOOSE c \in Publishing(w) : TRUE].head]

SettledRevisions ==
    [w \in Worlds |-> {r \in KnownRevisions : r.world = w /\ (r \in lost \/ ~Unsettled(r))}]

Settled == INSTANCE VersionedHead WITH revision <- SettledRevisions, current <- SettledHead

(* However the units of all worlds interleave, and at whichever write they *)
(* fail, a world's settled head moves only when a unit or a call publishes *)
(* a child of it or rolls it back, and its settled revisions stay: a unit  *)
(* that fails takes back its own revision and head and no other, except    *)
(* that a withdrawal takes along what other worlds published meanwhile.    *)
(* (Rows are not meant: a failed adoption erases those of others.)         *)
FailuresKeepGraphs == [][Settled!Next]_<<SettledRevisions, SettledHead>>
=============================================================================
