---------------------------- MODULE WorldAdoption ----------------------------
(***************************************************************************)
(* How a world that was not grown by reviews comes to be, and what may     *)
(* still be done to it: the adoption of an existing world from a sealed    *)
(* bundle, the initialization of a reviewed first world, the promotion of  *)
(* an adoption receipt and the repair of adopted sources, the withdrawal   *)
(* of an adopted relationship, the rebind of identities, and the           *)
(* correspondence check that compares a bundle with the adopted world      *)
(* (infrastructure/postgres/existing_world_adoption.py,                    *)
(* reviewed_world_initialization.py, world_identity_reconciliation.py and  *)
(* the application modules of the same names).                             *)
(*                                                                         *)
(* Simplifications:                                                        *)
(*  - A revision is the sequence of operations since its null parent, with *)
(*    its payload; ids and digests are injective.  Revisions are never     *)
(*    deleted and a rollback moves the head to any of them.                *)
(*  - A source row is its id and its classification, "sealed" as the       *)
(*    bundle has it or "repaired"; a bundle stands for its digest.         *)
(*  - The row of a world exists; it is held FOR UPDATE by lock_world, and  *)
(*    FOR KEY SHARE by a transaction that inserted a contribution of the   *)
(*    world, for its foreign key.                                          *)
(*  - PostgreSQL aborts one of two deadlocked transactions: Abort covers   *)
(*    it, with every other failure of a statement or of the server.        *)
(*  - READ COMMITTED; a transaction writes when it commits.                *)
(***************************************************************************)
EXTENDS GraphEdits, SequencesExt

CONSTANTS
    Clients,
    Worlds,
    Standing,       \* the receipt a world may start with: [world, form, bundle]
    Requests,       \* what clients ask for
    MaxCalls,       \* bounds the calls of a behaviour
    None

Kinds == {"adopt", "init", "promote", "repair", "check", "withdraw", "reconcile", "rollback",
          "append", "source"}

Forms == {"v1", "v2", "v3", "v4"}

RequestsOf(kind) == {q \in Requests : q.kind = kind}

Bundles ==
    {q.bundle : q \in {r \in Requests : r.kind \in {"adopt", "promote", "repair"}}}
    \cup {s.bundle : s \in Standing}

Targets == {{}} \cup {q.targets : q \in RequestsOf("repair")}

Parameters ==
    /\ \A q \in Requests : q.kind \in Kinds /\ q.world \in Worlds
    /\ \A s \in Standing : s.world \in Worlds /\ s.form \in Forms \ {"v4"} /\ BundleClosed(s.bundle)
    /\ \A b \in Bundles : IsPayload(b.graph)
    /\ \A q \in RequestsOf("init") : IsFiniteSet(q.assertions)
    /\ MaxCalls \in Nat
    /\ None \notin Clients
    /\ None \notin [bundle : Bundles, form : Forms, targets : Targets]

ASSUME WorldAdoptionAssumption == Parameters

VARIABLES
    sources,        \* source_artifacts and source_revisions of each world
    contributions,  \* graph_contributions
    decisions,      \* identity_decisions
    revisions,      \* graph_revisions
    head,           \* world_graph_heads
    adoption,       \* existing_world_adoptions, or None
    initialization, \* reviewed_world_initializations, or None
    withdrawals,    \* adopted_assertion_withdrawals
    worldLock,      \* transaction that holds the row of a world FOR UPDATE
    tableLock,      \* holder of SHARE ROW EXCLUSIVE on the tables of the history
    pc, call,
    parent,         \* the head a client has read and builds on
    seen,           \* what a correspondence check has read
    calls           \* how many calls were made

history == <<sources, contributions, decisions>>
graph == <<revisions, head>>
receipts == <<adoption, initialization, withdrawals>>
locks == <<worldLock, tableLock>>
vars == <<history, graph, receipts, locks, pc, call, parent, seen, calls>>

-----------------------------------------------------------------------------
(* The rows of a bundle, and what of a world's rows they are.              *)

Sealed(b) == {[id |-> s, as |-> "sealed"] : s \in b.sources}

Effective(b, targets) ==
    {[id |-> s, as |-> IF s \in targets THEN "repaired" ELSE "sealed"] : s \in b.sources}

Membership(w) ==
    [sources |-> sources[w], contributions |-> contributions[w], decisions |-> decisions[w]]

SealedMembership(b) ==
    [sources |-> Sealed(b), contributions |-> b.contributions, decisions |-> b.decisions]

(* The rows that the manifest of a bundle names.                           *)
OfManifest(m, b) ==
    [sources |-> {s \in m.sources : s.id \in b.sources},
     contributions |-> {k \in m.contributions : \E l \in b.contributions : k.id = l.id},
     decisions |-> m.decisions \cap b.decisions]

EffectiveMembership(b, targets) ==
    [SealedMembership(b) EXCEPT !.sources = Effective(b, targets)]

(* An operation: the relationship it withdraws, the identities it rebinds. *)
Operation(kind, id, rels, map) ==
    [kind |-> kind, id |-> id, rels |-> rels, map |-> {<<o, map[o]>> : o \in DOMAIN map}]

AdoptedRevision(b) == [path |-> <<Operation("adopt", b.id, {}, <<>>)>>, graph |-> b.graph]

Receipt(b, form) == [bundle |-> b, form |-> form, targets |-> {}]

Stands(w) == {s \in Standing : s.world = w}

Init ==
    /\ adoption \in [Worlds -> {None} \cup {Receipt(s.bundle, s.form) : s \in Standing}]
    /\ \A w \in Worlds :
          adoption[w] # None => adoption[w] \in {Receipt(s.bundle, s.form) : s \in Stands(w)}
    /\ LET Row(w, none, rows) == IF adoption[w] = None THEN none ELSE rows
       IN  /\ sources = [w \in Worlds |-> Row(w, {}, Sealed(adoption[w].bundle))]
           /\ contributions = [w \in Worlds |-> Row(w, {}, adoption[w].bundle.contributions)]
           /\ decisions = [w \in Worlds |-> Row(w, {}, adoption[w].bundle.decisions)]
           /\ revisions = [w \in Worlds |-> Row(w, {}, {AdoptedRevision(adoption[w].bundle)})]
           /\ head = [w \in Worlds |-> Row(w, None, AdoptedRevision(adoption[w].bundle))]
    /\ initialization = [w \in Worlds |-> None]
    /\ withdrawals = {}
    /\ worldLock = [w \in Worlds |-> None]
    /\ tableLock = None
    /\ pc = [c \in Clients |-> "idle"]
    /\ call = [c \in Clients |-> None]
    /\ parent = [c \in Clients |-> None]
    /\ seen = [c \in Clients |-> None]
    /\ calls = 0

-----------------------------------------------------------------------------
(* Calls and their ends.                                                   *)

First(m) ==
    CASE m.kind \in {"adopt", "init", "promote"} -> "probing"
      [] m.kind = "check" -> "checking receipt"
      [] m.kind = "reconcile" -> "looking"
      [] m.kind = "append" -> "inserting"
      [] OTHER -> "locking"

(* A client that builds on a parent has read the head of its world.        *)
Call(c) ==
    \E q \in Requests :
        /\ pc[c] = "idle" /\ calls < MaxCalls
        /\ q.kind \in {"withdraw", "reconcile", "rollback"} => head[q.world] # None
        /\ q.kind = "reconcile" => RebindAllowed(head[q.world].graph, q.map)
        /\ q.kind = "adopt" => BundleClosed(q.bundle)
        /\ q.kind = "init" => InitializationAllowed(q.sources, q.assertions)
        /\ pc' = [pc EXCEPT ![c] = First(q)]
        /\ call' = [call EXCEPT ![c] = q]
        /\ parent' = [parent EXCEPT ![c] = head[q.world]]
        /\ calls' = calls + 1
        /\ UNCHANGED <<history, graph, receipts, locks, seen>>

To(c, stage) ==
    /\ pc' = [pc EXCEPT ![c] = stage]
    /\ UNCHANGED <<history, graph, receipts, locks, call, parent, seen, calls>>

Release(c) ==
    /\ worldLock' = [w \in Worlds |-> IF worldLock[w] = c THEN None ELSE worldLock[w]]
    /\ tableLock' = IF tableLock = c THEN None ELSE tableLock

Ends(c) ==
    /\ pc' = [pc EXCEPT ![c] = "idle"]
    /\ call' = [call EXCEPT ![c] = None]
    /\ parent' = [parent EXCEPT ![c] = None]
    /\ seen' = [seen EXCEPT ![c] = None]
    /\ Release(c)
    /\ UNCHANGED calls

(* A refusal rolls its transaction back, a replay answers the record.      *)
Refuse(c) == Ends(c) /\ UNCHANGED <<history, graph, receipts>>

Replay(c) == Ends(c) /\ UNCHANGED <<history, graph, receipts>>

(* The client of an adoption, of an initialization or of a repair looks    *)
(* for its receipt when it does not know how its transaction ended.        *)
EndUnknown(c) ==
    IF call[c].kind \in {"adopt", "init", "repair"}
    THEN /\ pc' = [pc EXCEPT ![c] = "recovering"]
         /\ Release(c)
         /\ UNCHANGED <<call, parent, seen, calls>>
    ELSE Ends(c)

InTransaction ==
    {"looking", "inserting", "referencing", "locking", "locking tables", "deciding", "committing"}

Abort(c) ==
    /\ pc[c] \in InTransaction
    /\ EndUnknown(c)
    /\ UNCHANGED <<history, graph, receipts>>

-----------------------------------------------------------------------------
(* What a call finds on record of its world.                               *)

Recorded(m) ==
    CASE m.kind = "adopt" -> adoption[m.world] # None /\ adoption[m.world].bundle = m.bundle
      [] m.kind = "init" -> /\ initialization[m.world] # None
                            /\ initialization[m.world] = [id |-> m.id, sources |-> m.sources,
                                                          assertions |-> m.assertions]
      [] m.kind = "repair" -> adoption[m.world] = [bundle |-> m.bundle, form |-> "v4",
                                                   targets |-> m.targets]

Begun(m) ==
    \/ m.kind = "adopt" /\ adoption[m.world] # None
    \/ m.kind = "init" /\ initialization[m.world] # None

(* The row of the receipt before the transaction; for a promotion, the     *)
(* membership and the correspondence of the bundle with the world too.     *)
Probe(c) ==
    LET m == call[c] IN
    /\ pc[c] = "probing"
    /\ m.kind \in {"adopt", "init"}
    /\ \/ Begun(m) /\ Recorded(m) /\ Replay(c)
       \/ Begun(m) /\ ~Recorded(m) /\ Refuse(c)
       \/ ~Begun(m) /\ To(c, "locking")

PromotionProbe(c) ==
    LET m == call[c] IN
    /\ pc[c] = "probing"
    /\ m.kind = "promote"
    /\ \/ /\ adoption[m.world] = Receipt(m.bundle, "v2")
          /\ Membership(m.world) = SealedMembership(m.bundle)
          /\ To(c, "locking")
       \/ adoption[m.world] = Receipt(m.bundle, "v3") /\ Replay(c)
       \/ /\ \/ adoption[m.world] # Receipt(m.bundle, "v2")
             \/ Membership(m.world) # SealedMembership(m.bundle)
          /\ adoption[m.world] # Receipt(m.bundle, "v3")
          /\ Refuse(c)

Recover(c) ==
    /\ pc[c] = "recovering"
    /\ IF Recorded(call[c]) THEN Replay(c) ELSE Refuse(c)

-----------------------------------------------------------------------------
(* Locks.                                                                  *)

(* Mutant: the insert of a contribution does not reference its world.      *)
KeySharedNever(w) == {c \in Clients : pc[c] = "nowhere" /\ call[c].world = w}

(* The transactions that hold the row of a world FOR KEY SHARE.            *)
KeyShared(w) == {c \in Clients : /\ pc[c] = "committing"
                                 /\ call[c].kind = "append"
                                 /\ call[c].world = w}

(* The transactions that have inserted into a table of the history.        *)
Inserting == {c \in Clients : pc[c] \in {"referencing", "committing"} /\ call[c].kind = "append"}

NeedsTables(m) == m.kind \in {"promote", "repair"}

LockWorld(c) ==
    LET w == call[c].world IN
    /\ pc[c] = "locking"
    /\ worldLock[w] = None
    /\ KeyShared(w) = {}
    /\ worldLock' = [worldLock EXCEPT ![w] = c]
    /\ pc' = [pc EXCEPT ![c] = IF NeedsTables(call[c]) THEN "locking tables" ELSE "deciding"]
    /\ UNCHANGED <<history, graph, receipts, tableLock, call, parent, seen, calls>>

LockTables(c) ==
    /\ pc[c] = "locking tables"
    /\ tableLock = None
    /\ Inserting = {}
    /\ tableLock' = c
    /\ pc' = [pc EXCEPT ![c] = "deciding"]
    /\ UNCHANGED <<history, graph, receipts, worldLock, call, parent, seen, calls>>

TablesOpen(c) == tableLock \in {None, c}

-----------------------------------------------------------------------------
(* Appending a contribution to the ledger: only the table and the foreign  *)
(* key stand in its way.                                                   *)

InsertContribution(c) ==
    /\ pc[c] = "inserting"
    /\ TablesOpen(c)
    /\ To(c, "referencing")

ReferenceWorld(c) ==
    /\ pc[c] = "referencing"
    /\ worldLock[call[c].world] = None
    /\ To(c, "committing")

CommitAppend(c) ==
    LET m == call[c] IN
    /\ pc[c] = "committing"
    /\ m.kind = "append"
    /\ \/ /\ \A k \in contributions[m.world] : k.id # m.contribution.id
          /\ contributions' = [contributions EXCEPT ![m.world] = @ \cup {m.contribution}]
          /\ UNCHANGED <<sources, decisions, graph, receipts>>
          /\ Ends(c)
       \/ m.contribution \in contributions[m.world] /\ Replay(c)
       \/ /\ \E k \in contributions[m.world] : k.id = m.contribution.id /\ k # m.contribution
          /\ Refuse(c)

(* A source that is stored in another world, or otherwise, is refused.     *)
SourcesFree(w, ids) ==
    \A v \in Worlds : \A s \in sources[v] : s.id \in ids => v = w /\ s.as = "sealed"

PutSource(c) ==
    LET m == call[c] IN
    /\ pc[c] = "deciding"
    /\ m.kind = "source"
    /\ TablesOpen(c)
    /\ IF SourcesFree(m.world, {m.id})
       THEN /\ sources' = [sources EXCEPT ![m.world] = @ \cup {[id |-> m.id, as |-> "sealed"]}]
            /\ UNCHANGED <<contributions, decisions, graph, receipts>>
            /\ Ends(c)
       ELSE Refuse(c)

-----------------------------------------------------------------------------
(* A world begins.                                                         *)

Pristine(w) ==
    /\ adoption[w] = None /\ initialization[w] = None
    /\ head[w] = None /\ revisions[w] = {}
    /\ contributions[w] = {} /\ decisions[w] = {} /\ sources[w] = {}

IdElsewhere(m) ==
    \/ m.kind = "adopt" /\ \E v \in Worlds \ {m.world} :
          adoption[v] # None /\ adoption[v].bundle.id = m.bundle.id
    \/ m.kind = "init" /\ \E v \in Worlds \ {m.world} :
          initialization[v] # None /\ initialization[v].id = m.id

SourcesOf(m) == IF m.kind = "adopt" THEN m.bundle.sources ELSE m.sources

DecideBeginning(c) ==
    LET m == call[c] IN
    /\ pc[c] = "deciding"
    /\ m.kind \in {"adopt", "init"}
    /\ \/ Begun(m) /\ Recorded(m) /\ Replay(c)
       \/ Begun(m) /\ ~Recorded(m) /\ Refuse(c)
       \/ ~Begun(m) /\ (IdElsewhere(m) \/ ~Pristine(m.world)) /\ Refuse(c)
       \/ ~Begun(m) /\ ~IdElsewhere(m) /\ Pristine(m.world) /\ To(c, "committing")

Begin(m, rows, ledger, settled, r) ==
    LET w == m.world IN
    /\ sources' = [sources EXCEPT ![w] = @ \cup rows]
    /\ contributions' = [contributions EXCEPT ![w] = @ \cup ledger]
    /\ decisions' = [decisions EXCEPT ![w] = @ \cup settled]
    /\ revisions' = [revisions EXCEPT ![w] = @ \cup {r}]
    /\ head' = [head EXCEPT ![w] = r]

(* A v2 bundle gets a receipt with a membership checkpoint, a v1 bundle    *)
(* one without.                                                            *)
WriteAdoption(m) ==
    LET b == m.bundle IN
    /\ Begin(m, Sealed(b), b.contributions, b.decisions, AdoptedRevision(b))
    /\ adoption' = [adoption EXCEPT ![m.world] = Receipt(b, IF b.version = 1 THEN "v1" ELSE "v3")]
    /\ UNCHANGED <<initialization, withdrawals>>

ReviewedContribution(m) == [id |-> m.id, source |-> None, corrects |-> {}]

WriteInitialization(m) ==
    /\ Begin(m, {[id |-> s, as |-> "sealed"] : s \in m.sources}, {ReviewedContribution(m)}, {},
             [path |-> <<Operation("init", m.id, {}, <<>>)>>, graph |-> FirstGraph(m.assertions)])
    /\ initialization' = [initialization EXCEPT ![m.world] =
                            [id |-> m.id, sources |-> m.sources, assertions |-> m.assertions]]
    /\ UNCHANGED <<adoption, withdrawals>>

CommitBeginning(c) ==
    LET m == call[c] IN
    /\ pc[c] = "committing"
    /\ m.kind \in {"adopt", "init"}
    /\ SourcesFree(m.world, SourcesOf(m)) /\ ~IdElsewhere(m)
    /\ TablesOpen(c)
    /\ IF m.kind = "adopt" THEN WriteAdoption(m) ELSE WriteInitialization(m)
    /\ Ends(c) \/ EndUnknown(c)

(* Its id or one of its sources was stored for another world meanwhile.    *)
BeginningConflicts(c) ==
    /\ pc[c] = "committing"
    /\ call[c].kind \in {"adopt", "init"}
    /\ ~SourcesFree(call[c].world, SourcesOf(call[c])) \/ IdElsewhere(call[c])
    /\ EndUnknown(c)
    /\ UNCHANGED <<history, graph, receipts>>

-----------------------------------------------------------------------------
(* The receipt of an adoption changes its representation, v2 to v3 to v4.  *)

(* Mutant: the membership read before the locks is relied on.              *)
PromotesUnproved(m) == adoption[m.world] = Receipt(m.bundle, "v2")

Promotes(m) ==
    /\ adoption[m.world] = Receipt(m.bundle, "v2")
    /\ Membership(m.world) = SealedMembership(m.bundle)

DecidePromotion(c) ==
    LET m == call[c] IN
    /\ pc[c] = "deciding"
    /\ m.kind = "promote"
    /\ \/ adoption[m.world] = Receipt(m.bundle, "v3") /\ Replay(c)
       \/ adoption[m.world] # Receipt(m.bundle, "v3") /\ ~Promotes(m) /\ Refuse(c)
       \/ Promotes(m) /\ To(c, "committing")

CommitPromotion(c) ==
    LET m == call[c] IN
    /\ pc[c] = "committing"
    /\ m.kind = "promote"
    /\ adoption' = [adoption EXCEPT ![m.world] =
                      [bundle |-> @.bundle, form |-> "v3", targets |-> @.targets]]
    /\ UNCHANGED <<history, graph, initialization, withdrawals>>
    /\ Ends(c)

(* The rows of the manifest are the sealed ones.                           *)
Repairs(m) ==
    /\ adoption[m.world] = Receipt(m.bundle, "v3")
    /\ OfManifest(Membership(m.world), m.bundle) = SealedMembership(m.bundle)

DecideRepair(c) ==
    LET m == call[c] IN
    /\ pc[c] = "deciding"
    /\ m.kind = "repair"
    /\ \/ Recorded(m) /\ Replay(c)
       \/ ~Recorded(m) /\ (~Repairs(m) \/ m.dryRun) /\ Refuse(c)
       \/ Repairs(m) /\ ~m.dryRun /\ To(c, "committing")

RepairedRows(rows, targets) ==
    {IF s.id \in targets THEN [s EXCEPT !.as = "repaired"] ELSE s : s \in rows}

CommitRepair(c) ==
    LET m == call[c] IN
    /\ pc[c] = "committing"
    /\ m.kind = "repair"
    /\ sources' = [sources EXCEPT ![m.world] = RepairedRows(@, m.targets)]
    /\ adoption' = [adoption EXCEPT ![m.world] =
                      [bundle |-> @.bundle, form |-> "v4", targets |-> m.targets]]
    /\ UNCHANGED <<contributions, decisions, graph, initialization, withdrawals>>
    /\ Ends(c) \/ EndUnknown(c)

-----------------------------------------------------------------------------
(* Head moves of a world that has begun.                                   *)

PublishChild(c, operation, payload) ==
    LET r == [path |-> Append(parent[c].path, operation), graph |-> payload]
        w == call[c].world
    IN  /\ revisions' = [revisions EXCEPT ![w] = @ \cup {r}]
        /\ head' = [head EXCEPT ![w] = r]

WithdrawalsAs(m) == {x \in withdrawals : x.world = m.world /\ x.id = m.id}

(* Only the manifest of a v4 receipt proves the membership of a source.    *)
Withdraws(c) ==
    LET receipt == adoption[call[c].world] IN
    /\ receipt # None /\ receipt.form = "v4"
    /\ head[call[c].world] = parent[c]
    /\ WithdrawalAllowed(receipt.bundle.graph, receipt.bundle.sources, parent[c].graph, call[c].rel)

DecideWithdrawal(c) ==
    LET m == call[c] IN
    /\ pc[c] = "deciding"
    /\ m.kind = "withdraw"
    /\ \/ \E x \in WithdrawalsAs(m) : x.rel = m.rel /\ x.parent = parent[c] /\ Replay(c)
       \/ \E x \in WithdrawalsAs(m) : ~(x.rel = m.rel /\ x.parent = parent[c]) /\ Refuse(c)
       \/ WithdrawalsAs(m) = {} /\ ~Withdraws(c) /\ Refuse(c)
       \/ WithdrawalsAs(m) = {} /\ Withdraws(c) /\ To(c, "committing")

CommitWithdrawal(c) ==
    LET m == call[c] IN
    /\ pc[c] = "committing"
    /\ m.kind = "withdraw"
    /\ PublishChild(c, Operation("withdraw", m.id, {m.rel}, <<>>), Withdraw(parent[c].graph, m.rel))
    /\ withdrawals' = withdrawals \cup
          {[world |-> m.world, id |-> m.id, rel |-> m.rel, parent |-> parent[c],
            adoption |-> adoption[m.world]]}
    /\ UNCHANGED <<history, adoption, initialization>>
    /\ Ends(c)

(* The revisions that carry the token of a reconciliation.                 *)
Reconciled(w, id) ==
    {r \in revisions[w] : Last(r.path).kind = "reconcile" /\ Last(r.path).id = id}

(* The replay is looked for before the world is locked, and not again.     *)
Look(c) ==
    LET found == Reconciled(call[c].world, call[c].id)
        asked == Append(parent[c].path, Operation("reconcile", call[c].id, {}, call[c].map))
    IN  /\ pc[c] = "looking"
        /\ \/ found = {} /\ To(c, "locking")
           \/ Cardinality(found) = 1 /\ (\E r \in found : r.path = asked) /\ Replay(c)
           \/ found # {} /\ ~(Cardinality(found) = 1 /\ \E r \in found : r.path = asked) /\ Refuse(c)

(* The id of a decision is computed from its operation, source and target. *)
DecisionsOf(m) == {[op |-> m.id, from |-> o, to |-> m.map[o]] : o \in DOMAIN m.map}

DecideReconciliation(c) ==
    /\ pc[c] = "deciding"
    /\ call[c].kind = "reconcile"
    /\ IF head[call[c].world] = parent[c] THEN To(c, "committing") ELSE Refuse(c)

CommitReconciliation(c) ==
    LET m == call[c] IN
    /\ pc[c] = "committing"
    /\ m.kind = "reconcile"
    /\ TablesOpen(c)
    /\ PublishChild(c, Operation("reconcile", m.id, {}, m.map), Rebind(parent[c].graph, m.map))
    /\ decisions' = [decisions EXCEPT ![m.world] = @ \cup DecisionsOf(m)]
    /\ UNCHANGED <<sources, contributions, receipts>>
    /\ Ends(c)

Rollback(c) ==
    LET m == call[c] IN
    /\ pc[c] = "deciding"
    /\ m.kind = "rollback"
    /\ \E r \in revisions[m.world] : head' = [head EXCEPT ![m.world] = r]
    /\ UNCHANGED <<history, revisions, receipts>>
    /\ Ends(c)

-----------------------------------------------------------------------------
(* The correspondence check: four reads in as many transactions.           *)

CheckReceipt(c) ==
    /\ pc[c] = "checking receipt"
    /\ IF adoption[call[c].world] = None
       THEN Replay(c)
       ELSE /\ seen' = [seen EXCEPT ![c] = [receipt |-> adoption[call[c].world]]]
            /\ pc' = [pc EXCEPT ![c] = "checking contributions"]
            /\ UNCHANGED <<history, graph, receipts, locks, call, parent, calls>>

(* The membership of this moment is kept for the properties only.          *)
CheckContributions(c) ==
    LET w == call[c].world IN
    /\ pc[c] = "checking contributions"
    /\ seen' = [seen EXCEPT ![c] = [receipt |-> @.receipt, contributions |-> contributions[w],
                                    moment |-> Membership(w)]]
    /\ pc' = [pc EXCEPT ![c] = "checking decisions"]
    /\ UNCHANGED <<history, graph, receipts, locks, call, parent, calls>>

CheckDecisions(c) ==
    /\ pc[c] = "checking decisions"
    /\ seen' = [seen EXCEPT ![c] = [receipt |-> @.receipt, contributions |-> @.contributions,
                                    moment |-> @.moment, decisions |-> decisions[call[c].world]]]
    /\ pc' = [pc EXCEPT ![c] = "checking sources"]
    /\ UNCHANGED <<history, graph, receipts, locks, call, parent, calls>>

SeenMembership(c) ==
    [sources |-> sources[call[c].world], contributions |-> seen[c].contributions,
     decisions |-> seen[c].decisions]

(* Mutant: rows that the bundle does not name are not looked for.          *)
CorrespondsByManifest(receipt, m) ==
    OfManifest(m, receipt.bundle) = EffectiveMembership(receipt.bundle, receipt.targets)

(* A v4 receipt is compared by its manifest, an earlier one with all rows. *)
Corresponds(receipt, m) ==
    IF receipt.form = "v4"
    THEN OfManifest(m, receipt.bundle) = EffectiveMembership(receipt.bundle, receipt.targets)
    ELSE m = SealedMembership(receipt.bundle)

Classification(c) ==
    LET receipt == seen[c].receipt
        same == receipt.bundle = call[c].bundle
    IN  IF ~same /\ receipt.form \in {"v1", "v2"} THEN "integrity error"
        ELSE IF Corresponds(receipt, SeenMembership(c))
        THEN IF same THEN "CORRESPONDING" ELSE "STALE"
        ELSE IF same /\ receipt.form # "v4" THEN "MISMATCH" ELSE "integrity error"

(* The check ends and answers its classification.                          *)
CheckSources(c) == pc[c] = "checking sources" /\ Replay(c)

-----------------------------------------------------------------------------
Step(c) ==
    \/ Probe(c) \/ PromotionProbe(c) \/ Recover(c)
    \/ LockWorld(c) \/ LockTables(c)
    \/ InsertContribution(c) \/ ReferenceWorld(c) \/ CommitAppend(c) \/ PutSource(c)
    \/ DecideBeginning(c) \/ CommitBeginning(c) \/ BeginningConflicts(c)
    \/ DecidePromotion(c) \/ CommitPromotion(c) \/ DecideRepair(c) \/ CommitRepair(c)
    \/ DecideWithdrawal(c) \/ CommitWithdrawal(c)
    \/ Look(c) \/ DecideReconciliation(c) \/ CommitReconciliation(c) \/ Rollback(c)
    \/ CheckReceipt(c) \/ CheckContributions(c) \/ CheckDecisions(c) \/ CheckSources(c)

Next == \E c \in Clients : Call(c) \/ Step(c) \/ Abort(c)

Spec == Init /\ [][Next]_vars

-----------------------------------------------------------------------------
(* When a world begins its history is exactly what was adopted or          *)
(* reviewed: no contribution slips in between the pristine check of adopt  *)
(* or initialize and its commit, although an append does not lock a world. *)
BeginsAsReviewed ==
    [][\A w \in Worlds :
          /\ adoption[w] = None /\ adoption'[w] # None =>
                Membership(w)' = SealedMembership(adoption'[w].bundle)
          /\ initialization[w] = None /\ initialization'[w] # None =>
                /\ {s.id : s \in sources'[w]} = initialization'[w].sources
                /\ Cardinality(contributions'[w]) = 1
                /\ decisions'[w] = {}]_vars

(* A receipt keeps its facts and only advances, on a proof of this moment: *)
(* to v3 when all rows of the world are the sealed ones, to v4 when the    *)
(* rows of the manifest are the effective ones.  promote_to_v3_receipt and *)
(* repair_source_classification prove it under locks that exclude writers. *)
AdvancesProved ==
    [][\A w \in Worlds :
          adoption[w] # None /\ adoption'[w] # adoption[w] =>
            /\ adoption'[w] # None /\ adoption'[w].bundle = adoption[w].bundle
            /\ <<adoption[w].form, adoption'[w].form>> \in {<<"v2", "v3">>, <<"v3", "v4">>}
            /\ Corresponds(adoption'[w], Membership(w)')]_vars

(* Every stored payload is the payload its world began with, changed by    *)
(* the operations on its path and nothing else, and it is closed; and the  *)
(* receipt of a withdrawal can be verified for ever: the adoption receipt  *)
(* it is bound to still stands, and its revision is stored.                *)
LineageExplained ==
    /\ \A w \in Worlds : \A r \in revisions[w] :
          /\ WellFormed(r.graph)
          /\ Evidence(r.graph) \subseteq {s.id : s \in sources[w]}
          /\ Len(r.path) > 1 => \E p \in revisions[w] :
                LET edit == Last(r.path) IN
                /\ p.path = Front(r.path)
                /\ \A o \in p.graph.rels : o.id \notin edit.rels =>
                      \E n \in r.graph.rels : n.id = o.id /\ n.evidence = o.evidence
                /\ edit.kind = "reconcile" =>
                      /\ Cardinality(r.graph.rels) = Cardinality(p.graph.rels)
                      /\ r.graph.objects \cap {x[1] : x \in edit.map} = {}
    /\ \A x \in withdrawals :
          /\ adoption[x.world] = x.adoption /\ x.adoption.form = "v4"
          /\ \E r \in revisions[x.world] :
                r.path = Append(x.parent.path, Operation("withdraw", x.id, {x.rel}, <<>>))

(* A check that classifies a bundle as CORRESPONDING, or as STALE, is      *)
(* right of one moment: when it listed the contributions, the rows the     *)
(* receipt names stood as it has them, and before a repair there were no   *)
(* others, although the check reads the rest later.                        *)
ClassifiedAsOfAMoment ==
    [][\A c \in Clients :
          pc[c] = "checking sources" /\ Classification(c) \in {"CORRESPONDING", "STALE"} =>
            LET r == seen[c].receipt
                named == OfManifest(seen[c].moment, r.bundle)
            IN  /\ named = EffectiveMembership(r.bundle, r.targets)
                /\ r.form # "v4" => seen[c].moment = named]_vars

(* The revision search of a reconciliation expects at most one revision    *)
(* per operation token.                                                    *)
OneRevisionPerOperation ==
    \A w \in Worlds : \A r \in revisions[w] :
        Last(r.path).kind = "reconcile" => Cardinality(Reconciled(w, Last(r.path).id)) = 1
=============================================================================
