------------------------ MODULE WorldAdoption_Proofs ------------------------
(***************************************************************************)
(* Proofs about WorldAdoption, for any number of clients, worlds, bundles  *)
(* and requests.  IInv, the inductive invariant, says of the tables that   *)
(* every revision extends stored ones and that the receipt of an adopted   *)
(* world and of each withdrawal from it stays verifiable; of the locks,    *)
(* that who decides holds the world or the tables, so that what it read is *)
(* still so when it commits; and of a correspondence check, which takes no *)
(* lock, that what it has seen was listed at one moment (SeenMoment).      *)
(* Ages says what every step may do to a world's rows.                     *)
(***************************************************************************)
EXTENDS WorldAdoption, FiniteSetTheorems, TLAPS

(* What the tables can hold.                                               *)
SourceIds ==
    UNION ({b.sources : b \in Bundles} \cup {q.sources : q \in RequestsOf("init")}
           \cup {{q.id} : q \in RequestsOf("source")})

SourceRows == [id : SourceIds, as : {"sealed", "repaired"}]

LedgerRows ==
    UNION ({b.contributions : b \in Bundles} \cup {{q.contribution} : q \in RequestsOf("append")}
           \cup {{ReviewedContribution(q)} : q \in RequestsOf("init")})

DecisionRows ==
    UNION ({b.decisions : b \in Bundles} \cup {DecisionsOf(q) : q \in RequestsOf("reconcile")})

Receipts == [bundle : Bundles, form : Forms, targets : Targets]

Edits ==
    {Operation("adopt", b.id, {}, <<>>) : b \in Bundles}
    \cup {Operation("init", q.id, {}, <<>>) : q \in RequestsOf("init")}
    \cup {Operation("withdraw", q.id, {q.rel}, <<>>) : q \in RequestsOf("withdraw")}
    \cup {Operation("reconcile", q.id, {}, q.map) : q \in RequestsOf("reconcile")}

Stages ==
    {"idle", "probing", "looking", "recovering", "inserting", "referencing", "locking",
     "locking tables", "deciding", "committing", "checking receipt", "checking contributions",
     "checking decisions", "checking sources"}

TablesOK ==
    /\ sources \in [Worlds -> SUBSET SourceRows]
    /\ contributions \in [Worlds -> SUBSET LedgerRows]
    /\ decisions \in [Worlds -> SUBSET DecisionRows]
    /\ DOMAIN revisions = Worlds /\ DOMAIN head = Worlds
    /\ adoption \in [Worlds -> Receipts \cup {None}]
    /\ DOMAIN initialization = Worlds
    /\ \A x \in withdrawals : x.world \in Worlds /\ x.adoption \in Receipts
    /\ worldLock \in [Worlds -> Clients \cup {None}]
    /\ tableLock \in Clients \cup {None}

ClientsOK ==
    /\ pc \in [Clients -> Stages]
    /\ call \in [Clients -> Requests \cup {None}]
    /\ DOMAIN parent = Clients /\ DOMAIN seen = Clients
    /\ calls \in 0..MaxCalls
    /\ \A c \in Clients : pc[c] # "idle" =>
          /\ call[c] \in Requests
          /\ pc[c] \in {"inserting", "referencing"} => call[c].kind = "append"
          /\ pc[c] = "locking tables" => NeedsTables(call[c])

TypeOK == TablesOK /\ ClientsOK

WorldHeld(c) ==
    pc[c] \in {"locking tables", "deciding", "committing"} /\ call[c].kind # "append" =>
        worldLock[call[c].world] = c

TablesHeld(c) ==
    pc[c] \in {"deciding", "committing"} /\ NeedsTables(call[c]) => tableLock = c

LedgerHeld(c) ==
    /\ pc[c] = "committing" /\ call[c].kind = "append" => worldLock[call[c].world] = None
    /\ pc[c] \in {"referencing", "committing"} /\ call[c].kind = "append" => tableLock = None

TableOwner ==
    tableLock # None => pc[tableLock] \in {"deciding", "committing"} /\ NeedsTables(call[tableLock])

LocksHeld == TableOwner /\ \A c \in Clients : WorldHeld(c) /\ TablesHeld(c) /\ LedgerHeld(c)

Asked(c) ==
    pc[c] # "idle" =>
        /\ call[c].kind = "adopt" => BundleClosed(call[c].bundle)
        /\ call[c].kind = "init" => InitializationAllowed(call[c].sources, call[c].assertions)
        /\ call[c].kind \in {"withdraw", "reconcile"} => parent[c] \in revisions[call[c].world]
        /\ call[c].kind = "reconcile" => RebindAllowed(parent[c].graph, call[c].map)

Decided(c) ==
    pc[c] = "committing" =>
        /\ call[c].kind \in {"adopt", "init"} => Pristine(call[c].world)
        /\ call[c].kind = "promote" => Promotes(call[c])
        /\ call[c].kind = "repair" => Repairs(call[c])
        /\ call[c].kind = "withdraw" => Withdraws(c)

HeadStored == \A w \in Worlds : head[w] # None => head[w] \in revisions[w]

Stored(w) == {s.id : s \in sources[w]}

Derived(w, r) ==
    Len(r.path) > 1 => \E p \in revisions[w] :
        LET edit == Last(r.path) IN
        /\ p.path = Front(r.path)
        /\ \A o \in p.graph.rels : o.id \notin edit.rels =>
              \E n \in r.graph.rels : n.id = o.id /\ n.evidence = o.evidence
        /\ edit.kind = "reconcile" =>
              /\ Cardinality(r.graph.rels) = Cardinality(p.graph.rels)
              /\ r.graph.objects \cap {x[1] : x \in edit.map} = {}

RevisionSound(w, r) ==
    /\ r.path \in Seq(Edits) /\ r.path # <<>>
    /\ IsPayload(r.graph) /\ WellFormed(r.graph)
    /\ Evidence(r.graph) \subseteq Stored(w)
    /\ Derived(w, r)

RevisionsSound == \A w \in Worlds : \A r \in revisions[w] : RevisionSound(w, r)

AdoptedHeld(w) ==
    LET b == adoption[w].bundle IN
    adoption[w] # None =>
        /\ Effective(b, adoption[w].targets) \subseteq sources[w]
        /\ b.contributions \subseteq contributions[w]
        /\ b.decisions \subseteq decisions[w]
        /\ adoption[w].form # "v4" => adoption[w].targets = {}

WithdrawalStands(x) ==
    /\ adoption[x.world] = x.adoption /\ x.adoption.form = "v4"
    /\ \E r \in revisions[x.world] :
          r.path = Append(x.parent.path, Operation("withdraw", x.id, {x.rel}, <<>>))

WithdrawalsStand == \A x \in withdrawals : WithdrawalStands(x)

SeenReceipt(c) ==
    LET r == seen[c].receipt
        w == call[c].world IN
    pc[c] \in {"checking contributions", "checking decisions", "checking sources"} =>
        /\ r \in Receipts
        /\ adoption[w] # None /\ adoption[w].bundle = r.bundle
        /\ r.form = "v4" => adoption[w] = r
        /\ r.form # "v4" => r.targets = {}

SeenMoment(c) ==
    LET r == seen[c].receipt
        b == r.bundle
        m == seen[c].moment
        w == call[c].world IN
    pc[c] \in {"checking decisions", "checking sources"} =>
        /\ m = [sources |-> m.sources, contributions |-> m.contributions, decisions |-> m.decisions]
        /\ m.sources \subseteq SourceRows
        /\ seen[c].contributions = m.contributions
        /\ b.contributions \subseteq m.contributions
        /\ b.decisions \subseteq m.decisions /\ m.decisions \subseteq decisions[w]
        /\ b.sources \subseteq {s.id : s \in m.sources}
        /\ \A s \in m.sources : \E t \in sources[w] :
              t.id = s.id /\ (s.as = "repaired" => t.as = "repaired")
        /\ r.form = "v4" => /\ Effective(b, r.targets) \subseteq m.sources
                            /\ m.sources \subseteq sources[w]
        /\ pc[c] = "checking sources" => m.decisions \subseteq seen[c].decisions

SeenHolds == \A c \in Clients : SeenReceipt(c) /\ SeenMoment(c)

IInv == /\ TypeOK /\ LocksHeld
        /\ \A c \in Clients : Asked(c) /\ Decided(c)
        /\ HeadStored /\ RevisionsSound /\ WithdrawalsStand /\ \A w \in Worlds : AdoptedHeld(w)
        /\ SeenHolds

-----------------------------------------------------------------------------
(* Edges of a graph, one by one.                                           *)
LEMMA AppendFacts ==
    ASSUME NEW p \in Seq(Edits), NEW e \in Edits
    PROVE  LET q == Append(p, e) IN
           q \in Seq(Edits) /\ q # <<>> /\ Last(q) = e /\ Front(q) = p
<1>1. /\ Append(p, e) \in Seq(Edits) /\ Len(Append(p, e)) = Len(p) + 1
      /\ Append(p, e)[Len(p) + 1] = e
      /\ \A i \in 1..Len(p) : Append(p, e)[i] = p[i]
  OBVIOUS
<1>2. SubSeq(Append(p, e), 1, Len(p)) = p
  <2>1. Len(p) \in Nat
    OBVIOUS
  <2> QED
    BY <1>1, <2>1
<1> QED
  BY <1>1, <1>2 DEF Last, Front

LEMMA FirstPath ==
    ASSUME NEW e \in Edits
    PROVE  <<e>> \in Seq(Edits) /\ <<e>> # <<>> /\ ~(Len(<<e>>) > 1)
OBVIOUS

(* A rebind keeps a payload closed, and every relationship in it.          *)
LEMMA RebindSound ==
    ASSUME NEW g, IsPayload(g), WellFormed(g), NEW map, RebindAllowed(g, map)
    PROVE  LET h == Rebind(g, map) IN
           /\ IsPayload(h) /\ WellFormed(h) /\ Evidence(h) \subseteq Evidence(g)
           /\ Cardinality(h.rels) = Cardinality(g.rels)
           /\ h.objects \cap DOMAIN map = {}
           /\ \A o \in g.rels : \E n \in h.rels : n.id = o.id /\ n.evidence = o.evidence
<1> DEFINE h == Rebind(g, map)
           Moved(r) == [id |-> r.id, from |-> Rebound(map, r.from), to |-> Rebound(map, r.to),
                        evidence |-> r.evidence]
<1>2. h = [objects |-> {Rebound(map, o) : o \in g.objects},
           canonical |-> {Rebound(map, o) : o \in g.canonical},
           rels |-> {Moved(r) : r \in g.rels}]
  BY DEF Rebind, Graph
<1>3. /\ h.objects = {Rebound(map, o) : o \in g.objects}
      /\ h.canonical = {Rebound(map, o) : o \in g.canonical}
      /\ h.rels = {Moved(r) : r \in g.rels}
  BY <1>2
<1> HIDE DEF h
<1>4. \A r \in g.rels, s \in g.rels : Moved(r).id = Moved(s).id => r = s
  BY DEF WellFormed
<1>5. IsFiniteSet(h.rels) /\ Cardinality(h.rels) = Cardinality(g.rels)
  <2> DEFINE f == [r \in g.rels |-> Moved(r)]
  <2>1. f \in [g.rels -> h.rels]
    BY <1>3
  <2>2. f \in Surjection(g.rels, h.rels)
    BY <1>3, <2>1 DEF Surjection
  <2>3. \A r \in g.rels, s \in g.rels : f[r] = f[s] => r = s
    BY <1>4
  <2>4. f \in Injection(g.rels, h.rels)
    BY <2>1, <2>3 DEF Injection, IsInjective
  <2>5. IsFiniteSet(g.rels)
    BY DEF IsPayload
  <2> HIDE DEF f
  <2> QED
    BY <2>2, <2>4, <2>5, FS_Surjection
<1>6. IsPayload(h)
  <2>1. h = Graph(h.objects, h.canonical, h.rels)
    BY <1>2, <1>3 DEF Graph
  <2>2. \A n \in h.rels : n = [id |-> n.id, from |-> n.from, to |-> n.to, evidence |-> n.evidence]
    BY <1>3
  <2> QED
    BY <1>5, <2>1, <2>2 DEF IsPayload
<1>7. WellFormed(h)
  <2>1. h.canonical \subseteq h.objects
    BY <1>3 DEF WellFormed
  <2>2. \A n \in h.rels : {n.from, n.to} \subseteq h.objects
    BY <1>3 DEF WellFormed
  <2>3. \A n \in h.rels, k \in h.rels : n.id = k.id => n = k
    <3>1. SUFFICES ASSUME NEW r \in g.rels, NEW s \in g.rels, Moved(r).id = Moved(s).id
                   PROVE  Moved(r) = Moved(s)
      BY <1>3
    <3> QED
      BY <1>4, <3>1
  <2> QED
    BY <2>1, <2>2, <2>3 DEF WellFormed
<1>8. Evidence(h) \subseteq Evidence(g)
  BY <1>3 DEF Evidence
<1>9. h.objects \cap DOMAIN map = {}
  <2>1. \A o \in DOMAIN map : map[o] \notin DOMAIN map
    BY DEF RebindAllowed
  <2>2. \A o : Rebound(map, o) \notin DOMAIN map
    BY <2>1 DEF Rebound
  <2> QED
    BY <1>3, <2>2
<1>10. \A o \in g.rels : \E n \in h.rels : n.id = o.id /\ n.evidence = o.evidence
  <2>1. SUFFICES ASSUME NEW o \in g.rels
                 PROVE  \E n \in h.rels : n.id = o.id /\ n.evidence = o.evidence
    OBVIOUS
  <2>2. Moved(o) \in h.rels /\ Moved(o).id = o.id /\ Moved(o).evidence = o.evidence
    BY <1>3
  <2> QED
    BY <2>2
<1> QED
  BY <1>5, <1>6, <1>7, <1>8, <1>9, <1>10 DEF h

(* A withdrawal takes one relationship away and nothing else.              *)
LEMMA WithdrawSound ==
    ASSUME NEW g, IsPayload(g), WellFormed(g), NEW id
    PROVE  LET h == Withdraw(g, id) IN
           /\ IsPayload(h) /\ WellFormed(h) /\ Evidence(h) \subseteq Evidence(g)
           /\ \A o \in g.rels : o.id # id => o \in h.rels
<1> DEFINE kept == g.rels \ Relationships(g, id)
<1>1. Withdraw(g, id) = Graph(g.objects, g.canonical, kept)
  BY DEF Withdraw, IsPayload, Graph
<1>2. /\ Withdraw(g, id).objects = g.objects /\ Withdraw(g, id).canonical = g.canonical
      /\ Withdraw(g, id).rels = kept
  BY <1>1 DEF Graph
<1>3. kept \subseteq g.rels /\ \A o \in g.rels : o.id # id => o \in kept
  BY DEF Relationships
<1> HIDE DEF kept
<1>4. IsFiniteSet(kept)
  BY <1>3, FS_Subset DEF IsPayload
<1>5. IsPayload(Withdraw(g, id))
  BY <1>1, <1>2, <1>3, <1>4 DEF IsPayload
<1>6. WellFormed(Withdraw(g, id))
  BY <1>2, <1>3 DEF WellFormed
<1>7. Evidence(Withdraw(g, id)) \subseteq Evidence(g)
  BY <1>2, <1>3 DEF Evidence
<1> QED
  BY <1>2, <1>3, <1>5, <1>6, <1>7

(* The first graph of a reviewed world is closed over its sources.         *)
LEMMA FirstGraphSound ==
    ASSUME NEW known, NEW said, InitializationAllowed(known, said), IsFiniteSet(said)
    PROVE  LET g == FirstGraph(said) IN
           IsPayload(g) /\ WellFormed(g) /\ Evidence(g) \subseteq known
<1> DEFINE g == FirstGraph(said)
           edges == Accepted(said, "edge")
           Drawn(a) == [id |-> a.id, from |-> a.subject, to |-> a.object, evidence |-> a.evidence]
<1>1. /\ g = [objects |-> Created(said), canonical |-> Created(said),
              rels |-> {Drawn(a) : a \in edges}]
  BY DEF FirstGraph, Graph
<1>2. g.objects = Created(said) /\ g.canonical = Created(said) /\ g.rels = {Drawn(a) : a \in edges}
  BY <1>1
<1>3. /\ edges \subseteq said
      /\ \A a \in edges : {a.subject, a.object} \subseteq Created(said)
      /\ \A a \in edges, b \in edges : a.id = b.id => a = b
      /\ UNION {a.evidence : a \in said} = known
  BY DEF InitializationAllowed, Accepted
<1> HIDE DEF g, edges
<1>4. IsFiniteSet(g.rels)
  <2> DEFINE f == [a \in edges |-> Drawn(a)]
  <2>1. f \in Surjection(edges, g.rels)
    BY <1>2 DEF Surjection
  <2>2. IsFiniteSet(edges)
    BY <1>3, FS_Subset
  <2> HIDE DEF f
  <2> QED
    BY <2>1, <2>2, FS_Surjection
<1>5. IsPayload(g)
  <2>1. g = Graph(g.objects, g.canonical, g.rels)
    BY <1>1, <1>2 DEF Graph
  <2>2. \A r \in g.rels : r = [id |-> r.id, from |-> r.from, to |-> r.to, evidence |-> r.evidence]
    BY <1>2
  <2> QED
    BY <1>4, <2>1, <2>2 DEF IsPayload
<1>6. WellFormed(g)
  <2>1. \A r \in g.rels : {r.from, r.to} \subseteq g.objects
    BY <1>2, <1>3
  <2>2. \A r \in g.rels, s \in g.rels : r.id = s.id => r = s
    <3>1. SUFFICES ASSUME NEW a \in edges, NEW b \in edges, a.id = b.id
                   PROVE  Drawn(a) = Drawn(b)
      BY <1>2
    <3> QED
      BY <1>3, <3>1
  <2> QED
    BY <1>2, <2>1, <2>2 DEF WellFormed
<1>7. Evidence(g) \subseteq known
  BY <1>2, <1>3 DEF Evidence
<1> QED
  BY <1>5, <1>6, <1>7 DEF g

-----------------------------------------------------------------------------
(* The steps, by what they do.                                             *)

Quiet == UNCHANGED <<history, graph, receipts>>

Ended(c) == Ends(c) \/ EndUnknown(c)

Finishes(c) == pc[c] # "idle" /\ Ended(c) /\ Quiet

StartsLocking(c) == pc[c] \in {"probing", "looking"} /\ To(c, "locking")

Decides(c) ==
    /\ pc[c] = "deciding"
    /\ \/ call[c].kind \in {"adopt", "init"} /\ Pristine(call[c].world)
       \/ call[c].kind = "promote" /\ Promotes(call[c])
       \/ call[c].kind = "repair" /\ Repairs(call[c])
       \/ call[c].kind = "withdraw" /\ Withdraws(c)
       \/ call[c].kind = "reconcile"
    /\ To(c, "committing")

ReadsReceipt(c) == CheckReceipt(c) /\ adoption[call[c].world] # None

Appends(c) ==
    /\ pc[c] = "committing" /\ call[c].kind = "append"
    /\ contributions' = [contributions EXCEPT ![call[c].world] = @ \cup {call[c].contribution}]
    /\ UNCHANGED <<sources, decisions, graph, receipts>>
    /\ Ends(c)

Puts(c) ==
    /\ pc[c] = "deciding" /\ call[c].kind = "source"
    /\ sources' = [sources EXCEPT ![call[c].world] = @ \cup {[id |-> call[c].id, as |-> "sealed"]}]
    /\ UNCHANGED <<contributions, decisions, graph, receipts>>
    /\ Ends(c)

QuietStep(c) ==
    \/ Call(c) \/ StartsLocking(c) \/ LockWorld(c) \/ LockTables(c)
    \/ InsertContribution(c) \/ ReferenceWorld(c) \/ Decides(c)
    \/ ReadsReceipt(c) \/ CheckContributions(c) \/ CheckDecisions(c) \/ Finishes(c)

WriteStep(c) ==
    \/ Appends(c) \/ Puts(c) \/ CommitBeginning(c) \/ CommitPromotion(c) \/ CommitRepair(c)
    \/ CommitWithdrawal(c) \/ CommitReconciliation(c) \/ Rollback(c)

(* Every step is of one of these forms.                                    *)
LEMMA NextCases ==
    ASSUME Next
    PROVE  \E c \in Clients : QuietStep(c) \/ WriteStep(c)
<1>1. PICK c \in Clients : Call(c) \/ Step(c) \/ Abort(c)
  BY DEF Next
<1>2. SUFFICES QuietStep(c) \/ WriteStep(c)
  OBVIOUS
<1>3. \A d : Refuse(d) \/ Replay(d) => Ended(d) /\ Quiet
  BY DEF Refuse, Replay, Ended, Quiet
<1>4. ASSUME pc[c] # "idle", Refuse(c) \/ Replay(c) PROVE QuietStep(c)
  BY <1>3, <1>4 DEF QuietStep, Finishes
<1>5. CASE Abort(c)
  <2>1. pc[c] # "idle" /\ Ended(c) /\ Quiet
    BY <1>5 DEF Abort, InTransaction, Ended, Quiet
  <2> QED
    BY <2>1 DEF QuietStep, Finishes
<1>6. CASE Probe(c) \/ PromotionProbe(c) \/ Recover(c) \/ Look(c)
  <2>1. pc[c] # "idle" /\ (Refuse(c) \/ Replay(c) \/ StartsLocking(c))
    BY <1>6 DEF Probe, PromotionProbe, Recover, Look, StartsLocking
  <2> QED
    BY <1>4, <2>1 DEF QuietStep
<1>7. CASE CommitAppend(c) \/ PutSource(c)
  <2>1. pc[c] # "idle" /\ (Refuse(c) \/ Replay(c) \/ Appends(c) \/ Puts(c))
    BY <1>7 DEF CommitAppend, PutSource, Appends, Puts
  <2> QED
    BY <1>4, <2>1 DEF WriteStep
<1>8. CASE DecideBeginning(c)
  <2>1. pc[c] # "idle" /\ (Refuse(c) \/ Replay(c) \/ Decides(c))
    BY <1>8 DEF DecideBeginning, Decides
  <2> QED
    BY <1>4, <2>1 DEF QuietStep
<1>9. CASE DecidePromotion(c) \/ DecideRepair(c)
  <2>1. pc[c] # "idle" /\ (Refuse(c) \/ Replay(c) \/ Decides(c))
    BY <1>9 DEF DecidePromotion, DecideRepair, Decides
  <2> QED
    BY <1>4, <2>1 DEF QuietStep
<1>10. CASE DecideWithdrawal(c) \/ DecideReconciliation(c)
  <2>1. pc[c] # "idle" /\ (Refuse(c) \/ Replay(c) \/ Decides(c))
    BY <1>10 DEF DecideWithdrawal, DecideReconciliation, Decides
  <2> QED
    BY <1>4, <2>1 DEF QuietStep
<1>11. CASE BeginningConflicts(c)
  <2>1. pc[c] # "idle" /\ Ended(c) /\ Quiet
    BY <1>11 DEF BeginningConflicts, Ended, Quiet
  <2> QED
    BY <2>1 DEF QuietStep, Finishes
<1>12. CASE CheckReceipt(c) \/ CheckSources(c)
  <2>1. pc[c] # "idle" /\ (Replay(c) \/ ReadsReceipt(c))
    BY <1>12 DEF CheckReceipt, CheckSources, ReadsReceipt
  <2> QED
    BY <1>4, <2>1 DEF QuietStep
<1> QED
  BY <1>1, <1>5, <1>6, <1>7, <1>8, <1>9, <1>10, <1>11, <1>12 DEF Step, QuietStep, WriteStep

-----------------------------------------------------------------------------
(* What a step leaves alone.                                               *)

Others(c) ==
    \A d \in Clients \ {c} : /\ pc'[d] = pc[d] /\ call'[d] = call[d]
                             /\ parent'[d] = parent[d] /\ seen'[d] = seen[d]

Elsewhere(w) ==
    \A v \in Worlds \ {w} :
        /\ sources'[v] = sources[v] /\ contributions'[v] = contributions[v]
        /\ decisions'[v] = decisions[v] /\ revisions'[v] = revisions[v] /\ head'[v] = head[v]
        /\ adoption'[v] = adoption[v] /\ initialization'[v] = initialization[v]

(* The end of a transaction frees its locks and touches no other client.   *)
LEMMA EndFacts ==
    ASSUME TypeOK, NEW c \in Clients, Ended(c)
    PROVE  /\ Others(c)
           /\ \/ pc'[c] = "idle"
              \/ /\ pc'[c] = "recovering" /\ call'[c] = call[c] /\ parent'[c] = parent[c]
                 /\ call[c].kind \in {"adopt", "init", "repair"}
           /\ worldLock' = [w \in Worlds |-> IF worldLock[w] = c THEN None ELSE worldLock[w]]
           /\ tableLock' = IF tableLock = c THEN None ELSE tableLock
           /\ calls' = calls
           /\ pc' \in [Clients -> Stages] /\ call' \in [Clients -> Requests \cup {None}]
           /\ DOMAIN parent' = Clients /\ DOMAIN seen' = Clients
<1> USE DEF TypeOK, ClientsOK, Others, Stages
<1>1. CASE Ends(c)
  BY <1>1 DEF Ends, Release
<1>2. CASE EndUnknown(c) /\ ~Ends(c)
  BY <1>2 DEF EndUnknown, Release
<1> QED
  BY <1>1, <1>2 DEF Ended

(* A step of a client is a step of no other.                               *)
LEMMA OneClient ==
    ASSUME TypeOK, NEW c \in Clients, QuietStep(c) \/ WriteStep(c)
    PROVE  Others(c)
<1>1. CASE Ended(c)
  BY <1>1, EndFacts
<1>2. CASE Call(c) \/ StartsLocking(c) \/ LockWorld(c) \/ LockTables(c)
  BY <1>2 DEF Call, StartsLocking, To, LockWorld, LockTables, Others, TypeOK, ClientsOK
<1>3. CASE InsertContribution(c) \/ ReferenceWorld(c) \/ Decides(c)
  BY <1>3 DEF InsertContribution, ReferenceWorld, Decides, To, Others, TypeOK, ClientsOK
<1>4. CASE ReadsReceipt(c) \/ CheckContributions(c) \/ CheckDecisions(c)
  BY <1>4 DEF ReadsReceipt, CheckReceipt, CheckContributions, CheckDecisions, Others, TypeOK,
              ClientsOK
<1>5. Finishes(c) \/ WriteStep(c) => Ended(c)
  BY DEF Finishes, WriteStep, Ended, Appends, Puts, CommitBeginning, CommitPromotion,
         CommitRepair, CommitWithdrawal, CommitReconciliation, Rollback
<1> QED
  BY <1>1, <1>2, <1>3, <1>4, <1>5 DEF QuietStep

(* A write concerns one world, that of its call.                           *)
LEMMA WriteLocal ==
    ASSUME TypeOK, NEW c \in Clients, WriteStep(c)
    PROVE  /\ pc[c] \in {"deciding", "committing"} /\ call[c] \in Requests
           /\ call[c].world \in Worlds /\ Elsewhere(call[c].world)
<1> DEFINE w == call[c].world
<1>1. pc[c] \in {"deciding", "committing"} /\ call[c] \in Requests /\ w \in Worlds
  BY WorldAdoptionAssumption DEF Parameters, TypeOK, ClientsOK, WriteStep, Appends, Puts,
     CommitBeginning, CommitPromotion, CommitRepair, CommitWithdrawal, CommitReconciliation,
     Rollback
<1> USE DEF Elsewhere, history, graph, receipts
<1>2. CASE Appends(c) \/ Puts(c) \/ CommitPromotion(c) \/ CommitRepair(c) \/ Rollback(c)
  BY <1>1, <1>2 DEF Appends, Puts, CommitPromotion, CommitRepair, Rollback, TypeOK, TablesOK
<1>3. CASE CommitBeginning(c)
  <2>1. WriteAdoption(call[c]) \/ WriteInitialization(call[c])
    BY <1>3 DEF CommitBeginning
  <2> QED
    BY <1>1, <2>1 DEF WriteAdoption, WriteInitialization, Begin, TypeOK, TablesOK
<1>4. CASE CommitWithdrawal(c) \/ CommitReconciliation(c)
  BY <1>1, <1>4 DEF CommitWithdrawal, CommitReconciliation, PublishChild, TypeOK, TablesOK
<1> QED
  BY <1>1, <1>2, <1>3, <1>4 DEF WriteStep

LEMMA WritesEnd ==
    ASSUME TypeOK, NEW c \in Clients, WriteStep(c)
    PROVE  Ended(c)
BY DEF WriteStep, Ended, Appends, Puts, CommitBeginning, CommitPromotion, CommitRepair,
       CommitWithdrawal, CommitReconciliation, Rollback

-----------------------------------------------------------------------------
(* Types.                                                                  *)

(* The clients' part of the types.                                         *)
LEMMA ClientsStep ==
    ASSUME TypeOK, NEW c \in Clients, QuietStep(c) \/ WriteStep(c)
    PROVE  ClientsOK'
<1> USE DEF ClientsOK, Stages
<1>1. CASE Finishes(c) \/ WriteStep(c)
  <2>0. Ended(c) /\ pc[c] # "idle"
    BY <1>1, WritesEnd, WriteLocal DEF Finishes
  <2>1. \A d \in Clients : pc'[d] # "idle" =>
           /\ call'[d] \in Requests
           /\ pc'[d] \in {"inserting", "referencing"} => call'[d].kind = "append"
           /\ pc'[d] = "locking tables" => NeedsTables(call'[d])
    <3>1. SUFFICES ASSUME NEW d \in Clients, pc'[d] # "idle"
                   PROVE  /\ call'[d] \in Requests
                          /\ pc'[d] \in {"inserting", "referencing"} => call'[d].kind = "append"
                          /\ pc'[d] = "locking tables" => NeedsTables(call'[d])
      OBVIOUS
    <3>2. CASE d = c
      <4>1. pc'[c] = "recovering" /\ call'[c] = call[c]
        BY <2>0, <3>1, <3>2, EndFacts
      <4> QED
        BY <2>0, <3>2, <4>1 DEF TypeOK
    <3>3. CASE d # c
      <4>1. pc'[d] = pc[d] /\ call'[d] = call[d]
        BY <2>0, <3>3, EndFacts DEF Others
      <4> QED
        BY <3>1, <4>1 DEF TypeOK, NeedsTables
    <3> QED
      BY <3>2, <3>3
  <2> QED
    BY <2>0, <2>1, EndFacts DEF TypeOK
<1>2. CASE Call(c)
  <2>1. PICK q \in Requests :
           /\ pc' = [pc EXCEPT ![c] = First(q)] /\ call' = [call EXCEPT ![c] = q]
           /\ parent' = [parent EXCEPT ![c] = head[q.world]] /\ calls' = calls + 1
           /\ calls < MaxCalls /\ seen' = seen
    BY <1>2 DEF Call
  <2>2. /\ First(q) \in Stages /\ First(q) \notin {"referencing", "locking tables"}
        /\ First(q) = "inserting" => q.kind = "append"
    BY DEF First
  <2>3. calls' \in 0..MaxCalls
    <3>1. MaxCalls \in Nat /\ calls \in 0..MaxCalls
      BY WorldAdoptionAssumption DEF Parameters, TypeOK
    <3> QED
      BY <2>1, <3>1
  <2> QED
    BY <2>1, <2>2, <2>3 DEF TypeOK
<1>3. CASE StartsLocking(c) \/ LockWorld(c) \/ LockTables(c)
  BY <1>3 DEF TypeOK, StartsLocking, To, LockWorld, LockTables
<1>4. CASE InsertContribution(c) \/ ReferenceWorld(c) \/ Decides(c)
  BY <1>4 DEF TypeOK, InsertContribution, ReferenceWorld, Decides, To
<1>5. CASE ReadsReceipt(c) \/ CheckContributions(c) \/ CheckDecisions(c)
  BY <1>5 DEF TypeOK, ReadsReceipt, CheckReceipt, CheckContributions, CheckDecisions
<1> QED
  BY <1>1, <1>2, <1>3, <1>4, <1>5 DEF QuietStep

(* A step that writes nothing keeps the tables, and locks have owners.     *)
LEMMA QuietTables ==
    ASSUME TypeOK, NEW c \in Clients, QuietStep(c)
    PROVE  TablesOK' /\ Quiet
<1>1. Quiet
  BY DEF QuietStep, Quiet, Call, StartsLocking, LockWorld, LockTables, InsertContribution,
     ReferenceWorld, Decides, To, ReadsReceipt, CheckReceipt, CheckContributions, CheckDecisions,
     Finishes
<1>2. worldLock' \in [Worlds -> Clients \cup {None}] /\ tableLock' \in Clients \cup {None}
  <2>1. CASE Finishes(c)
    BY <2>1, EndFacts DEF Finishes, TypeOK, TablesOK
  <2>2. CASE LockWorld(c) \/ LockTables(c)
    <3>1. CASE LockWorld(c)
      BY <3>1 DEF LockWorld, TypeOK, TablesOK
    <3>2. CASE LockTables(c)
      BY <3>2 DEF LockTables, TypeOK, TablesOK
    <3> QED
      BY <2>2, <3>1, <3>2
  <2>3. CASE ~Finishes(c) /\ ~LockWorld(c) /\ ~LockTables(c)
    <3>1. UNCHANGED locks
      BY <2>3 DEF QuietStep, Call, StartsLocking, InsertContribution, ReferenceWorld, Decides, To,
         ReadsReceipt, CheckReceipt, CheckContributions, CheckDecisions, locks
    <3> QED
      BY <3>1 DEF locks, TypeOK, TablesOK
  <2> QED
    BY <2>1, <2>2, <2>3
<1> QED
  BY <1>1, <1>2 DEF TypeOK, TablesOK, Quiet, history, graph, receipts

(* A write keeps the tables within their types.                            *)
LEMMA WriteTables ==
    ASSUME TypeOK, NEW c \in Clients, WriteStep(c), Decided(c)
    PROVE  TablesOK'
<1> DEFINE w == call[c].world
<1>1. w \in Worlds /\ call[c] \in Requests
  BY WriteLocal
<1>2. worldLock' \in [Worlds -> Clients \cup {None}] /\ tableLock' \in Clients \cup {None}
  BY WritesEnd, EndFacts DEF TypeOK, TablesOK
<1> USE DEF history, graph, receipts
<1>3. CASE Appends(c)
  <2>1. call[c].contribution \in LedgerRows
    BY <1>1, <1>3 DEF Appends, LedgerRows, RequestsOf
  <2> QED
    BY <1>1, <1>2, <1>3, <2>1 DEF Appends, TypeOK, TablesOK
<1>4. CASE Puts(c)
  <2>1. call[c].id \in SourceIds
    BY <1>1, <1>4 DEF Puts, SourceIds, RequestsOf
  <2>2. [id |-> call[c].id, as |-> "sealed"] \in SourceRows
    BY <2>1 DEF SourceRows
  <2> QED
    BY <1>1, <1>2, <1>4, <2>2 DEF Puts, TypeOK, TablesOK
<1>5. CASE CommitBeginning(c) /\ call[c].kind = "adopt"
  <2> DEFINE b == call[c].bundle
  <2>1. b \in Bundles /\ WriteAdoption(call[c])
    BY <1>1, <1>5 DEF Bundles, RequestsOf, CommitBeginning
  <2>2. Sealed(b) \subseteq SourceRows
    BY <2>1 DEF Sealed, SourceRows, SourceIds
  <2>3. b.contributions \subseteq LedgerRows /\ b.decisions \subseteq DecisionRows
    BY <2>1 DEF LedgerRows, DecisionRows
  <2>4. Receipt(b, IF b.version = 1 THEN "v1" ELSE "v3") \in Receipts
    BY <2>1 DEF Receipt, Receipts, Forms, Targets
  <2> HIDE DEF b
  <2>5. /\ sources' = [sources EXCEPT ![w] = @ \cup Sealed(b)]
        /\ contributions' = [contributions EXCEPT ![w] = @ \cup b.contributions]
        /\ decisions' = [decisions EXCEPT ![w] = @ \cup b.decisions]
        /\ DOMAIN revisions' = DOMAIN revisions /\ DOMAIN head' = DOMAIN head
        /\ adoption' = [adoption EXCEPT ![w] = Receipt(b, IF b.version = 1 THEN "v1" ELSE "v3")]
        /\ initialization' = initialization /\ withdrawals' = withdrawals
    BY <2>1 DEF WriteAdoption, Begin, b
  <2> QED
    BY <1>1, <1>2, <2>2, <2>3, <2>4, <2>5 DEF TypeOK, TablesOK
<1>6. CASE CommitBeginning(c) /\ call[c].kind = "init"
  <2> DEFINE q == call[c]
             rows == {[id |-> s, as |-> "sealed"] : s \in q.sources}
  <2>1. q \in RequestsOf("init") /\ WriteInitialization(q)
    BY <1>1, <1>6 DEF RequestsOf, CommitBeginning
  <2>2. rows \subseteq SourceRows
    BY <2>1 DEF SourceRows, SourceIds
  <2>3. {ReviewedContribution(q)} \subseteq LedgerRows
    BY <2>1 DEF LedgerRows
  <2> HIDE DEF q
  <2>4. /\ sources' = [sources EXCEPT ![w] = @ \cup rows]
        /\ contributions' = [contributions EXCEPT ![w] = @ \cup {ReviewedContribution(q)}]
        /\ decisions' = [decisions EXCEPT ![w] = @ \cup {}]
        /\ DOMAIN revisions' = DOMAIN revisions /\ DOMAIN head' = DOMAIN head
        /\ adoption' = adoption /\ DOMAIN initialization' = DOMAIN initialization
        /\ withdrawals' = withdrawals
    BY <2>1 DEF WriteInitialization, Begin, q
  <2> HIDE DEF rows
  <2> QED
    BY <1>1, <1>2, <2>2, <2>3, <2>4 DEF TypeOK, TablesOK
<1>7. CASE CommitPromotion(c)
  <2>1. adoption[w] \in Receipts
    <3>1. adoption[w] = Receipt(call[c].bundle, "v2") /\ call[c].kind = "promote"
      BY <1>7 DEF CommitPromotion, Decided, Promotes
    <3> QED
      BY <1>1, <3>1 DEF Receipt, Receipts, Bundles, Forms, Targets
  <2>2. [bundle |-> adoption[w].bundle, form |-> "v3", targets |-> adoption[w].targets] \in Receipts
    BY <2>1 DEF Receipts, Forms
  <2> QED
    BY <1>1, <1>2, <1>7, <2>2 DEF CommitPromotion, TypeOK, TablesOK
<1>8. CASE CommitRepair(c)
  <2>1. adoption[w] \in Receipts
    <3>1. adoption[w] = Receipt(call[c].bundle, "v3") /\ call[c].kind = "repair"
      BY <1>8 DEF CommitRepair, Decided, Repairs
    <3> QED
      BY <1>1, <3>1 DEF Receipt, Receipts, Bundles, Forms, Targets
  <2>2. call[c].targets \in Targets
    BY <1>1, <1>8 DEF CommitRepair, Targets, RequestsOf
  <2>3. [bundle |-> adoption[w].bundle, form |-> "v4", targets |-> call[c].targets] \in Receipts
    BY <2>1, <2>2 DEF Receipts, Forms
  <2>4. RepairedRows(sources[w], call[c].targets) \subseteq SourceRows
    BY <1>1 DEF RepairedRows, SourceRows, TypeOK, TablesOK
  <2> QED
    BY <1>1, <1>2, <1>8, <2>3, <2>4 DEF CommitRepair, TypeOK, TablesOK
<1>9. CASE CommitWithdrawal(c)
  <2>1. adoption[w] \in Receipts
    BY <1>1, <1>9 DEF CommitWithdrawal, Decided, Withdraws, TypeOK, TablesOK
  <2> QED
    BY <1>1, <1>2, <1>9, <2>1 DEF CommitWithdrawal, PublishChild, TypeOK, TablesOK
<1>10. CASE CommitReconciliation(c)
  <2>1. DecisionsOf(call[c]) \subseteq DecisionRows
    BY <1>1, <1>10 DEF CommitReconciliation, DecisionRows, RequestsOf
  <2> QED
    BY <1>1, <1>2, <1>10, <2>1 DEF CommitReconciliation, PublishChild, TypeOK, TablesOK
<1>11. CASE Rollback(c)
  BY <1>1, <1>2, <1>11 DEF Rollback, TypeOK, TablesOK
<1>12. CommitBeginning(c) => call[c].kind \in {"adopt", "init"}
  BY DEF CommitBeginning
<1> QED
  BY <1>3, <1>4, <1>5, <1>6, <1>7, <1>8, <1>9, <1>10, <1>11, <1>12 DEF WriteStep

-----------------------------------------------------------------------------
(* Locks.                                                                  *)

(* Locks keep who holds what over every step.                              *)
LEMMA LocksStep ==
    ASSUME TypeOK, LocksHeld, NEW c \in Clients, QuietStep(c) \/ WriteStep(c)
    PROVE  LocksHeld'
<1>0. None \notin Clients
  BY WorldAdoptionAssumption DEF Parameters
<1>a. \A d \in Clients : WorldHeld(d) /\ TablesHeld(d) /\ LedgerHeld(d)
  BY DEF LocksHeld
<1>b. TableOwner
  BY DEF LocksHeld
<1>c. Others(c)
  BY OneClient
<1> USE DEF WorldHeld, TablesHeld, LedgerHeld, TableOwner, NeedsTables
<1>1. CASE Finishes(c) \/ WriteStep(c)
  <2>0. Ended(c)
    BY <1>1, WritesEnd DEF Finishes
  <2>1. /\ worldLock' = [w \in Worlds |-> IF worldLock[w] = c THEN None ELSE worldLock[w]]
        /\ tableLock' = IF tableLock = c THEN None ELSE tableLock
        /\ pc'[c] \in {"idle", "recovering"}
    BY <2>0, EndFacts
  <2>2. TableOwner'
    <3>1. SUFFICES ASSUME tableLock' # None
                   PROVE  pc'[tableLock'] \in {"deciding", "committing"}
                          /\ NeedsTables(call'[tableLock'])
      OBVIOUS
    <3>2. tableLock' = tableLock /\ tableLock # c /\ tableLock \in Clients
      BY <2>1, <3>1 DEF TypeOK, TablesOK
    <3> QED
      BY <1>b, <1>c, <3>1, <3>2 DEF Others
  <2>3. ASSUME NEW d \in Clients PROVE WorldHeld(d)' /\ TablesHeld(d)' /\ LedgerHeld(d)'
    <3>1. CASE d = c
      BY <2>1, <3>1
    <3>2. CASE d # c
      <4>1. pc'[d] = pc[d] /\ call'[d] = call[d]
        BY <1>c, <3>2 DEF Others
      <4>2. pc[d] # "idle" => call[d].world \in Worlds
        BY WorldAdoptionAssumption DEF Parameters, TypeOK, ClientsOK
      <4> QED
        BY <1>0, <1>a, <2>1, <3>2, <4>1, <4>2
    <3> QED
      BY <3>1, <3>2
  <2> QED
    BY <2>2, <2>3 DEF LocksHeld
<1>2. CASE LockWorld(c)
  <2> DEFINE w == call[c].world
  <2>1. /\ pc[c] = "locking" /\ worldLock[w] = None /\ KeyShared(w) = {}
        /\ worldLock' = [worldLock EXCEPT ![w] = c]
        /\ pc' = [pc EXCEPT ![c] = IF NeedsTables(call[c]) THEN "locking tables" ELSE "deciding"]
        /\ tableLock' = tableLock /\ call' = call
    BY <1>2 DEF LockWorld
  <2>2. call[c] \in Requests /\ w \in Worlds
    BY <2>1, WorldAdoptionAssumption DEF Parameters, TypeOK, ClientsOK
  <2>3. TableOwner'
    <3>1. tableLock # c
      BY <1>b, <1>0, <2>1
    <3> QED
      BY <1>b, <2>1, <3>1, <1>c DEF TypeOK, TablesOK, Others
  <2>4. ASSUME NEW d \in Clients PROVE WorldHeld(d)' /\ TablesHeld(d)' /\ LedgerHeld(d)'
    <3>1. CASE d = c
      BY <2>1, <2>2, <3>1 DEF TypeOK, TablesOK, ClientsOK
    <3>2. CASE d # c
      <4>1. pc'[d] = pc[d] /\ call'[d] = call[d]
        BY <1>c, <3>2 DEF Others
      <4>2. pc[d] # "idle" => call[d].world \in Worlds
        BY WorldAdoptionAssumption DEF Parameters, TypeOK, ClientsOK
      <4>3. WorldHeld(d)'
        BY <1>0, <1>a, <2>1, <2>2, <4>1, <4>2 DEF TypeOK, TablesOK
      <4>4. pc[d] = "committing" /\ call[d].kind = "append" => call[d].world # w
        BY <2>1 DEF KeyShared
      <4>5. LedgerHeld(d)'
        BY <1>a, <2>1, <2>2, <4>1, <4>2, <4>4 DEF TypeOK, TablesOK
      <4> QED
        BY <1>a, <2>1, <4>1, <4>3, <4>5
    <3> QED
      BY <3>1, <3>2
  <2> QED
    BY <2>3, <2>4 DEF LocksHeld
<1>3. CASE LockTables(c)
  <2>1. /\ pc[c] = "locking tables" /\ tableLock = None /\ Inserting = {} /\ tableLock' = c
        /\ pc' = [pc EXCEPT ![c] = "deciding"] /\ worldLock' = worldLock /\ call' = call
    BY <1>3 DEF LockTables
  <2>2. NeedsTables(call[c])
    BY <2>1 DEF TypeOK, ClientsOK
  <2>3. TableOwner'
    BY <2>1, <2>2 DEF TypeOK, ClientsOK
  <2>4. ASSUME NEW d \in Clients PROVE WorldHeld(d)' /\ TablesHeld(d)' /\ LedgerHeld(d)'
    <3>1. CASE d = c
      BY <1>a, <2>1, <2>2, <3>1 DEF TypeOK, ClientsOK
    <3>2. CASE d # c
      <4>1. pc'[d] = pc[d] /\ call'[d] = call[d]
        BY <1>c, <3>2 DEF Others
      <4>2. ~(pc[d] \in {"referencing", "committing"} /\ call[d].kind = "append")
        BY <2>1 DEF Inserting
      <4>3. ~(pc[d] \in {"deciding", "committing"} /\ NeedsTables(call[d]))
        BY <1>0, <1>a, <2>1
      <4> QED
        BY <1>a, <2>1, <4>1, <4>2, <4>3
    <3> QED
      BY <3>1, <3>2
  <2> QED
    BY <2>3, <2>4 DEF LocksHeld
<1>4. CASE InsertContribution(c) \/ ReferenceWorld(c)
  <2>1. UNCHANGED locks /\ call' = call /\ call[c].kind = "append" /\ pc[c] # "deciding"
        /\ \/ pc[c] = "inserting" /\ pc' = [pc EXCEPT ![c] = "referencing"] /\ TablesOpen(c)
           \/ /\ pc[c] = "referencing" /\ pc' = [pc EXCEPT ![c] = "committing"]
              /\ worldLock[call[c].world] = None
    BY <1>4 DEF InsertContribution, ReferenceWorld, To, TypeOK, ClientsOK
  <2>2. tableLock # c
    BY <1>b, <1>0, <2>1
  <2>3. TableOwner'
    BY <1>b, <1>c, <2>1, <2>2 DEF locks, TypeOK, TablesOK, Others
  <2>4. tableLock = None
    BY <1>a, <2>1, <2>2 DEF TablesOpen
  <2>5. ASSUME NEW d \in Clients PROVE WorldHeld(d)' /\ TablesHeld(d)' /\ LedgerHeld(d)'
    <3>1. CASE d = c
      BY <2>1, <2>4, <3>1 DEF TypeOK, ClientsOK, locks
    <3>2. CASE d # c
      BY <1>a, <1>c, <2>1, <3>2 DEF Others, locks
    <3> QED
      BY <3>1, <3>2
  <2> QED
    BY <2>3, <2>5 DEF LocksHeld
<1>5. CASE Decides(c)
  <2>1. UNCHANGED locks /\ call' = call /\ call[c].kind # "append"
        /\ pc[c] = "deciding" /\ pc' = [pc EXCEPT ![c] = "committing"]
    BY <1>5 DEF Decides, To
  <2>2. TableOwner'
    BY <1>b, <1>c, <2>1 DEF locks, TypeOK, TablesOK, ClientsOK, Others
  <2>3. ASSUME NEW d \in Clients PROVE WorldHeld(d)' /\ TablesHeld(d)' /\ LedgerHeld(d)'
    <3>1. CASE d = c
      BY <1>a, <2>1, <3>1 DEF TypeOK, ClientsOK, locks
    <3>2. CASE d # c
      BY <1>a, <1>c, <2>1, <3>2 DEF Others, locks
    <3> QED
      BY <3>1, <3>2
  <2> QED
    BY <2>2, <2>3 DEF LocksHeld
<1>6. CASE Call(c) \/ StartsLocking(c) \/ ReadsReceipt(c) \/ CheckContributions(c) \/ CheckDecisions(c)
  <2>1. UNCHANGED locks
        /\ pc[c] \notin {"deciding", "committing", "referencing"}
        /\ pc'[c] \notin {"locking tables", "deciding", "committing", "referencing"}
    <3>1. CASE Call(c)
      BY <3>1 DEF Call, First, TypeOK, ClientsOK
    <3>2. CASE StartsLocking(c)
      BY <3>2 DEF StartsLocking, To, TypeOK, ClientsOK
    <3>3. CASE ReadsReceipt(c) \/ CheckContributions(c) \/ CheckDecisions(c)
      BY <3>3 DEF ReadsReceipt, CheckReceipt, CheckContributions, CheckDecisions, TypeOK, ClientsOK
    <3> QED
      BY <1>6, <3>1, <3>2, <3>3
  <2>2. TableOwner'
    <3>1. tableLock # c
      BY <1>b, <1>0, <2>1
    <3> QED
      BY <1>b, <1>c, <2>1, <3>1 DEF locks, TypeOK, TablesOK, Others
  <2>3. ASSUME NEW d \in Clients PROVE WorldHeld(d)' /\ TablesHeld(d)' /\ LedgerHeld(d)'
    <3>1. CASE d = c
      BY <2>1, <3>1
    <3>2. CASE d # c
      BY <1>a, <1>c, <2>1, <3>2 DEF Others, locks
    <3> QED
      BY <3>1, <3>2
  <2> QED
    BY <2>2, <2>3 DEF LocksHeld
<1> QED
  BY <1>1, <1>2, <1>3, <1>4, <1>5, <1>6 DEF QuietStep

(* Whoever writes, no other client is committing to the same world, unless *)
(* the one or the other appends.                                           *)
LEMMA WritersApart ==
    ASSUME TypeOK, LocksHeld, NEW c \in Clients, WriteStep(c), NEW d \in Clients \ {c},
           pc[d] \in {"locking tables", "deciding", "committing"}, call[d].kind # "append"
    PROVE  call[d].world \in Worlds \ {call[c].world}
<1>1. /\ pc[c] \in {"deciding", "committing"} /\ call[c].world \in Worlds
      /\ call[d].world \in Worlds
  BY WriteLocal, WorldAdoptionAssumption DEF Parameters, TypeOK, ClientsOK
<1>2. pc[c] = "deciding" => call[c].kind # "append"
  BY DEF WriteStep, Appends, Puts, CommitBeginning, CommitPromotion, CommitRepair,
     CommitWithdrawal, CommitReconciliation, Rollback
<1>3. worldLock[call[d].world] = d
  BY DEF LocksHeld, WorldHeld
<1>4. worldLock[call[c].world] \in {c, None}
  BY <1>1, <1>2 DEF LocksHeld, WorldHeld, LedgerHeld
<1> QED
  BY <1>1, <1>3, <1>4, WorldAdoptionAssumption DEF Parameters

-----------------------------------------------------------------------------
(* Time passes.                                                            *)

(* What a step may do to the rows of a world that has stood for a while.   *)
Ages(w) ==
    /\ revisions[w] \subseteq revisions'[w]
    /\ contributions[w] \subseteq contributions'[w] /\ decisions[w] \subseteq decisions'[w]
    /\ \A s \in sources[w] : \E t \in sources'[w] :
          t.id = s.id /\ (s.as = "repaired" => t.as = "repaired")
    /\ adoption[w] # None =>
          /\ adoption'[w] # None /\ adoption'[w].bundle = adoption[w].bundle
          /\ adoption[w].form = "v4" =>
                adoption'[w] = adoption[w] /\ sources[w] \subseteq sources'[w]

(* Rows are added to a world, never taken away: a repair only classifies   *)
(* sources anew, and of a world whose receipt is not yet repaired.         *)
LEMMA AgesStep ==
    ASSUME TypeOK, NEW c \in Clients, QuietStep(c) \/ WriteStep(c), Decided(c), NEW w \in Worlds
    PROVE  Ages(w)
<1> USE DEF Ages, history, graph, receipts
<1>0. None \notin Receipts
  BY WorldAdoptionAssumption DEF Parameters, Receipts
<1>1. CASE QuietStep(c)
  BY <1>1, QuietTables DEF Quiet
<1>2. CASE WriteStep(c) /\ w # call[c].world
  BY <1>2, WriteLocal DEF Elsewhere
<1>3. CASE WriteStep(c) /\ w = call[c].world
  <2>1. CASE Appends(c) \/ Puts(c) \/ Rollback(c)
    BY <1>3, <2>1 DEF Appends, Puts, Rollback, TypeOK, TablesOK
  <2>2. CASE CommitWithdrawal(c) \/ CommitReconciliation(c)
    BY <1>3, <2>2 DEF CommitWithdrawal, CommitReconciliation, PublishChild, TypeOK, TablesOK
  <2>3. CASE CommitBeginning(c)
    <3>1. adoption[w] = None
      BY <1>3, <2>3 DEF CommitBeginning, Decided, Pristine
    <3>2. /\ revisions[w] \subseteq revisions'[w] /\ contributions[w] \subseteq contributions'[w]
          /\ decisions[w] \subseteq decisions'[w] /\ sources[w] \subseteq sources'[w]
      BY <1>3, <2>3 DEF CommitBeginning, WriteAdoption, WriteInitialization, Begin, TypeOK, TablesOK
    <3> QED
      BY <3>1, <3>2
  <2>4. CASE CommitPromotion(c)
    <3>1. adoption[w] = Receipt(call[c].bundle, "v2") /\ adoption[w] \in Receipts \cup {None}
      BY <1>3, <2>4 DEF CommitPromotion, Decided, Promotes, TypeOK, TablesOK
    <3>2. adoption'[w] = [bundle |-> adoption[w].bundle, form |-> "v3",
                          targets |-> adoption[w].targets]
      BY <1>3, <2>4 DEF CommitPromotion, TypeOK, TablesOK
    <3>3. adoption[w] # None => adoption'[w] \in Receipts
      BY <3>1, <3>2 DEF Receipts, Forms
    <3>4. adoption[w].form # "v4"
      BY <3>1 DEF Receipt
    <3>5. UNCHANGED <<history, graph>>
      BY <2>4 DEF CommitPromotion
    <3> QED
      BY <1>0, <3>2, <3>3, <3>4, <3>5
  <2>5. CASE CommitRepair(c)
    <3>1. adoption[w] = Receipt(call[c].bundle, "v3") /\ adoption[w] \in Receipts \cup {None}
      BY <1>3, <2>5 DEF CommitRepair, Decided, Repairs, TypeOK, TablesOK
    <3>2. adoption'[w] = [bundle |-> adoption[w].bundle, form |-> "v4",
                          targets |-> call[c].targets]
      BY <1>3, <2>5 DEF CommitRepair, TypeOK, TablesOK
    <3>3. adoption'[w] \in Receipts
      <4>1. call[c] \in Requests /\ call[c].kind = "repair"
        BY <1>3, <2>5, WriteLocal DEF CommitRepair
      <4>2. adoption[w].bundle \in Bundles /\ call[c].targets \in Targets
        BY <3>1, <4>1 DEF Receipt, Bundles, Targets, RequestsOf
      <4> QED
        BY <3>2, <4>2 DEF Receipts, Forms
    <3>4. adoption[w].form # "v4"
      BY <3>1 DEF Receipt
    <3>5. sources'[w] = RepairedRows(sources[w], call[c].targets)
          /\ UNCHANGED <<contributions, decisions, graph>>
      BY <1>3, <2>5 DEF CommitRepair, TypeOK, TablesOK
    <3>6. \A s \in sources[w] : \E t \in sources'[w] :
             t.id = s.id /\ (s.as = "repaired" => t.as = "repaired")
      <4>1. SUFFICES ASSUME NEW s \in sources[w]
                     PROVE  \E t \in sources'[w] :
                               t.id = s.id /\ (s.as = "repaired" => t.as = "repaired")
        OBVIOUS
      <4> DEFINE t == IF s.id \in call[c].targets THEN [s EXCEPT !.as = "repaired"] ELSE s
      <4>2. s \in SourceRows
        BY <4>1, <1>3 DEF TypeOK, TablesOK
      <4>3. t.id = s.id /\ (s.as = "repaired" => t.as = "repaired")
        BY <4>2 DEF SourceRows
      <4>4. t \in sources'[w]
        BY <3>5 DEF RepairedRows
      <4> QED
        BY <4>3, <4>4
    <3> QED
      BY <1>0, <3>2, <3>3, <3>4, <3>5, <3>6
  <2> QED
    BY <1>3, <2>1, <2>2, <2>3, <2>4, <2>5 DEF WriteStep
<1> QED
  BY <1>1, <1>2, <1>3

(* The ids of stored sources stay.                                         *)
LEMMA StoredStays ==
    ASSUME NEW w \in Worlds, Ages(w)
    PROVE  Stored(w) \subseteq Stored(w)'
BY DEF Ages, Stored

-----------------------------------------------------------------------------
(* Clients.                                                                *)

(* What was asked for stays admissible until the call ends.                *)
LEMMA AskedStep ==
    ASSUME TypeOK, HeadStored, NEW c \in Clients, QuietStep(c) \/ WriteStep(c),
           \A w \in Worlds : Ages(w), NEW d \in Clients, Asked(d)
    PROVE  Asked(d)'
<1>1. pc[d] # "idle" => call[d].world \in Worlds
  BY WorldAdoptionAssumption DEF Parameters, TypeOK, ClientsOK
<1>2. CASE pc'[d] # "idle" /\ pc[d] # "idle" /\ call'[d] = call[d] /\ parent'[d] = parent[d]
  <2>1. revisions[call[d].world] \subseteq revisions'[call[d].world]
    BY <1>1, <1>2 DEF Ages
  <2> QED
    BY <1>2, <2>1 DEF Asked
<1>3. CASE pc'[d] = "idle"
  BY <1>3 DEF Asked
<1>4. CASE d # c
  BY <1>2, <1>3, <1>4, OneClient DEF Others
<1>5. CASE d = c /\ Call(c)
  <2>1. PICK q \in Requests :
           /\ pc' = [pc EXCEPT ![c] = First(q)] /\ call' = [call EXCEPT ![c] = q]
           /\ parent' = [parent EXCEPT ![c] = head[q.world]]
           /\ q.kind \in {"withdraw", "reconcile", "rollback"} => head[q.world] # None
           /\ q.kind = "reconcile" => RebindAllowed(head[q.world].graph, q.map)
           /\ q.kind = "adopt" => BundleClosed(q.bundle)
           /\ q.kind = "init" => InitializationAllowed(q.sources, q.assertions)
           /\ revisions' = revisions
    BY <1>5 DEF Call, graph
  <2>2. q.world \in Worlds
    BY WorldAdoptionAssumption DEF Parameters
  <2>3. call'[c] = q /\ parent'[c] = head[q.world]
    BY <2>1 DEF TypeOK, ClientsOK
  <2>4. q.kind \in {"withdraw", "reconcile"} => head[q.world] \in revisions[q.world]
    BY <2>1, <2>2 DEF HeadStored
  <2> QED
    BY <1>5, <2>1, <2>3, <2>4 DEF Asked
<1>6. CASE d = c /\ (Finishes(c) \/ WriteStep(c))
  <2>1. Ended(c) /\ pc[c] # "idle"
    BY <1>6, WritesEnd, WriteLocal DEF Finishes
  <2> QED
    BY <1>2, <1>3, <1>6, <2>1, EndFacts
<1>7. CASE /\ d = c
           /\ \/ StartsLocking(c) \/ LockWorld(c) \/ LockTables(c)
              \/ InsertContribution(c) \/ ReferenceWorld(c) \/ Decides(c)
              \/ ReadsReceipt(c) \/ CheckContributions(c) \/ CheckDecisions(c)
  <2>1. pc[c] # "idle" /\ call' = call /\ parent' = parent
    BY <1>7 DEF StartsLocking, To, LockWorld, LockTables, InsertContribution, ReferenceWorld,
       Decides, ReadsReceipt, CheckReceipt, CheckContributions, CheckDecisions
  <2> QED
    BY <1>2, <1>3, <1>7, <2>1
<1> QED
  BY <1>4, <1>5, <1>6, <1>7 DEF QuietStep

(* What was decided holds until it is written.                             *)
LEMMA DecidedStep ==
    ASSUME TypeOK, LocksHeld, NEW c \in Clients, QuietStep(c) \/ WriteStep(c),
           NEW d \in Clients, Decided(d)
    PROVE  Decided(d)'
<1> DEFINE w == call[d].world
<1>1. CASE d # c /\ WriteStep(c) /\ pc[d] = "committing" /\ call[d].kind # "append"
  <2>1. w \in Worlds \ {call[c].world}
    BY <1>1, WritersApart
  <2>2. /\ sources'[w] = sources[w] /\ contributions'[w] = contributions[w]
        /\ decisions'[w] = decisions[w] /\ revisions'[w] = revisions[w] /\ head'[w] = head[w]
        /\ adoption'[w] = adoption[w] /\ initialization'[w] = initialization[w]
    BY <1>1, <2>1, WriteLocal DEF Elsewhere
  <2>3. pc'[d] = pc[d] /\ call'[d] = call[d] /\ parent'[d] = parent[d]
    BY <1>1, OneClient DEF Others
  <2> QED
    BY <2>2, <2>3 DEF Decided, Pristine, Promotes, Repairs, Withdraws, Membership
<1>2. CASE d # c /\ ~(WriteStep(c) /\ pc[d] = "committing" /\ call[d].kind # "append")
  <2>1. pc'[d] = pc[d] /\ call'[d] = call[d] /\ parent'[d] = parent[d]
    BY <1>2, OneClient DEF Others
  <2>2. CASE ~(pc[d] = "committing" /\ call[d].kind # "append")
    BY <2>1, <2>2 DEF Decided
  <2>3. CASE QuietStep(c)
    BY <2>1, <2>3, QuietTables DEF Quiet, history, graph, receipts, Decided, Pristine, Promotes,
       Repairs, Withdraws, Membership
  <2> QED
    BY <1>2, <2>2, <2>3
<1>3. CASE d = c /\ Decides(c)
  <2>1. Quiet /\ call' = call /\ parent' = parent
    BY <1>3 DEF Decides, To, Quiet
  <2> QED
    BY <1>3, <2>1 DEF Quiet, history, graph, receipts, Decides, Decided, Pristine, Promotes,
       Repairs, Withdraws, Membership
<1>4. CASE d = c /\ ReferenceWorld(c)
  <2>1. call'[c].kind = "append"
    BY <1>4 DEF ReferenceWorld, To, TypeOK, ClientsOK
  <2> QED
    BY <1>4, <2>1 DEF Decided
<1>5. CASE d = c /\ ~Decides(c) /\ ~ReferenceWorld(c)
  <2>1. pc'[c] # "committing"
    <3>1. CASE Finishes(c) \/ WriteStep(c)
      <4>1. Ended(c)
        BY <3>1, WritesEnd DEF Finishes
      <4> QED
        BY <4>1, EndFacts
    <3>2. CASE Call(c) \/ StartsLocking(c) \/ LockWorld(c) \/ LockTables(c)
      BY <3>2 DEF Call, First, StartsLocking, To, LockWorld, LockTables, TypeOK, ClientsOK
    <3>3. CASE InsertContribution(c) \/ ReadsReceipt(c) \/ CheckContributions(c) \/ CheckDecisions(c)
      BY <3>3 DEF InsertContribution, To, ReadsReceipt, CheckReceipt, CheckContributions,
         CheckDecisions, TypeOK, ClientsOK
    <3> QED
      BY <1>5, <3>1, <3>2, <3>3 DEF QuietStep
  <2> QED
    BY <1>5, <2>1 DEF Decided
<1> QED
  BY <1>1, <1>2, <1>3, <1>4, <1>5

-----------------------------------------------------------------------------
(* Histories.                                                              *)

(* A revision that is stored stays explained.                              *)
LEMMA RevisionStays ==
    ASSUME NEW w \in Worlds, Ages(w), NEW r \in revisions[w], RevisionSound(w, r)
    PROVE  RevisionSound(w, r)'
<1>1. Stored(w) \subseteq Stored(w)' /\ revisions[w] \subseteq revisions'[w]
  BY StoredStays DEF Ages
<1> QED
  BY <1>1 DEF RevisionSound, Derived

(* A child that edits the parent a client has read is explained by it.     *)
LEMMA ChildSound ==
    ASSUME TypeOK, RevisionsSound, NEW w \in Worlds, Ages(w), NEW p \in revisions[w],
           NEW e \in Edits, NEW g, IsPayload(g), WellFormed(g), Evidence(g) \subseteq Evidence(p.graph),
           \A o \in p.graph.rels : o.id \notin e.rels =>
              \E n \in g.rels : n.id = o.id /\ n.evidence = o.evidence,
           e.kind = "reconcile" => /\ Cardinality(g.rels) = Cardinality(p.graph.rels)
                                   /\ g.objects \cap {x[1] : x \in e.map} = {}
    PROVE  RevisionSound(w, [path |-> Append(p.path, e), graph |-> g])'
<1> DEFINE r == [path |-> Append(p.path, e), graph |-> g]
<1>1. /\ p.path \in Seq(Edits) /\ Evidence(p.graph) \subseteq Stored(w)
  BY DEF RevisionsSound, RevisionSound
<1>2. /\ r.path \in Seq(Edits) /\ r.path # <<>> /\ Last(r.path) = e /\ Front(r.path) = p.path
  BY <1>1, AppendFacts
<1>3. r.graph = g
  OBVIOUS
<1> HIDE DEF r
<1>4. Evidence(g) \subseteq Stored(w)'
  BY <1>1, StoredStays
<1>5. p \in revisions'[w]
  BY DEF Ages
<1>6. Derived(w, r)'
  BY <1>2, <1>3, <1>5 DEF Derived
<1>7. RevisionSound(w, r)'
  BY <1>2, <1>3, <1>4, <1>6 DEF RevisionSound
<1> QED
  BY <1>7 DEF r

(* What the bundle or the review of a beginning makes of its sources.      *)
LEMMA BeginningSound ==
    ASSUME TypeOK, NEW c \in Clients, CommitBeginning(c), Asked(c), NEW w, w = call[c].world
    PROVE  \E r : /\ revisions' = [revisions EXCEPT ![w] = @ \cup {r}]
                  /\ head' = [head EXCEPT ![w] = r]
                  /\ RevisionSound(w, r)'
<1>1. PICK q : q = call[c]
  OBVIOUS
<1>2. w \in Worlds /\ q \in Requests /\ pc[c] # "idle"
  BY <1>1, WriteLocal DEF WriteStep, CommitBeginning
<1>3. CASE q.kind = "adopt"
  <2>1. PICK b : b = q.bundle
    OBVIOUS
  <2>2. WriteAdoption(q) /\ BundleClosed(b)
    BY <1>1, <1>2, <1>3, <2>1 DEF CommitBeginning, Asked
  <2>3. b \in Bundles
    BY <1>2, <1>3, <2>1 DEF Bundles
  <2>4. IsPayload(b.graph) /\ WellFormed(b.graph) /\ Evidence(b.graph) \subseteq b.sources
    BY <2>2, <2>3, WorldAdoptionAssumption DEF Parameters, BundleClosed
  <2>5. PICK r : r = AdoptedRevision(b)
    OBVIOUS
  <2>6. /\ revisions' = [revisions EXCEPT ![w] = @ \cup {r}] /\ head' = [head EXCEPT ![w] = r]
        /\ sources' = [sources EXCEPT ![w] = @ \cup Sealed(b)]
    BY <1>1, <2>1, <2>2, <2>5 DEF WriteAdoption, Begin
  <2>7. b.sources \subseteq {s.id : s \in sources'[w]}
    <3>1. sources'[w] = sources[w] \cup Sealed(b)
      BY <1>2, <2>6 DEF TypeOK, TablesOK
    <3>2. SUFFICES ASSUME NEW s \in b.sources PROVE \E t \in sources'[w] : t.id = s
      OBVIOUS
    <3>3. [id |-> s, as |-> "sealed"] \in sources'[w]
      BY <3>1 DEF Sealed
    <3> QED
      BY <3>3
  <2>8. Operation("adopt", b.id, {}, <<>>) \in Edits
    BY <2>3 DEF Edits
  <2>9. /\ r.path \in Seq(Edits) /\ r.path # <<>> /\ ~(Len(r.path) > 1) /\ r.graph = b.graph
    BY <2>5, <2>8, FirstPath DEF AdoptedRevision
  <2>10. RevisionSound(w, r)'
    BY <2>4, <2>7, <2>9 DEF RevisionSound, Derived, Stored
  <2> QED
    BY <2>6, <2>10
<1>4. CASE q.kind = "init"
  <2> DEFINE rows == {[id |-> s, as |-> "sealed"] : s \in q.sources}
  <2>1. WriteInitialization(q) /\ InitializationAllowed(q.sources, q.assertions)
    BY <1>1, <1>2, <1>4 DEF CommitBeginning, Asked
  <2>2. q \in RequestsOf("init")
    BY <1>2, <1>4 DEF RequestsOf
  <2>3. IsFiniteSet(q.assertions)
    BY <2>2, WorldAdoptionAssumption DEF Parameters
  <2>4. PICK g : g = FirstGraph(q.assertions)
    OBVIOUS
  <2>5. IsPayload(g) /\ WellFormed(g) /\ Evidence(g) \subseteq q.sources
    BY <2>1, <2>3, <2>4, FirstGraphSound
  <2>6. PICK e : e = Operation("init", q.id, {}, <<>>)
    OBVIOUS
  <2>7. e \in Edits
    BY <2>2, <2>6 DEF Edits
  <2>8. PICK r : r = [path |-> <<e>>, graph |-> g]
    OBVIOUS
  <2>9. /\ revisions' = [revisions EXCEPT ![w] = @ \cup {r}] /\ head' = [head EXCEPT ![w] = r]
        /\ sources' = [sources EXCEPT ![w] = @ \cup rows]
    BY <1>1, <2>1, <2>4, <2>6, <2>8 DEF WriteInitialization, Begin
  <2>10. q.sources \subseteq {s.id : s \in sources'[w]}
    <3>1. sources'[w] = sources[w] \cup rows
      BY <1>2, <2>9 DEF TypeOK, TablesOK
    <3>2. SUFFICES ASSUME NEW s \in q.sources PROVE \E t \in sources'[w] : t.id = s
      OBVIOUS
    <3>3. [id |-> s, as |-> "sealed"] \in sources'[w]
      BY <3>1
    <3> QED
      BY <3>3
  <2>11. /\ r.path \in Seq(Edits) /\ r.path # <<>> /\ ~(Len(r.path) > 1) /\ r.graph = g
    BY <2>7, <2>8, FirstPath
  <2>12. RevisionSound(w, r)'
    BY <2>5, <2>10, <2>11 DEF RevisionSound, Derived, Stored
  <2> QED
    BY <2>9, <2>12
<1> QED
  BY <1>1, <1>3, <1>4 DEF CommitBeginning

(* The child of a withdrawal or of a rebind.                               *)
LEMMA EditSound ==
    ASSUME TypeOK, RevisionsSound, NEW c \in Clients, Asked(c),
           CommitWithdrawal(c) \/ CommitReconciliation(c), NEW w, w = call[c].world, Ages(w)
    PROVE  \E r : /\ revisions' = [revisions EXCEPT ![w] = @ \cup {r}]
                  /\ head' = [head EXCEPT ![w] = r]
                  /\ RevisionSound(w, r)'
                  /\ CommitWithdrawal(c) =>
                        r.path = Append(parent[c].path,
                                        Operation("withdraw", call[c].id, {call[c].rel}, <<>>))
<1>1. PICK q, p : q = call[c] /\ p = parent[c]
  OBVIOUS
<1>2. w \in Worlds /\ q \in Requests /\ pc[c] # "idle"
  BY <1>1, WriteLocal DEF WriteStep, CommitWithdrawal, CommitReconciliation
<1>3. p \in revisions[w]
  BY <1>1, <1>2 DEF Asked, CommitWithdrawal, CommitReconciliation
<1>4. IsPayload(p.graph) /\ WellFormed(p.graph)
  BY <1>2, <1>3 DEF RevisionsSound, RevisionSound
<1>5. CASE CommitWithdrawal(c)
  <2>1. PICK e, g : e = Operation("withdraw", q.id, {q.rel}, <<>>) /\ g = Withdraw(p.graph, q.rel)
    OBVIOUS
  <2>2. PICK r : r = [path |-> Append(p.path, e), graph |-> g]
    OBVIOUS
  <2>3. /\ revisions' = [revisions EXCEPT ![w] = @ \cup {r}] /\ head' = [head EXCEPT ![w] = r]
    BY <1>1, <1>5, <2>1, <2>2 DEF CommitWithdrawal, PublishChild
  <2>4. e \in Edits
    BY <1>1, <1>2, <1>5, <2>1 DEF Edits, RequestsOf, CommitWithdrawal
  <2>5. e.kind # "reconcile" /\ e.rels = {q.rel}
    BY <2>1 DEF Operation
  <2>6. /\ IsPayload(g) /\ WellFormed(g) /\ Evidence(g) \subseteq Evidence(p.graph)
        /\ \A o \in p.graph.rels : o.id # q.rel => o \in g.rels
    BY <1>4, <2>1, WithdrawSound
  <2>7. RevisionSound(w, r)'
    BY <1>2, <1>3, <2>2, <2>4, <2>5, <2>6, ChildSound
  <2>8. r.path = Append(parent[c].path,
                        Operation("withdraw", call[c].id, {call[c].rel}, <<>>))
    BY <1>1, <2>1, <2>2
  <2> QED
    BY <2>3, <2>7, <2>8
<1>6. CASE CommitReconciliation(c)
  <2>1. PICK e, g : e = Operation("reconcile", q.id, {}, q.map) /\ g = Rebind(p.graph, q.map)
    OBVIOUS
  <2>2. PICK r : r = [path |-> Append(p.path, e), graph |-> g]
    OBVIOUS
  <2>3. /\ revisions' = [revisions EXCEPT ![w] = @ \cup {r}] /\ head' = [head EXCEPT ![w] = r]
    BY <1>1, <1>6, <2>1, <2>2 DEF CommitReconciliation, PublishChild
  <2>4. e \in Edits
    BY <1>1, <1>2, <1>6, <2>1 DEF Edits, RequestsOf, CommitReconciliation
  <2>5. e.rels = {} /\ {x[1] : x \in e.map} \subseteq DOMAIN q.map
    BY <2>1 DEF Operation
  <2>6. RebindAllowed(p.graph, q.map)
    BY <1>1, <1>2, <1>6 DEF Asked, CommitReconciliation
  <2>7. /\ IsPayload(g) /\ WellFormed(g) /\ Evidence(g) \subseteq Evidence(p.graph)
        /\ Cardinality(g.rels) = Cardinality(p.graph.rels)
        /\ g.objects \cap DOMAIN q.map = {}
        /\ \A o \in p.graph.rels : \E n \in g.rels : n.id = o.id /\ n.evidence = o.evidence
    BY <1>4, <2>1, <2>6, RebindSound
  <2>8. g.objects \cap {x[1] : x \in e.map} = {}
    BY <2>5, <2>7
  <2>9. RevisionSound(w, r)'
    BY <1>2, <1>3, <2>2, <2>4, <2>5, <2>7, <2>8, ChildSound
  <2>10. ~CommitWithdrawal(c)
    BY <1>6 DEF CommitReconciliation, CommitWithdrawal
  <2> QED
    BY <2>3, <2>9, <2>10
<1> QED
  BY <1>5, <1>6

(* A head names a stored revision, and every stored revision is explained. *)
LEMMA HistoriesStep ==
    ASSUME TypeOK, HeadStored, RevisionsSound, NEW c \in Clients, QuietStep(c) \/ WriteStep(c),
           Asked(c), \A w \in Worlds : Ages(w)
    PROVE  HeadStored' /\ RevisionsSound'
<1>1. \A w \in Worlds : \A r \in revisions[w] : RevisionSound(w, r)'
  BY RevisionStays DEF RevisionsSound
<1>2. CASE QuietStep(c) \/ Appends(c) \/ Puts(c) \/ CommitPromotion(c) \/ CommitRepair(c)
  <2>1. revisions' = revisions /\ head' = head
    BY <1>2, QuietTables DEF Quiet, graph, Appends, Puts, CommitPromotion, CommitRepair
  <2> QED
    BY <1>1, <2>1 DEF HeadStored, RevisionsSound
<1>3. CASE Rollback(c)
  <2>1. PICK v, r : /\ v \in Worlds /\ r \in revisions[v]
                    /\ head' = [head EXCEPT ![v] = r] /\ revisions' = revisions
    BY <1>3, WriteLocal DEF Rollback, WriteStep
  <2> QED
    BY <1>1, <2>1 DEF HeadStored, RevisionsSound, TypeOK, TablesOK
<1>4. CASE CommitBeginning(c) \/ CommitWithdrawal(c) \/ CommitReconciliation(c)
  <2>1. PICK v : v = call[c].world
    OBVIOUS
  <2>2. v \in Worlds
    BY <1>4, <2>1, WriteLocal DEF WriteStep
  <2>3. PICK r : /\ revisions' = [revisions EXCEPT ![v] = @ \cup {r}]
                 /\ head' = [head EXCEPT ![v] = r]
                 /\ RevisionSound(v, r)'
    BY <1>4, <2>1, <2>2, BeginningSound, EditSound
  <2>4. \A w \in Worlds : revisions'[w] = IF w = v THEN revisions[w] \cup {r} ELSE revisions[w]
    BY <2>3 DEF TypeOK, TablesOK
  <2>5. \A w \in Worlds : head'[w] = IF w = v THEN r ELSE head[w]
    BY <2>3 DEF TypeOK, TablesOK
  <2>6. HeadStored'
    BY <2>4, <2>5 DEF HeadStored
  <2>7. \A w \in Worlds : \A x \in revisions'[w] : RevisionSound(w, x)'
    BY <1>1, <2>3, <2>4
  <2> QED
    BY <2>6, <2>7 DEF RevisionsSound
<1> QED
  BY <1>2, <1>3, <1>4 DEF WriteStep

-----------------------------------------------------------------------------
(* Receipts.                                                               *)

(* A receipt of a bundle that is asked for is a receipt, and not None.     *)
LEMMA ReceiptKnown ==
    ASSUME NEW b \in Bundles, NEW form \in Forms
    PROVE  Receipt(b, form) \in Receipts /\ Receipt(b, form) # None
<1>1. Receipt(b, form) \in Receipts
  BY DEF Receipt, Receipts, Targets
<1> QED
  BY <1>1, WorldAdoptionAssumption DEF Parameters, Receipts

(* A repair turns the sealed rows of a manifest into the effective ones.   *)
LEMMA RepairedManifest ==
    ASSUME NEW b, NEW targets, NEW rows \in SUBSET SourceRows,
           {s \in rows : s.id \in b.sources} = Sealed(b)
    PROVE  {s \in RepairedRows(rows, targets) : s.id \in b.sources} = Effective(b, targets)
<1> DEFINE Classified(s) == IF s.id \in targets THEN [s EXCEPT !.as = "repaired"] ELSE s
           As(i) == [id |-> i, as |-> IF i \in targets THEN "repaired" ELSE "sealed"]
<1>1. /\ RepairedRows(rows, targets) = {Classified(s) : s \in rows}
      /\ Effective(b, targets) = {As(i) : i \in b.sources}
  BY DEF RepairedRows, Effective
<1>2. \A i \in b.sources : [id |-> i, as |-> "sealed"] \in rows
  BY DEF Sealed
<1>3. \A s \in rows : s.id \in b.sources => s = [id |-> s.id, as |-> "sealed"]
  BY DEF Sealed
<1>4. \A s \in rows : Classified(s).id = s.id
  BY DEF SourceRows
<1>5. \A i : Classified([id |-> i, as |-> "sealed"]) = As(i)
  OBVIOUS
<1>6. \A i : As(i).id = i
  OBVIOUS
<1> HIDE DEF Classified, As
<1>7. \A s \in {Classified(x) : x \in rows} : s.id \in b.sources => s \in {As(i) : i \in b.sources}
  BY <1>3, <1>4, <1>5
<1>8. \A i \in b.sources : As(i) \in {Classified(s) : s \in rows} /\ As(i).id \in b.sources
  BY <1>2, <1>5, <1>6
<1> QED
  BY <1>1, <1>7, <1>8

(* Before a repair the effective rows are the sealed ones.                 *)
LEMMA EffectiveSealed ==
    ASSUME NEW b
    PROVE  Effective(b, {}) = Sealed(b)
BY DEF Effective, Sealed

(* What a world adopted is among its rows as its receipt classifies it.    *)
LEMMA AdoptedStep ==
    ASSUME TypeOK, NEW c \in Clients, QuietStep(c) \/ WriteStep(c), Decided(c), NEW w \in Worlds,
           Ages(w), AdoptedHeld(w)
    PROVE  AdoptedHeld(w)'
<1>1. CASE adoption'[w] = adoption[w] /\ sources[w] \subseteq sources'[w]
  BY <1>1 DEF AdoptedHeld, Ages
<1>2. CASE QuietStep(c)
  BY <1>1, <1>2, QuietTables DEF Quiet, history, receipts
<1>3. CASE WriteStep(c) /\ w # call[c].world
  BY <1>1, <1>3, WriteLocal DEF Elsewhere
<1>4. CASE WriteStep(c) /\ w = call[c].world
  <2> USE DEF history, graph, receipts
  <2>1. CASE Appends(c) \/ Puts(c) \/ Rollback(c) \/ CommitWithdrawal(c) \/ CommitReconciliation(c)
    BY <1>1, <1>4, <2>1 DEF Appends, Puts, Rollback, CommitWithdrawal, CommitReconciliation, TypeOK,
       TablesOK
  <2>2. CASE CommitBeginning(c) /\ WriteInitialization(call[c])
    BY <1>1, <1>4, <2>2 DEF WriteInitialization, Begin, TypeOK, TablesOK
  <2>3. CASE CommitBeginning(c) /\ WriteAdoption(call[c])
    <3>1. PICK b, f : /\ b = call[c].bundle /\ f \in {"v1", "v3"}
                      /\ adoption' = [adoption EXCEPT ![w] = Receipt(b, f)]
      BY <1>4, <2>3 DEF WriteAdoption
    <3>2. /\ adoption'[w].bundle = b /\ adoption'[w].targets = {}
      BY <3>1 DEF Receipt, TypeOK, TablesOK
    <3>3. /\ sources'[w] = sources[w] \cup Sealed(b)
          /\ contributions'[w] = contributions[w] \cup b.contributions
          /\ decisions'[w] = decisions[w] \cup b.decisions
      BY <1>4, <2>3, <3>1 DEF WriteAdoption, Begin, TypeOK, TablesOK
    <3> QED
      BY <3>2, <3>3, EffectiveSealed DEF AdoptedHeld
  <2>4. CASE CommitPromotion(c)
    <3>1. adoption[w] = Receipt(call[c].bundle, "v2") /\ adoption[w] # None
      <4>1. adoption[w] = Receipt(call[c].bundle, "v2")
        BY <1>4, <2>4 DEF CommitPromotion, Decided, Promotes
      <4>2. call[c].bundle \in Bundles
        BY <1>4, <2>4, WriteLocal DEF CommitPromotion, Bundles
      <4> QED
        BY <4>1, <4>2, ReceiptKnown DEF Forms
    <3>2. adoption'[w] = [bundle |-> adoption[w].bundle, form |-> "v3",
                          targets |-> adoption[w].targets]
      BY <1>4, <2>4 DEF CommitPromotion, TypeOK, TablesOK
    <3>3. adoption[w].form # "v4" /\ UNCHANGED <<history, graph>>
      BY <2>4, <3>1 DEF CommitPromotion, Receipt
    <3> QED
      BY <3>1, <3>2, <3>3 DEF AdoptedHeld
  <2>5. CASE CommitRepair(c)
    <3>1. PICK b, T : b = call[c].bundle /\ T = call[c].targets
      OBVIOUS
    <3>2. /\ adoption[w] = Receipt(b, "v3")
          /\ {s \in sources[w] : s.id \in b.sources} = Sealed(b)
      BY <1>4, <2>5, <3>1 DEF CommitRepair, Decided, Repairs, OfManifest, Membership,
         SealedMembership
    <3>3. /\ adoption'[w] = [bundle |-> b, form |-> "v4", targets |-> T]
          /\ sources'[w] = RepairedRows(sources[w], T)
          /\ UNCHANGED <<contributions, decisions>>
      BY <1>4, <2>5, <3>1, <3>2 DEF CommitRepair, Receipt, TypeOK, TablesOK
    <3>4. Effective(b, T) \subseteq sources'[w]
      BY <3>2, <3>3, RepairedManifest DEF TypeOK, TablesOK
    <3>5. b.contributions \subseteq contributions[w] /\ b.decisions \subseteq decisions[w]
      BY <1>4, <2>5, <3>1 DEF CommitRepair, Decided, Repairs, OfManifest, Membership,
         SealedMembership
    <3> QED
      BY <3>3, <3>4, <3>5 DEF AdoptedHeld
  <2> QED
    BY <1>4, <2>1, <2>2, <2>3, <2>4, <2>5 DEF WriteStep, CommitBeginning
<1> QED
  BY <1>2, <1>3, <1>4

(* The receipt of a withdrawal stays verifiable.                           *)
LEMMA WithdrawalsStep ==
    ASSUME TypeOK, RevisionsSound, WithdrawalsStand, NEW c \in Clients,
           QuietStep(c) \/ WriteStep(c), Asked(c), Decided(c), \A w \in Worlds : Ages(w)
    PROVE  WithdrawalsStand'
<1>0. None \notin Receipts
  BY WorldAdoptionAssumption DEF Parameters, Receipts
<1>1. \A x \in withdrawals : WithdrawalStands(x)'
  <2>1. SUFFICES ASSUME NEW x \in withdrawals PROVE WithdrawalStands(x)'
    OBVIOUS
  <2>2. x.world \in Worlds /\ x.adoption \in Receipts /\ WithdrawalStands(x)
    BY DEF TypeOK, TablesOK, WithdrawalsStand
  <2>3. adoption[x.world] # None /\ adoption[x.world].form = "v4"
    BY <1>0, <2>2 DEF WithdrawalStands
  <2>4. adoption'[x.world] = adoption[x.world] /\ revisions[x.world] \subseteq revisions'[x.world]
    BY <2>2, <2>3 DEF Ages
  <2> QED
    BY <2>2, <2>4 DEF WithdrawalStands
<1>2. CASE ~CommitWithdrawal(c)
  <2>1. withdrawals' = withdrawals
    BY <1>2, QuietTables DEF Quiet, receipts, WriteStep, Appends, Puts, CommitBeginning,
       WriteAdoption, WriteInitialization, CommitPromotion, CommitRepair, CommitReconciliation,
       Rollback
  <2> QED
    BY <1>1, <2>1 DEF WithdrawalsStand
<1>3. CASE CommitWithdrawal(c)
  <2>1. PICK w : w = call[c].world
    OBVIOUS
  <2>2. w \in Worlds
    BY <1>3, <2>1, WriteLocal DEF WriteStep
  <2>3. PICK r : /\ revisions' = [revisions EXCEPT ![w] = @ \cup {r}]
                 /\ r.path = Append(parent[c].path,
                                    Operation("withdraw", call[c].id, {call[c].rel}, <<>>))
    BY <1>3, <2>1, <2>2, EditSound
  <2>4. r \in revisions'[w]
    BY <2>2, <2>3 DEF TypeOK, TablesOK
  <2>5. PICK x : x = [world |-> w, id |-> call[c].id, rel |-> call[c].rel, parent |-> parent[c],
                      adoption |-> adoption[w]]
    OBVIOUS
  <2>6. withdrawals' = withdrawals \cup {x} /\ adoption' = adoption
    BY <1>3, <2>1, <2>5 DEF CommitWithdrawal
  <2>7. adoption[w].form = "v4"
    BY <1>3, <2>1 DEF CommitWithdrawal, Decided, Withdraws
  <2>8. WithdrawalStands(x)'
    BY <2>3, <2>4, <2>5, <2>6, <2>7 DEF WithdrawalStands
  <2> QED
    BY <1>1, <2>6, <2>8 DEF WithdrawalsStand
<1> QED
  BY <1>2, <1>3

-----------------------------------------------------------------------------
(* Checks.                                                                 *)

Checking == {"checking contributions", "checking decisions", "checking sources"}

(* What a check has read grows old without becoming wrong.                 *)
LEMMA SeenAges ==
    ASSUME TypeOK, NEW d \in Clients, SeenReceipt(d), SeenMoment(d), \A w \in Worlds : Ages(w),
           pc'[d] = pc[d], call'[d] = call[d], seen'[d] = seen[d]
    PROVE  SeenReceipt(d)' /\ SeenMoment(d)'
<1>1. CASE pc[d] \notin Checking
  BY <1>1 DEF Checking, SeenReceipt, SeenMoment
<1>2. CASE pc[d] \in Checking
  <2>1. PICK w, r : w = call[d].world /\ r = seen[d].receipt
    OBVIOUS
  <2>2. w \in Worlds
    BY <1>2, <2>1, WorldAdoptionAssumption DEF Checking, Parameters, TypeOK, ClientsOK
  <2>3. /\ r \in Receipts /\ adoption[w] # None /\ adoption[w].bundle = r.bundle
        /\ r.form = "v4" => adoption[w] = r
        /\ r.form # "v4" => r.targets = {}
    BY <1>2, <2>1 DEF Checking, SeenReceipt
  <2>4. Ages(w)
    BY <2>2
  <2>5. /\ adoption'[w] # None /\ adoption'[w].bundle = r.bundle
        /\ r.form = "v4" => adoption'[w] = r /\ sources[w] \subseteq sources'[w]
    BY <2>3, <2>4 DEF Ages
  <2>6. SeenReceipt(d)'
    BY <2>1, <2>3, <2>5 DEF SeenReceipt
  <2>7. SeenMoment(d)'
    <3>1. CASE pc[d] = "checking contributions"
      BY <3>1 DEF SeenMoment
    <3>2. CASE pc[d] # "checking contributions"
      <4>1. PICK m : m = seen[d].moment
        OBVIOUS
      <4>2. /\ m = [sources |-> m.sources, contributions |-> m.contributions,
                    decisions |-> m.decisions]
            /\ m.sources \subseteq SourceRows
            /\ seen[d].contributions = m.contributions
            /\ r.bundle.contributions \subseteq m.contributions
            /\ r.bundle.decisions \subseteq m.decisions /\ m.decisions \subseteq decisions[w]
            /\ r.bundle.sources \subseteq {s.id : s \in m.sources}
            /\ pc[d] = "checking sources" => m.decisions \subseteq seen[d].decisions
        BY <1>2, <2>1, <3>2, <4>1 DEF Checking, SeenMoment
      <4>3. \A s \in m.sources : \E t \in sources[w] :
               t.id = s.id /\ (s.as = "repaired" => t.as = "repaired")
        BY <1>2, <2>1, <3>2, <4>1 DEF Checking, SeenMoment
      <4>4. \A t \in sources[w] : \E u \in sources'[w] :
               u.id = t.id /\ (t.as = "repaired" => u.as = "repaired")
        BY <2>4 DEF Ages
      <4>5. \A s \in m.sources : \E u \in sources'[w] :
               u.id = s.id /\ (s.as = "repaired" => u.as = "repaired")
        <5>1. TAKE s \in m.sources
        <5>2. PICK t \in sources[w] : t.id = s.id /\ (s.as = "repaired" => t.as = "repaired")
          BY <4>3
        <5> QED
          BY <4>4, <5>2
      <4>6. m.decisions \subseteq decisions'[w]
        BY <2>4, <4>2 DEF Ages
      <4>7. r.form = "v4" => /\ Effective(r.bundle, r.targets) \subseteq m.sources
                             /\ m.sources \subseteq sources'[w]
        BY <1>2, <2>1, <2>5, <3>2, <4>1 DEF Checking, SeenMoment
      <4>8. /\ seen'[d].receipt = r /\ seen'[d].moment = m /\ call'[d].world = w
            /\ seen'[d].contributions = seen[d].contributions
            /\ seen'[d].decisions = seen[d].decisions /\ pc'[d] = pc[d]
        BY <2>1, <4>1
      <4> QED
        BY <4>2, <4>5, <4>6, <4>7, <4>8 DEF SeenMoment
    <3> QED
      BY <3>1, <3>2
  <2> QED
    BY <2>6, <2>7
<1> QED
  BY <1>1, <1>2

(* A check reads the receipt.                                              *)
LEMMA SeesReceipt ==
    ASSUME TypeOK, NEW c \in Clients, ReadsReceipt(c), \A w \in Worlds : AdoptedHeld(w)
    PROVE  SeenReceipt(c)' /\ SeenMoment(c)'
<1>1. PICK w : w = call[c].world
  OBVIOUS
<1>2. pc[c] # "idle" /\ call[c] \in Requests
  BY DEF ReadsReceipt, CheckReceipt, TypeOK, ClientsOK
<1>3. w \in Worlds
  BY <1>1, <1>2, WorldAdoptionAssumption DEF Parameters
<1>4. /\ seen' = [seen EXCEPT ![c] = [receipt |-> adoption[w]]]
      /\ pc' = [pc EXCEPT ![c] = "checking contributions"]
      /\ call' = call /\ adoption' = adoption /\ adoption[w] # None
  BY <1>1 DEF ReadsReceipt, CheckReceipt, receipts
<1>5. seen'[c].receipt = adoption[w] /\ pc'[c] = "checking contributions"
  BY <1>4 DEF TypeOK, ClientsOK
<1>6. adoption[w] \in Receipts /\ (adoption[w].form # "v4" => adoption[w].targets = {})
  BY <1>3, <1>4 DEF AdoptedHeld, TypeOK, TablesOK
<1> QED
  BY <1>1, <1>4, <1>5, <1>6 DEF SeenReceipt, SeenMoment

(* It lists the contributions: the rows of this moment hold what the world *)
(* adopted.                                                                *)
LEMMA SeesMoment ==
    ASSUME TypeOK, NEW c \in Clients, CheckContributions(c), SeenReceipt(c),
           \A w \in Worlds : AdoptedHeld(w)
    PROVE  SeenReceipt(c)' /\ SeenMoment(c)'
<1>1. PICK w, r, m : w = call[c].world /\ r = seen[c].receipt /\ m = Membership(w)
  OBVIOUS
<1>2. pc[c] # "idle" /\ call[c] \in Requests
  BY DEF CheckContributions, TypeOK, ClientsOK
<1>3. w \in Worlds
  BY <1>1, <1>2, WorldAdoptionAssumption DEF Parameters
<1>4. /\ seen' = [seen EXCEPT ![c] = [receipt |-> r, contributions |-> contributions[w],
                                      moment |-> m]]
      /\ pc' = [pc EXCEPT ![c] = "checking decisions"]
      /\ call' = call /\ adoption' = adoption /\ sources' = sources /\ decisions' = decisions
  BY <1>1 DEF CheckContributions, receipts, history
<1>5. /\ seen'[c].receipt = r /\ seen'[c].contributions = contributions[w] /\ seen'[c].moment = m
      /\ pc'[c] = "checking decisions"
  BY <1>4 DEF TypeOK, ClientsOK
<1>6. /\ m = [sources |-> m.sources, contributions |-> m.contributions, decisions |-> m.decisions]
      /\ m.sources = sources[w] /\ m.contributions = contributions[w] /\ m.decisions = decisions[w]
  BY <1>1 DEF Membership
<1>7. /\ r \in Receipts /\ adoption[w] # None /\ adoption[w].bundle = r.bundle
      /\ r.form = "v4" => adoption[w] = r
      /\ r.form # "v4" => r.targets = {}
  BY <1>1 DEF CheckContributions, SeenReceipt
<1>8. /\ Effective(r.bundle, adoption[w].targets) \subseteq sources[w]
      /\ r.bundle.contributions \subseteq contributions[w]
      /\ r.bundle.decisions \subseteq decisions[w]
  BY <1>3, <1>7 DEF AdoptedHeld
<1>9. r.bundle.sources \subseteq {s.id : s \in sources[w]}
  <2>1. SUFFICES ASSUME NEW i \in r.bundle.sources PROVE \E s \in sources[w] : s.id = i
    OBVIOUS
  <2>2. [id |-> i, as |-> IF i \in adoption[w].targets THEN "repaired" ELSE "sealed"] \in sources[w]
    BY <1>8 DEF Effective
  <2> QED
    BY <2>2
<1>10. sources[w] \subseteq SourceRows
  BY <1>3 DEF TypeOK, TablesOK
<1>11. SeenReceipt(c)'
  BY <1>1, <1>4, <1>5, <1>7 DEF SeenReceipt
<1> HIDE DEF Membership
<1>12. SeenMoment(c)'
  BY <1>1, <1>4, <1>5, <1>6, <1>7, <1>8, <1>9, <1>10 DEF SeenMoment
<1> QED
  BY <1>11, <1>12

(* It lists the decisions.                                                 *)
LEMMA SeesDecisions ==
    ASSUME TypeOK, NEW c \in Clients, CheckDecisions(c), SeenReceipt(c), SeenMoment(c)
    PROVE  SeenReceipt(c)' /\ SeenMoment(c)'
<1>1. PICK w, r, m : w = call[c].world /\ r = seen[c].receipt /\ m = seen[c].moment
  OBVIOUS
<1>2. /\ seen' = [seen EXCEPT ![c] = [receipt |-> r, contributions |-> seen[c].contributions,
                                      moment |-> m, decisions |-> decisions[w]]]
      /\ pc[c] = "checking decisions" /\ pc' = [pc EXCEPT ![c] = "checking sources"]
      /\ call' = call /\ adoption' = adoption /\ sources' = sources /\ decisions' = decisions
  BY <1>1 DEF CheckDecisions, receipts, history
<1>3. /\ seen'[c].receipt = r /\ seen'[c].contributions = seen[c].contributions
      /\ seen'[c].moment = m /\ seen'[c].decisions = decisions[w]
      /\ pc'[c] = "checking sources"
  BY <1>2 DEF TypeOK, ClientsOK
<1>4. SeenReceipt(c)'
  BY <1>1, <1>2, <1>3 DEF SeenReceipt
<1>5. SeenMoment(c)'
  BY <1>1, <1>2, <1>3 DEF SeenMoment
<1> QED
  BY <1>4, <1>5

(* What the checks have seen holds after every step.                       *)
LEMMA SeenStep ==
    ASSUME TypeOK, SeenHolds, NEW c \in Clients, QuietStep(c) \/ WriteStep(c),
           \A w \in Worlds : AdoptedHeld(w) /\ Ages(w)
    PROVE  SeenHolds'
<1>1. SUFFICES ASSUME NEW d \in Clients PROVE SeenReceipt(d)' /\ SeenMoment(d)'
  BY DEF SeenHolds
<1>2. SeenReceipt(d) /\ SeenMoment(d)
  BY DEF SeenHolds
<1>3. CASE d # c
  BY <1>2, <1>3, OneClient, SeenAges DEF Others
<1>4. CASE d = c /\ (ReadsReceipt(c) \/ CheckContributions(c) \/ CheckDecisions(c))
  BY <1>2, <1>4, SeesReceipt, SeesMoment, SeesDecisions
<1>5. CASE d = c /\ ~(ReadsReceipt(c) \/ CheckContributions(c) \/ CheckDecisions(c))
  <2>1. pc'[c] \notin Checking
    <3>1. CASE Finishes(c) \/ WriteStep(c)
      <4>1. Ended(c)
        BY <3>1, WritesEnd DEF Finishes
      <4> QED
        BY <4>1, EndFacts DEF Checking
    <3>2. DOMAIN pc = Clients
      BY DEF TypeOK, ClientsOK
    <3>3. CASE Call(c)
      <4>1. PICK q : pc' = [pc EXCEPT ![c] = First(q)]
        BY <3>3 DEF Call
      <4>2. First(q) \notin Checking
        BY DEF First, Checking
      <4> QED
        BY <3>2, <4>1, <4>2
    <3>4. CASE \/ StartsLocking(c) \/ LockWorld(c) \/ LockTables(c)
               \/ InsertContribution(c) \/ ReferenceWorld(c) \/ Decides(c)
      <4>1. \/ pc' = [pc EXCEPT ![c] = "locking"] \/ pc' = [pc EXCEPT ![c] = "locking tables"]
            \/ pc' = [pc EXCEPT ![c] = "deciding"] \/ pc' = [pc EXCEPT ![c] = "referencing"]
            \/ pc' = [pc EXCEPT ![c] = "committing"]
        <5>1. CASE StartsLocking(c) \/ Decides(c)
          BY <5>1 DEF StartsLocking, Decides, To
        <5>2. CASE InsertContribution(c) \/ ReferenceWorld(c)
          BY <5>2 DEF InsertContribution, ReferenceWorld, To
        <5>3. CASE LockWorld(c) \/ LockTables(c)
          BY <5>3 DEF LockWorld, LockTables
        <5> QED
          BY <3>4, <5>1, <5>2, <5>3
      <4> QED
        BY <3>2, <4>1 DEF Checking
    <3> QED
      BY <1>5, <3>1, <3>3, <3>4 DEF QuietStep
  <2> QED
    BY <1>5, <2>1 DEF Checking, SeenReceipt, SeenMoment
<1> QED
  BY <1>3, <1>4, <1>5

-----------------------------------------------------------------------------
(* The invariant.                                                          *)

LEMMA InitInv ==
    ASSUME Init
    PROVE  IInv
<1>0. None \notin Receipts /\ None \notin Clients
  BY WorldAdoptionAssumption DEF Parameters, Receipts
<1>1. \A w \in Worlds : adoption[w] # None =>
         \E s \in Standing : adoption[w] = Receipt(s.bundle, s.form)
  BY DEF Init, Stands
<1>2. \A s \in Standing : /\ s.bundle \in Bundles /\ s.form \in Forms \ {"v4"}
                          /\ BundleClosed(s.bundle) /\ IsPayload(s.bundle.graph)
  BY WorldAdoptionAssumption DEF Parameters, Bundles
<1>3. \A w \in Worlds : adoption[w] # None =>
         /\ adoption[w] = [bundle |-> adoption[w].bundle, form |-> adoption[w].form, targets |-> {}]
         /\ adoption[w].bundle \in Bundles /\ adoption[w].form \in Forms \ {"v4"}
         /\ BundleClosed(adoption[w].bundle) /\ IsPayload(adoption[w].bundle.graph)
  <2>1. SUFFICES ASSUME NEW w \in Worlds, adoption[w] # None
                 PROVE  /\ adoption[w] = Receipt(adoption[w].bundle, adoption[w].form)
                        /\ adoption[w].bundle \in Bundles /\ adoption[w].form \in Forms \ {"v4"}
                        /\ BundleClosed(adoption[w].bundle) /\ IsPayload(adoption[w].bundle.graph)
    BY DEF Receipt
  <2>2. PICK s \in Standing : adoption[w] = Receipt(s.bundle, s.form)
    BY <1>1, <2>1
  <2>3. adoption[w].bundle = s.bundle /\ adoption[w].form = s.form
    BY <2>2 DEF Receipt
  <2> QED
    BY <1>2, <2>2, <2>3
<1>4. \A w \in Worlds : adoption[w] # None =>
         adoption[w] \in Receipts /\ adoption[w].targets = {} /\ adoption[w].form # "v4"
  <2>1. SUFFICES ASSUME NEW w \in Worlds, adoption[w] # None
                 PROVE  adoption[w] \in Receipts /\ adoption[w].targets = {}
                        /\ adoption[w].form # "v4"
    OBVIOUS
  <2>2. PICK b, f : /\ adoption[w] = [bundle |-> b, form |-> f, targets |-> {}]
                    /\ b \in Bundles /\ f \in Forms \ {"v4"}
    BY <1>3, <2>1
  <2>3. {} \in Targets
    BY DEF Targets
  <2> QED
    BY <2>2, <2>3 DEF Receipts
<1>5. \A w \in Worlds : LET b == adoption[w].bundle IN
         IF adoption[w] = None
         THEN /\ sources[w] = {} /\ contributions[w] = {} /\ decisions[w] = {}
              /\ revisions[w] = {} /\ head[w] = None
         ELSE /\ sources[w] = Sealed(b) /\ contributions[w] = b.contributions
              /\ decisions[w] = b.decisions
              /\ revisions[w] = {AdoptedRevision(b)} /\ head[w] = AdoptedRevision(b)
  BY DEF Init
<1>6. TablesOK
  <2>1. \A w \in Worlds : sources[w] \subseteq SourceRows
    <3>1. \A b \in Bundles : Sealed(b) \subseteq SourceRows
      BY DEF Sealed, SourceRows, SourceIds
    <3> QED
      BY <1>3, <1>5, <3>1
  <2>2. \A w \in Worlds : contributions[w] \subseteq LedgerRows /\ decisions[w] \subseteq DecisionRows
    <3>1. \A b \in Bundles : b.contributions \subseteq LedgerRows /\ b.decisions \subseteq DecisionRows
      BY DEF LedgerRows, DecisionRows
    <3> QED
      BY <1>3, <1>5, <3>1
  <2>3. /\ sources \in [Worlds -> SUBSET SourceRows]
        /\ contributions \in [Worlds -> SUBSET LedgerRows]
        /\ decisions \in [Worlds -> SUBSET DecisionRows]
        /\ DOMAIN revisions = Worlds /\ DOMAIN head = Worlds
    BY <2>1, <2>2 DEF Init
  <2>4. adoption \in [Worlds -> Receipts \cup {None}]
    BY <1>4 DEF Init
  <2> QED
    BY <2>3, <2>4 DEF Init, TablesOK
<1>7. ClientsOK
  <2>1. 0 \in 0..MaxCalls
    BY WorldAdoptionAssumption DEF Parameters
  <2> QED
    BY <2>1 DEF Init, ClientsOK, Stages
<1>8. LocksHeld /\ \A c \in Clients : Asked(c) /\ Decided(c)
  BY DEF Init, LocksHeld, TableOwner, WorldHeld, TablesHeld, LedgerHeld, Asked, Decided
<1>9. HeadStored
  BY <1>5 DEF HeadStored
<1>10. RevisionsSound
  <2>1. SUFFICES ASSUME NEW w \in Worlds, NEW r \in revisions[w] PROVE RevisionSound(w, r)
    BY DEF RevisionsSound
  <2>2. PICK b : b = adoption[w].bundle
    OBVIOUS
  <2>3. adoption[w] # None /\ r = AdoptedRevision(b) /\ sources[w] = Sealed(b)
    BY <1>5, <2>1, <2>2
  <2>4. /\ b \in Bundles /\ IsPayload(b.graph) /\ WellFormed(b.graph)
        /\ Evidence(b.graph) \subseteq b.sources
    BY <1>3, <2>2, <2>3 DEF BundleClosed
  <2>5. Operation("adopt", b.id, {}, <<>>) \in Edits
    BY <2>4 DEF Edits
  <2>6. /\ r.path \in Seq(Edits) /\ r.path # <<>> /\ ~(Len(r.path) > 1) /\ r.graph = b.graph
    BY <2>3, <2>5, FirstPath DEF AdoptedRevision
  <2>7. b.sources \subseteq {s.id : s \in sources[w]}
    <3>1. SUFFICES ASSUME NEW i \in b.sources PROVE \E s \in sources[w] : s.id = i
      OBVIOUS
    <3>2. [id |-> i, as |-> "sealed"] \in sources[w]
      BY <2>3 DEF Sealed
    <3> QED
      BY <3>2
  <2> QED
    BY <2>4, <2>6, <2>7 DEF RevisionSound, Derived, Stored
<1>11. WithdrawalsStand
  BY DEF Init, WithdrawalsStand
<1>12. \A w \in Worlds : AdoptedHeld(w)
  BY <1>4, <1>5, EffectiveSealed DEF AdoptedHeld
<1>13. SeenHolds
  <2>1. \A c \in Clients : pc[c] = "idle"
    BY DEF Init
  <2> QED
    BY <2>1 DEF SeenHolds, SeenReceipt, SeenMoment
<1> QED
  BY <1>6, <1>7, <1>8, <1>9, <1>10, <1>11, <1>12, <1>13 DEF IInv, TypeOK

LEMMA NextInv ==
    ASSUME IInv, Next
    PROVE  IInv'
<1>1. PICK c \in Clients : QuietStep(c) \/ WriteStep(c)
  BY NextCases
<1> USE DEF IInv
<1>2. TypeOK'
  BY <1>1, ClientsStep, QuietTables, WriteTables DEF TypeOK
<1>3. LocksHeld'
  BY <1>1, LocksStep
<1>4. \A w \in Worlds : Ages(w)
  BY <1>1, AgesStep
<1>5. \A d \in Clients : Asked(d)'
  BY <1>1, <1>4, AskedStep
<1>6. \A d \in Clients : Decided(d)'
  BY <1>1, DecidedStep
<1>7. HeadStored' /\ RevisionsSound'
  BY <1>1, <1>4, HistoriesStep
<1>8. WithdrawalsStand'
  BY <1>1, <1>4, WithdrawalsStep
<1>9. \A w \in Worlds : AdoptedHeld(w)'
  BY <1>1, <1>4, AdoptedStep
<1>10. SeenHolds'
  BY <1>1, <1>4, SeenStep
<1> QED
  BY <1>2, <1>3, <1>5, <1>6, <1>7, <1>8, <1>9, <1>10

LEMMA StutterInv ==
    ASSUME IInv, UNCHANGED vars
    PROVE  IInv'
<1> USE DEF vars, history, graph, receipts, locks
<1>1. TypeOK'
  BY DEF IInv, TypeOK, TablesOK, ClientsOK
<1>2. LocksHeld'
  BY DEF IInv, LocksHeld, TableOwner, WorldHeld, TablesHeld, LedgerHeld
<1>3. \A c \in Clients : Asked(c)' /\ Decided(c)'
  <2>1. \A c \in Clients : Asked(c)'
    BY DEF IInv, Asked
  <2>2. \A c \in Clients : Decided(c)'
    BY DEF IInv, Decided, Pristine, Promotes, Repairs, Withdraws, Membership
  <2> QED
    BY <2>1, <2>2
<1>4. HeadStored'
  BY DEF IInv, HeadStored
<1>5. RevisionsSound'
  <2>1. SUFFICES ASSUME NEW w \in Worlds, NEW r \in revisions[w] PROVE RevisionSound(w, r)'
    BY DEF RevisionsSound
  <2>2. RevisionSound(w, r)
    BY <2>1 DEF IInv, RevisionsSound
  <2> QED
    BY <2>2 DEF RevisionSound, Derived, Stored
<1>6. WithdrawalsStand' /\ \A w \in Worlds : AdoptedHeld(w)'
  BY DEF IInv, WithdrawalsStand, WithdrawalStands, AdoptedHeld
<1>7. \A c \in Clients : SeenReceipt(c)' /\ SeenMoment(c)'
  <2>1. SUFFICES ASSUME NEW c \in Clients PROVE SeenReceipt(c)' /\ SeenMoment(c)'
    OBVIOUS
  <2>2. SeenReceipt(c) /\ SeenMoment(c)
    BY DEF IInv, SeenHolds
  <2>3. SeenReceipt(c)'
    BY <2>2 DEF SeenReceipt
  <2>4. SeenMoment(c)'
    BY <2>2 DEF SeenMoment
  <2> QED
    BY <2>3, <2>4
<1> QED
  BY <1>1, <1>2, <1>3, <1>4, <1>5, <1>6, <1>7 DEF IInv, SeenHolds

LEMMA Inductive ==
    Spec => []IInv
<1>1. IInv /\ [Next]_vars => IInv'
  BY NextInv, StutterInv
<1> QED
  BY InitInv, <1>1, PTL DEF Spec

(* The types of the tables and of the clients: see TypeOK.                 *)
THEOREM TypeCorrect ==
    Spec => []TypeOK
<1>1. IInv => TypeOK
  BY DEF IInv
<1> QED
  BY Inductive, <1>1, PTL

-----------------------------------------------------------------------------
(* What follows.                                                           *)

(* Every stored payload of a world is closed and explained by the payload  *)
(* of the revision it extends, in adopted, reviewed, rebound and withdrawn *)
(* worlds alike, and the receipt of every withdrawal stays verifiable.     *)
THEOREM LineageAlwaysExplained ==
    Spec => []LineageExplained
<1>1. IInv => LineageExplained
  <2>1. SUFFICES ASSUME IInv PROVE LineageExplained
    OBVIOUS
  <2>2. \A w \in Worlds : \A r \in revisions[w] :
           /\ WellFormed(r.graph) /\ Evidence(r.graph) \subseteq {s.id : s \in sources[w]}
           /\ Derived(w, r)
    BY <2>1 DEF IInv, RevisionsSound, RevisionSound, Stored
  <2>3. \A x \in withdrawals : WithdrawalStands(x)
    BY <2>1 DEF IInv, WithdrawalsStand
  <2> QED
    BY <2>2, <2>3 DEF LineageExplained, Derived, WithdrawalStands
<1> QED
  BY Inductive, <1>1, PTL

(* The rows a world begins with are the rows of the bundle, or of the      *)
(* review, and no others: the pristine check of a beginning still holds    *)
(* when it commits.                                                        *)
THEOREM WorldsBeginAsReviewed ==
    Spec => BeginsAsReviewed
<1>1. ASSUME IInv, Next, NEW w \in Worlds
      PROVE  /\ adoption[w] = None /\ adoption'[w] # None =>
                   Membership(w)' = SealedMembership(adoption'[w].bundle)
             /\ initialization[w] = None /\ initialization'[w] # None =>
                   /\ {s.id : s \in sources'[w]} = initialization'[w].sources
                   /\ Cardinality(contributions'[w]) = 1
                   /\ decisions'[w] = {}
  <2>1. PICK c \in Clients : QuietStep(c) \/ WriteStep(c)
    BY <1>1, NextCases
  <2>2. TypeOK /\ Decided(c)
    BY <1>1 DEF IInv
  <2>3. CASE QuietStep(c)
    BY <2>2, <2>3, QuietTables DEF Quiet, receipts
  <2>4. CASE WriteStep(c) /\ w # call[c].world
    BY <2>2, <2>4, WriteLocal DEF Elsewhere
  <2>5. CASE /\ WriteStep(c)
             /\ ~CommitBeginning(c) /\ ~CommitPromotion(c) /\ ~CommitRepair(c)
    BY <2>5 DEF receipts, WriteStep, Appends, Puts, CommitWithdrawal, CommitReconciliation, Rollback
  <2>6. CASE CommitPromotion(c) /\ w = call[c].world
    <3>1. adoption[w] # None
      <4>1. adoption[w] = Receipt(call[c].bundle, "v2") /\ call[c].bundle \in Bundles
        BY <2>2, <2>6, WriteLocal DEF WriteStep, CommitPromotion, Decided, Promotes, Bundles
      <4> QED
        BY <4>1, ReceiptKnown DEF Forms
    <3> QED
      BY <2>6, <3>1 DEF CommitPromotion
  <2>7. CASE CommitRepair(c) /\ w = call[c].world
    <3>1. adoption[w] # None
      <4>1. adoption[w] = Receipt(call[c].bundle, "v3") /\ call[c].bundle \in Bundles
        BY <2>2, <2>7, WriteLocal DEF WriteStep, CommitRepair, Decided, Repairs, Bundles
      <4> QED
        BY <4>1, ReceiptKnown DEF Forms
    <3> QED
      BY <2>7, <3>1 DEF CommitRepair
  <2>8. CASE CommitBeginning(c) /\ w = call[c].world
    <3>1. contributions[w] = {} /\ decisions[w] = {} /\ sources[w] = {}
      BY <2>2, <2>8 DEF CommitBeginning, Decided, Pristine
    <3>2. CASE WriteAdoption(call[c])
      <4>1. PICK b, f : b = call[c].bundle /\ adoption' = [adoption EXCEPT ![w] = Receipt(b, f)]
        BY <2>8, <3>2 DEF WriteAdoption
      <4>2. adoption'[w].bundle = b
        BY <2>2, <4>1 DEF Receipt, TypeOK, TablesOK
      <4>3. /\ sources'[w] = Sealed(b) /\ contributions'[w] = b.contributions
            /\ decisions'[w] = b.decisions
        <5>1. /\ sources'[w] = sources[w] \cup Sealed(b)
              /\ contributions'[w] = contributions[w] \cup b.contributions
              /\ decisions'[w] = decisions[w] \cup b.decisions
          BY <2>2, <2>8, <3>2, <4>1 DEF WriteAdoption, Begin, TypeOK, TablesOK
        <5> QED
          BY <3>1, <5>1
      <4>4. initialization' = initialization
        BY <3>2 DEF WriteAdoption
      <4> QED
        BY <4>2, <4>3, <4>4 DEF Membership, SealedMembership
    <3>3. CASE WriteInitialization(call[c])
      <4>1. PICK q : q = call[c]
        OBVIOUS
      <4>2. /\ sources'[w] = {[id |-> s, as |-> "sealed"] : s \in q.sources}
            /\ contributions'[w] = {ReviewedContribution(q)} /\ decisions'[w] = {}
        BY <2>2, <2>8, <3>1, <3>3, <4>1 DEF WriteInitialization, Begin, TypeOK, TablesOK
      <4>3. initialization'[w] = [id |-> q.id, sources |-> q.sources, assertions |-> q.assertions]
        BY <2>2, <2>8, <3>3, <4>1 DEF WriteInitialization, TypeOK, TablesOK
      <4>4. {s.id : s \in sources'[w]} = q.sources
        <5> DEFINE Row(i) == [id |-> i, as |-> "sealed"]
        <5>1. sources'[w] = {Row(i) : i \in q.sources} /\ \A i : Row(i).id = i
          BY <4>2
        <5> HIDE DEF Row
        <5> QED
          BY <5>1
      <4>5. Cardinality(contributions'[w]) = 1
        BY <4>2, FS_Singleton
      <4>6. adoption' = adoption
        BY <3>3 DEF WriteInitialization
      <4> QED
        BY <4>2, <4>3, <4>4, <4>5, <4>6
    <3> QED
      BY <2>8, <3>2, <3>3 DEF CommitBeginning
  <2> QED
    BY <2>1, <2>3, <2>4, <2>5, <2>6, <2>7, <2>8
<1>2. IInv /\ [Next]_vars =>
         [\A w \in Worlds :
             /\ adoption[w] = None /\ adoption'[w] # None =>
                   Membership(w)' = SealedMembership(adoption'[w].bundle)
             /\ initialization[w] = None /\ initialization'[w] # None =>
                   /\ {s.id : s \in sources'[w]} = initialization'[w].sources
                   /\ Cardinality(contributions'[w]) = 1
                   /\ decisions'[w] = {}]_vars
  BY <1>1
<1> QED
  BY Inductive, <1>2, PTL DEF Spec, BeginsAsReviewed

(* A receipt keeps its bundle and advances only from v2 to v3 and from v3  *)
(* to v4, when the rows of its world correspond to what it then says.      *)
THEOREM ReceiptsAdvanceProved ==
    Spec => AdvancesProved
<1>1. ASSUME IInv, Next, NEW w \in Worlds, adoption[w] # None, adoption'[w] # adoption[w]
      PROVE  /\ adoption'[w] # None /\ adoption'[w].bundle = adoption[w].bundle
             /\ <<adoption[w].form, adoption'[w].form>> \in {<<"v2", "v3">>, <<"v3", "v4">>}
             /\ Corresponds(adoption'[w], Membership(w)')
  <2>1. PICK c \in Clients : QuietStep(c) \/ WriteStep(c)
    BY <1>1, NextCases
  <2>2. TypeOK /\ Decided(c)
    BY <1>1 DEF IInv
  <2>3. WriteStep(c) /\ w = call[c].world
    <3>1. ~QuietStep(c)
      BY <1>1, <2>2, QuietTables DEF Quiet, receipts
    <3> QED
      BY <1>1, <2>1, <2>2, <3>1, WriteLocal DEF Elsewhere
  <2>4. CommitPromotion(c) \/ CommitRepair(c)
    <3>1. ~CommitBeginning(c)
      BY <1>1, <2>2, <2>3 DEF CommitBeginning, Decided, Pristine
    <3> QED
      BY <1>1, <2>3, <3>1 DEF WriteStep, receipts, Appends, Puts, CommitWithdrawal,
         CommitReconciliation, Rollback
  <2>5. PICK b : b = call[c].bundle
    OBVIOUS
  <2>6. CASE CommitPromotion(c)
    <3>1. adoption[w] = Receipt(b, "v2") /\ Membership(w) = SealedMembership(b)
      BY <2>2, <2>3, <2>5, <2>6 DEF CommitPromotion, Decided, Promotes
    <3>2. adoption'[w] = Receipt(b, "v3")
      BY <1>1, <2>2, <2>6, <2>3, <3>1 DEF CommitPromotion, Receipt, TypeOK, TablesOK
    <3>3. b \in Bundles
      BY <2>2, <2>3, <2>5, <2>6, WriteLocal DEF CommitPromotion, Bundles
    <3>4. Membership(w)' = Membership(w)
      BY <2>6 DEF CommitPromotion, Membership, history
    <3>5. Corresponds(adoption'[w], Membership(w)')
      BY <3>1, <3>2, <3>4 DEF Corresponds, Receipt
    <3>6. adoption'[w] # None
      BY <3>2, <3>3, ReceiptKnown DEF Forms
    <3> QED
      BY <3>1, <3>2, <3>5, <3>6 DEF Receipt
  <2>7. CASE CommitRepair(c)
    <3>1. PICK T : T = call[c].targets
      OBVIOUS
    <3>2. /\ adoption[w] = Receipt(b, "v3")
          /\ OfManifest(Membership(w), b) = SealedMembership(b)
      BY <2>2, <2>3, <2>5, <2>7 DEF CommitRepair, Decided, Repairs
    <3>3. /\ {s \in sources[w] : s.id \in b.sources} = Sealed(b)
          /\ {k \in contributions[w] : \E l \in b.contributions : k.id = l.id} = b.contributions
          /\ decisions[w] \cap b.decisions = b.decisions
      BY <3>2 DEF OfManifest, Membership, SealedMembership
    <3>4. /\ adoption'[w] = [bundle |-> b, form |-> "v4", targets |-> T]
          /\ sources'[w] = RepairedRows(sources[w], T)
          /\ UNCHANGED <<contributions, decisions>>
      BY <1>1, <2>2, <2>3, <2>7, <3>1, <3>2 DEF CommitRepair, Receipt, TypeOK, TablesOK
    <3>5. {s \in sources'[w] : s.id \in b.sources} = Effective(b, T)
      BY <2>2, <3>3, <3>4, RepairedManifest DEF TypeOK, TablesOK
    <3>6. EffectiveMembership(b, T) = [sources |-> Effective(b, T),
                                       contributions |-> b.contributions,
                                       decisions |-> b.decisions]
      BY DEF EffectiveMembership, SealedMembership
    <3>7. OfManifest(Membership(w)', b) = EffectiveMembership(b, T)
      BY <3>3, <3>4, <3>5, <3>6 DEF OfManifest, Membership
    <3>8. b \in Bundles /\ T \in Targets
      BY <2>2, <2>3, <2>5, <2>7, <3>1, WriteLocal DEF CommitRepair, Bundles, Targets, RequestsOf
    <3>9. adoption'[w] # None
      BY <3>4, <3>8, WorldAdoptionAssumption DEF Parameters, Forms
    <3> QED
      BY <3>2, <3>4, <3>7, <3>9 DEF Corresponds, Receipt
  <2> QED
    BY <2>4, <2>6, <2>7
<1>2. IInv /\ [Next]_vars =>
         [\A w \in Worlds :
             adoption[w] # None /\ adoption'[w] # adoption[w] =>
               /\ adoption'[w] # None /\ adoption'[w].bundle = adoption[w].bundle
               /\ <<adoption[w].form, adoption'[w].form>> \in {<<"v2", "v3">>, <<"v3", "v4">>}
               /\ Corresponds(adoption'[w], Membership(w)')]_vars
  BY <1>1
<1> QED
  BY Inductive, <1>2, PTL DEF Spec, AdvancesProved

LEMMA EffectiveRecord ==
    ASSUME NEW b, NEW targets
    PROVE  LET e == EffectiveMembership(b, targets) IN
           /\ e = [sources |-> Effective(b, targets), contributions |-> b.contributions,
                   decisions |-> b.decisions]
           /\ e.sources = Effective(b, targets) /\ e.contributions = b.contributions
BY DEF EffectiveMembership, SealedMembership

(* A check that finds correspondence is right of the moment at which it    *)
(* listed the contributions.                                               *)
LEMMA ClassificationSound ==
    ASSUME IInv, NEW c \in Clients, pc[c] = "checking sources",
           Classification(c) \in {"CORRESPONDING", "STALE"}
    PROVE  LET r == seen[c].receipt
               named == OfManifest(seen[c].moment, r.bundle)
           IN  /\ named = EffectiveMembership(r.bundle, r.targets)
               /\ r.form # "v4" => seen[c].moment = named
<1>1. PICK w, r, b, T, m, n :
         /\ w = call[c].world /\ r = seen[c].receipt /\ b = r.bundle /\ T = r.targets
         /\ m = seen[c].moment /\ n = SeenMembership(c)
  OBVIOUS
<1>2. Corresponds(r, n)
  BY <1>1 DEF Classification
<1>3. /\ n.sources = sources[w] /\ n.contributions = m.contributions
      /\ n.decisions = seen[c].decisions
      /\ n = [sources |-> sources[w], contributions |-> m.contributions,
              decisions |-> seen[c].decisions]
  BY <1>1 DEF IInv, SeenHolds, SeenMoment, SeenMembership
<1>4. /\ m = [sources |-> m.sources, contributions |-> m.contributions, decisions |-> m.decisions]
      /\ m.sources \subseteq SourceRows
      /\ b.decisions \subseteq m.decisions /\ m.decisions \subseteq seen[c].decisions
      /\ b.sources \subseteq {s.id : s \in m.sources}
      /\ \A s \in m.sources : \E t \in sources[w] :
            t.id = s.id /\ (s.as = "repaired" => t.as = "repaired")
      /\ r.form = "v4" => /\ Effective(b, T) \subseteq m.sources
                          /\ m.sources \subseteq sources[w]
  BY <1>1 DEF IInv, SeenHolds, SeenMoment
<1>5. r.form # "v4" => T = {}
  BY <1>1 DEF IInv, SeenHolds, SeenReceipt
<1>6. EffectiveMembership(b, T) = [sources |-> Effective(b, T),
                                 contributions |-> b.contributions,
                                 decisions |-> b.decisions]
  BY EffectiveRecord
<1>7. OfManifest(m, b) =
        [sources |-> {s \in m.sources : s.id \in b.sources},
         contributions |-> {k \in m.contributions : \E l \in b.contributions : k.id = l.id},
         decisions |-> m.decisions \cap b.decisions]
  BY DEF OfManifest
<1>8. m.decisions \cap b.decisions = b.decisions
  BY <1>4
<1>9. CASE r.form = "v4"
  <2>1. OfManifest(n, b) = EffectiveMembership(b, T)
    BY <1>1, <1>2, <1>9 DEF Corresponds
  <2>2. /\ {s \in sources[w] : s.id \in b.sources} = Effective(b, T)
        /\ {k \in m.contributions : \E l \in b.contributions : k.id = l.id} = b.contributions
    <3>1. OfManifest(n, b).sources = Effective(b, T)
      BY <2>1, EffectiveRecord
    <3>2. OfManifest(n, b).contributions = b.contributions
      BY <2>1, EffectiveRecord
    <3> QED
      BY <1>3, <3>1, <3>2 DEF OfManifest
  <2>3. {s \in m.sources : s.id \in b.sources} = Effective(b, T)
    <3>1. \A s \in m.sources : s.id \in b.sources => s \in Effective(b, T)
      BY <1>4, <1>9, <2>2
    <3>2. \A s \in Effective(b, T) : s \in m.sources /\ s.id \in b.sources
      BY <1>4, <1>9, <2>2
    <3> QED
      BY <3>1, <3>2
  <2>4. OfManifest(m, b) = EffectiveMembership(b, T)
    BY <1>6, <1>7, <1>8, <2>2, <2>3
  <2> QED
    BY <1>1, <1>9, <2>4
<1>10. CASE r.form # "v4"
  <2>1. n = [sources |-> Sealed(b), contributions |-> b.contributions, decisions |-> b.decisions]
    BY <1>1, <1>2, <1>10 DEF Corresponds, SealedMembership
  <2>2. /\ sources[w] = Sealed(b) /\ m.contributions = b.contributions
        /\ seen[c].decisions = b.decisions
    <3>1. n.sources = Sealed(b) /\ n.contributions = b.contributions
      BY <2>1
    <3>2. n.decisions = b.decisions
      BY <2>1
    <3> QED
      BY <1>3, <3>1, <3>2
  <2>3. m.decisions = b.decisions
    BY <1>4, <2>2
  <2>4. \A t \in Sealed(b) : t.id \in b.sources /\ t = [id |-> t.id, as |-> "sealed"]
    <3>1. SUFFICES ASSUME NEW t \in Sealed(b)
                   PROVE  t.id \in b.sources /\ t = [id |-> t.id, as |-> "sealed"]
      OBVIOUS
    <3>2. PICK i \in b.sources : t = [id |-> i, as |-> "sealed"]
      BY DEF Sealed
    <3> QED
      BY <3>2
  <2>5. \A s \in m.sources : s.id \in b.sources /\ s = [id |-> s.id, as |-> "sealed"]
    <3>1. SUFFICES ASSUME NEW s \in m.sources
                   PROVE  s.id \in b.sources /\ s = [id |-> s.id, as |-> "sealed"]
      OBVIOUS
    <3>2. PICK t \in Sealed(b) : t.id = s.id /\ (s.as = "repaired" => t.as = "repaired")
      BY <1>4, <2>2
    <3>3. t.id \in b.sources /\ t.as = "sealed"
      <4>1. t = [id |-> t.id, as |-> "sealed"] /\ t.id \in b.sources
        BY <2>4
      <4>2. \A i : [id |-> i, as |-> "sealed"].as = "sealed"
        OBVIOUS
      <4> QED
        BY <4>1, <4>2
    <3>4. s \in SourceRows /\ s.as = "sealed"
      BY <1>4, <3>2, <3>3 DEF SourceRows
    <3> QED
      BY <3>2, <3>3, <3>4 DEF SourceRows
  <2>6. m.sources = Sealed(b)
    <3>1. \A t \in Sealed(b) : t \in m.sources
      <4>1. TAKE t \in Sealed(b)
      <4>2. PICK s \in m.sources : s.id = t.id
        BY <1>4, <2>4
      <4>3. s = [id |-> s.id, as |-> "sealed"] /\ t = [id |-> t.id, as |-> "sealed"]
        BY <2>4, <2>5
      <4> QED
        BY <4>2, <4>3
    <3>2. \A s \in m.sources : s \in Sealed(b)
      BY <2>5 DEF Sealed
    <3> QED
      BY <3>1, <3>2
  <2>7. Effective(b, T) = Sealed(b)
    BY <1>5, <1>10, EffectiveSealed
  <2>8. {s \in m.sources : s.id \in b.sources} = m.sources
    BY <2>5
  <2>9. {k \in m.contributions : \E l \in b.contributions : k.id = l.id} = m.contributions
    BY <2>2
  <2>10. OfManifest(m, b) = EffectiveMembership(b, T)
    BY <1>6, <1>7, <1>8, <2>2, <2>6, <2>7, <2>8, <2>9
  <2>11. OfManifest(m, b) = m
    BY <1>4, <1>7, <1>8, <2>3, <2>8, <2>9
  <2> QED
    BY <1>1, <2>10, <2>11
<1> QED
  BY <1>9, <1>10

(* A correspondence check, which reads the tables one by one while others  *)
(* write them, answers as of the moment at which it listed the             *)
(* contributions: what it reports missing was missing then.                *)
THEOREM ChecksClassifyAMoment ==
    Spec => ClassifiedAsOfAMoment
<1>1. IInv =>
         \A c \in Clients :
          pc[c] = "checking sources" /\ Classification(c) \in {"CORRESPONDING", "STALE"} =>
            LET r == seen[c].receipt
                named == OfManifest(seen[c].moment, r.bundle)
            IN  /\ named = EffectiveMembership(r.bundle, r.targets)
                /\ r.form # "v4" => seen[c].moment = named
  BY ClassificationSound
<1> QED
  BY Inductive, <1>1, PTL DEF Spec, ClassifiedAsOfAMoment
=============================================================================
