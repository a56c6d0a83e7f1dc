---------------------------- MODULE NativeGraph ----------------------------
(***************************************************************************)
(* The content of native knowledge revisions and what produces a child of  *)
(* one: the governed materialization of a reviewed contribution            *)
(* (application/vnext/materialization.py), the resolution of a prospective *)
(* contribution into an ordinary one (prospective.py), the extension of    *)
(* the evidence (native_source_extension.py), an additive transition of    *)
(* the semantic profile (profile_transition.py) and the empty genesis      *)
(* (initialization.py).  Each is a function of its parent and its input:   *)
(* the child, or Failed.                                                   *)
(*                                                                         *)
(* Simplifications:                                                        *)
(*  - A graph holds a set of entities, and assertions, aliases and         *)
(*    evidence by their id; payloads, digests and their round trips are    *)
(*    the graph itself.  An entity has nothing but its id.                 *)
(*  - Every id is a tuple, so that the id allocated to a prospective       *)
(*    result is the tuple its digest covers.                               *)
(*  - An assertion's metadata is what admission looks at; times, actors,   *)
(*    notes and payloads of domain metadata are left out, schema terms are *)
(*    kept.  A predicate is a pair of a namespace and a name.              *)
(*  - A descriptor stands for its reference and its digest.                *)
(***************************************************************************)
EXTENDS Naturals, Sequences, FiniteSets, SequencesExt

CONSTANT Failed         \* the result of what raises

-----------------------------------------------------------------------------
(* Graphs.                                                                 *)

EmptyGraph == [entities |-> {}, assertions |-> <<>>, aliases |-> <<>>, evidence |-> <<>>]

(* The entity an assertion's value refers to, if it does.                  *)
Target(a) == IF a.value.kind = "entity" THEN {a.value.of} ELSE {}

(* The integrity a revision is parsed with: every reference inside of it   *)
(* resolves.                                                               *)
WellFormed(g) ==
    /\ \A i \in DOMAIN g.aliases :
         /\ g.aliases[i].entity \in g.entities
         /\ g.aliases[i].evidence \subseteq DOMAIN g.evidence
    /\ \A i \in DOMAIN g.assertions :
         LET a == g.assertions[i] IN
         /\ {a.subject} \cup Target(a) \subseteq g.entities
         /\ a.evidence \subseteq DOMAIN g.evidence

(* Dictionaries: without some keys, with one more value, with the values   *)
(* of another one.                                                         *)
Without(f, keys) == [i \in DOMAIN f \ keys |-> f[i]]

Put(f, k, v) == [i \in DOMAIN f \cup {k} |-> IF i = k THEN v ELSE f[i]]

Joined(f, g) == [i \in DOMAIN f \cup DOMAIN g |-> IF i \in DOMAIN f THEN f[i] ELSE g[i]]

-----------------------------------------------------------------------------
(* Vocabularies: what a domain contract and a semantic profile declare.    *)

DeclaredLabels(v, labels) == v.mode = "public" \/ v.labels \subseteq labels

DomainPasses(a, domain) ==
    /\ \A b \in a.scope : b[1] \in domain.axes
    /\ DeclaredLabels(a.visibility, domain.labels)
    /\ a.mode \in domain.modes
    /\ a.temporal \subseteq domain.temporals
    /\ a.schemas \subseteq domain.metadata

(* A profile of version 2 without predicates restricts nothing; a fixed    *)
(* predicate decides alone; version 3 may leave namespaces open.           *)
ProfilePasses(a, profile) ==
    \/ profile.version = 2 /\ profile.fixed = <<>>
    \/ /\ a.predicate \in DOMAIN profile.fixed
       /\ a.value.kind \in profile.fixed[a.predicate]
    \/ /\ a.predicate \notin DOMAIN profile.fixed
       /\ profile.version = 3
       /\ a.predicate[1] \in DOMAIN profile.open
       /\ a.value.kind \in profile.open[a.predicate[1]]

VocabularyPasses(g, domain, profile) ==
    \A i \in DOMAIN g.assertions :
        DomainPasses(g.assertions[i], domain) /\ ProfilePasses(g.assertions[i], profile)

-----------------------------------------------------------------------------
(* The items of a contribution, one function for each kind.                *)

ProposeEntity(g, item) == [g EXCEPT !.entities = @ \cup {item.entity}]

(* A second proposal of the same assertion changes nothing.                *)
ProposeAssertion(g, item) ==
    IF item.id \notin DOMAIN g.assertions
    THEN [g EXCEPT !.assertions = Put(@, item.id, item.assertion)]
    ELSE IF g.assertions[item.id] = item.assertion THEN g ELSE Failed

RetractAssertion(g, item) ==
    IF item.target \in DOMAIN g.assertions
    THEN [g EXCEPT !.assertions = Without(@, {item.target})]
    ELSE Failed

SupersedeAssertion(g, item) ==
    IF item.target \notin DOMAIN g.assertions
       \/ (item.id \in DOMAIN g.assertions /\ item.id # item.target)
    THEN Failed
    ELSE [g EXCEPT !.assertions = Put(Without(@, {item.target}), item.id, item.assertion)]

(* The alias of a decision has the decision's id and no evidence.          *)
AliasOf(d) ==
    [entity |-> CHOOSE e \in d.subjects : TRUE, text |-> d.alias, evidence |-> {},
     standing |-> "established"]

AddAlias(g, d) ==
    IF Cardinality(d.subjects) # 1 \/ ~(d.subjects \subseteq g.entities) THEN Failed
    ELSE IF d.id \notin DOMAIN g.aliases
    THEN [g EXCEPT !.aliases = Put(@, d.id, AliasOf(d))]
    ELSE IF g.aliases[d.id] = AliasOf(d) THEN g ELSE Failed

RemoveAlias(g, d) ==
    LET removed == {i \in DOMAIN g.aliases :
                      g.aliases[i].entity \in d.subjects /\ g.aliases[i].text = d.alias}
    IN IF removed = {} THEN Failed ELSE [g EXCEPT !.aliases = Without(@, removed)]

(* An assertion after some entities became another one.                    *)
Redirect(a, gone, target) ==
    [a EXCEPT !.subject = IF @ \in gone THEN target ELSE @,
              !.value = IF Target(a) \cap gone # {} THEN [kind |-> "entity", of |-> target]
                        ELSE @]

Merge(g, d) ==
    LET gone == d.subjects \ {d.target} IN
    IF ~(d.subjects \cup {d.target} \subseteq g.entities) THEN Failed
    ELSE [entities |-> g.entities \ gone,
          assertions |-> [i \in DOMAIN g.assertions |-> Redirect(g.assertions[i], gone, d.target)],
          aliases |-> [i \in DOMAIN g.aliases |->
                         [g.aliases[i] EXCEPT !.entity = IF @ \in gone THEN d.target ELSE @]],
          evidence |-> g.evidence]

(* A rejected candidate changes nothing; a decision of another kind cannot *)
(* be materialized.                                                        *)
DecideIdentity(g, item, space) ==
    LET d == item.decision IN
    CASE d.space # space -> Failed
      [] d.space = space /\ d.kind = "reject_candidate" -> g
      [] d.space = space /\ d.kind = "alias_add" -> AddAlias(g, d)
      [] d.space = space /\ d.kind = "alias_remove" -> RemoveAlias(g, d)
      [] d.space = space /\ d.kind = "merge" -> Merge(g, d)
      [] OTHER -> Failed

Apply(g, item, space) ==
    CASE g = Failed -> Failed
      [] g # Failed /\ item.kind = "entity" -> ProposeEntity(g, item)
      [] g # Failed /\ item.kind = "assertion" -> ProposeAssertion(g, item)
      [] g # Failed /\ item.kind = "retract" -> RetractAssertion(g, item)
      [] g # Failed /\ item.kind = "supersede" -> SupersedeAssertion(g, item)
      [] g # Failed /\ item.kind = "identity" -> DecideIdentity(g, item, space)
      [] OTHER -> Failed

-----------------------------------------------------------------------------
(* Governed materialization.  A revision is a record of its space, its id, *)
(* its graph and the two descriptors it pins; dispositions are a set of    *)
(* records of an item, its verdict and the decisions it cites.             *)

ItemIds(c) == {c.items[n].item : n \in DOMAIN c.items}

(* Mutant: whatever was decided upon counts as accepted.                   *)
DecidedItems(dispositions) == {d.item : d \in {e \in dispositions : e.verdict # "unresolved"}}

AcceptedItems(dispositions) == {d.item : d \in {e \in dispositions : e.verdict = "accepted"}}

(* Exactly one disposition for every item, and none is unresolved.         *)
Disposed(c, dispositions) ==
    /\ Cardinality(ItemIds(c)) = Len(c.items)
    /\ Cardinality(dispositions) = Cardinality({d.item : d \in dispositions})
    /\ {d.item : d \in dispositions} = ItemIds(c)
    /\ \A d \in dispositions : d.verdict # "unresolved"

Decisions(c) == {n \in DOMAIN c.items : c.items[n].kind = "identity"}

(* Decision ids are unique, accepted decisions are active and supersede    *)
(* nothing, and only accepted decisions are cited.                         *)
DecisionsSound(c, dispositions) ==
    LET accepted == {n \in Decisions(c) : c.items[n].item \in AcceptedItems(dispositions)} IN
    /\ \A m, n \in Decisions(c) : c.items[m].decision.id = c.items[n].decision.id => m = n
    /\ \A n \in accepted : c.items[n].decision.active /\ c.items[n].decision.supersedes = {}
    /\ \A d \in dispositions : d.decisions \subseteq {c.items[n].decision.id : n \in accepted}

DescriptorsPinned(parent, domain, profile) ==
    parent.domain = domain /\ parent.profile = profile

Materializable(parent, c, dispositions, publication, domain, profile) ==
    /\ c.space = parent.space /\ c.status = "finalized"
    /\ Disposed(c, dispositions)
    /\ publication.parent = parent.id
    /\ publication.operations # <<>> /\ IsInjective(publication.operations)
    /\ DescriptorsPinned(parent, domain, profile)
    /\ DecisionsSound(c, dispositions)

(* The accepted items, applied in the order of the contribution.           *)
Applied(parent, c, dispositions) ==
    LET graph[n \in 0..Len(c.items)] ==
            IF n = 0 THEN parent.graph
            ELSE IF c.items[n].item \in AcceptedItems(dispositions)
            THEN Apply(graph[n - 1], c.items[n], parent.space)
            ELSE graph[n - 1]
    IN graph[Len(c.items)]

(* The child is parsed again, and its vocabulary is validated.             *)
Sound(g, domain, profile) ==
    g # Failed /\ WellFormed(g) /\ VocabularyPasses(g, domain, profile)

MaterializeGoverned(parent, c, dispositions, publication, domain, profile) ==
    LET g == Applied(parent, c, dispositions) IN
    IF Materializable(parent, c, dispositions, publication, domain, profile)
       /\ Sound(g, domain, profile)
    THEN g ELSE Failed

-----------------------------------------------------------------------------
(* Prospective contributions: they name what they create by client         *)
(* operations.                                                             *)

AllocatedId(space, pid, op, kind) == <<kind, space, pid, op>>

Creates(item) == item.kind \in {"create entity", "create assertion"}

ResultKind(item) == IF item.kind = "create entity" THEN "entity" ELSE "assertion"

Producers(c) == {n \in DOMAIN c.items : Creates(c.items[n])}

AllocatedTo(c, item, pid) == AllocatedId(c.space, pid, item.op, ResultKind(item))

(* What an operand of an item stands for: an entity of the parent, or the  *)
(* result of a create of an entity, accepted whenever its dependent is.    *)
Operand(o, dependent, c, dispositions, pid, parent) ==
    LET producer == {c.items[n] : n \in {m \in Producers(c) : c.items[m].op = o.of}}
        accepted == AcceptedItems(dispositions)
    IN IF o.kind = "durable"
       THEN IF o.of \in parent.graph.entities THEN o.of ELSE Failed
       ELSE IF /\ \E p \in producer : p.kind = "create entity"
               /\ dependent \in accepted => \A p \in producer : p.item \in accepted
            THEN AllocatedId(c.space, pid, o.of, "entity")
            ELSE Failed

(* The ids an ordinary item contains.                                      *)
Mentions(item) ==
    CASE item.kind = "entity" -> {item.entity}
      [] item.kind = "retract" -> {item.target}
      [] item.kind = "identity" ->
           {item.decision.id, item.decision.target} \cup item.decision.subjects
      [] item.kind = "assertion" ->
           {item.id, item.assertion.subject} \cup Target(item.assertion)
           \cup item.assertion.evidence
      [] item.kind = "supersede" ->
           {item.id, item.target, item.assertion.subject} \cup Target(item.assertion)
           \cup item.assertion.evidence

(* The canonical item of a prospective one, or Failed.                     *)
CreatedEntity(item, c, dispositions, pid, parent) ==
    LET id == AllocatedTo(c, item, pid) IN
    IF item.item \in AcceptedItems(dispositions) /\ id \in parent.graph.entities THEN Failed
    ELSE [item |-> item.item, kind |-> "entity", entity |-> id]

CreatedAssertion(item, c, dispositions, pid, parent) ==
    LET id == AllocatedTo(c, item, pid)
        subject == Operand(item.subject, item.item, c, dispositions, pid, parent)
        of == IF item.value.kind = "entity"
              THEN Operand(item.value.of, item.item, c, dispositions, pid, parent)
              ELSE item.value.of
    IN IF \/ subject = Failed \/ of = Failed
          \/ item.item \in AcceptedItems(dispositions) /\ id \in DOMAIN parent.graph.assertions
       THEN Failed
       ELSE [item |-> item.item, kind |-> "assertion", id |-> id,
             assertion |-> Joined(item.metadata,
                                  [subject |-> subject, predicate |-> item.predicate,
                                   value |-> [kind |-> item.value.kind, of |-> of]])]

(* An ordinary item may not contain an id that is only being allocated.    *)
Ordinary(item, promised) == IF Mentions(item) \cap promised # {} THEN Failed ELSE item

Canonical(item, c, dispositions, pid, parent) ==
    IF item.kind = "create entity" THEN CreatedEntity(item, c, dispositions, pid, parent)
    ELSE IF item.kind = "create assertion" THEN CreatedAssertion(item, c, dispositions, pid, parent)
    ELSE Ordinary(item, {AllocatedTo(c, c.items[n], pid) : n \in Producers(c)})

Resolvable(parent, c, dispositions, pid, publication) ==
    /\ c.space = parent.space /\ publication.parent = parent.id
    /\ Cardinality(dispositions) = Cardinality({d.item : d \in dispositions})
    /\ {d.item : d \in dispositions} = ItemIds(c)
    /\ \A m, n \in Producers(c) : c.items[m].op = c.items[n].op => m = n
    /\ \A n \in DOMAIN c.items : Canonical(c.items[n], c, dispositions, pid, parent) # Failed

(* The ordinary contribution a prospective one stands for, or Failed.      *)
ResolveProspective(parent, c, dispositions, pid, publication) ==
    IF Resolvable(parent, c, dispositions, pid, publication)
    THEN [c EXCEPT !.items = [n \in DOMAIN c.items |->
                                Canonical(c.items[n], c, dispositions, pid, parent)]]
    ELSE Failed

(* The durable ids of the accepted creates.                                *)
ResultBindings(c, dispositions, pid) ==
    {[op |-> c.items[n].op, kind |-> ResultKind(c.items[n]),
      id |-> AllocatedTo(c, c.items[n], pid)] :
        n \in {m \in Producers(c) : c.items[m].item \in AcceptedItems(dispositions)}}

(* Whether every binding is an id of the graph of its kind.                *)
BindingsStand(bindings, g) ==
    \A b \in bindings : b.id \in IF b.kind = "entity" THEN g.entities ELSE DOMAIN g.assertions

BindingsAbsent(bindings, g) ==
    \A b \in bindings : b.id \notin IF b.kind = "entity" THEN g.entities ELSE DOMAIN g.assertions

(* Before the repository is asked, the bindings are looked for in the      *)
(* command; the repository looks that the parent has none of them.         *)
MaterializeProspective(parent, c, dispositions, pid, publication, domain, profile) ==
    LET bindings == ResultBindings(c, dispositions, pid)
        Materialize(ordinary) ==
            IF ordinary = Failed THEN Failed
            ELSE MaterializeGoverned(parent, ordinary, dispositions, publication, domain, profile)
        Bind(g) ==
            IF g # Failed /\ BindingsStand(bindings, g) /\ BindingsAbsent(bindings, parent.graph)
            THEN g ELSE Failed
    IN Bind(Materialize(ResolveProspective(parent, c, dispositions, pid, publication)))

-----------------------------------------------------------------------------
(* The other producers of children.                                        *)

(* Evidence is only ever added, under new ids and with declared schemas.   *)
ExtendEvidence(parent, added, domain, profile) ==
    IF /\ DescriptorsPinned(parent, domain, profile)
       /\ DOMAIN added \cap DOMAIN parent.graph.evidence = {}
       /\ \A i \in DOMAIN added : added[i].schemas \subseteq domain.sources
    THEN [parent.graph EXCEPT !.evidence = Joined(added, @)]
    ELSE Failed

OpenKinds(profile, namespace) ==
    IF profile.version = 3 /\ namespace \in DOMAIN profile.open THEN profile.open[namespace] ELSE {}

(* The open namespaces a profile has; version 2 has none.                  *)
OpenOf(profile) == IF profile.version = 3 THEN profile.open ELSE <<>>

(* Whether a profile extends another: it keeps its terms, its fixed        *)
(* predicates as they are and its open permissions, and grants one more.   *)
Additive(current, target) ==
    /\ current.id = target.id /\ current.revision # target.revision
    /\ ~(current.version = 2 /\ current.fixed = <<>>)
    /\ current.terms \subseteq target.terms
    /\ \A p \in DOMAIN current.fixed :
         p \in DOMAIN target.fixed /\ target.fixed[p] = current.fixed[p]
    /\ \A n \in DOMAIN OpenOf(current) : OpenKinds(current, n) \subseteq OpenKinds(target, n)
    /\ \/ target.terms # current.terms \/ target.fixed # current.fixed
       \/ OpenOf(target) # OpenOf(current)

(* The graph stays as it is, under the target profile.                     *)
TransitionProfile(parent, domain, current, target) ==
    IF /\ Additive(current, target)
       /\ DescriptorsPinned(parent, domain, current)
       /\ Sound(parent.graph, domain, target)
    THEN parent.graph ELSE Failed
=============================================================================
