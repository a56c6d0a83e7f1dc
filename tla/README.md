# Formal models of DungeonMind

DungeonMind keeps immutable, content-addressed histories of fictional worlds and lets
several clients review, publish, search and ask about them at the same time. These TLA+
modules model the parts of the code in which the outcome depends on an order of steps:
the PostgreSQL transactions, the in-memory repositories, the client procedures that
retry and probe around them, and the request locks of the mind turn service. Around them
they model the algorithms that decide what a stored graph holds and what a reader sees
of it, as operators that the state machines apply.

Source paths below are relative to `src/src/dungeonmind/` unless they start with `src/`.
`PROJECT.json` maps every definition to the lines it stands for.

* [Inventory](#inventory) – the system's parts, their state, what is hard
* [Modules](#modules) – what each module says and how it corresponds to the code
* [Runs](#runs) – what TLC checks, on which instances, with which fairness
* [Proofs](#proofs) – what holds for every value of the constants, and why
* [Findings](#findings) – where the code does not do what it says
* [Observations](#observations) – smaller things met while modelling
* [Limits](#limits) – what is only model-checked, what is not modelled
* [Plan](#plan) – what comes next


## Inventory

### How the parts interact

A **client procedure** (in `application/`) validates a command, looks for an earlier
outcome of it, loads what it needs, and calls a **repository** operation. A repository
operation of `infrastructure/postgres/` is one READ COMMITTED transaction: it locks the
row of its world (or space, or run, or an advisory lock), looks again for an earlier
outcome, checks the command against what it reads, and writes. When the call raises,
some procedures **probe** once for the outcome, because a COMMIT may have taken effect
before its acknowledgement was lost. Worlds (`world_graph_heads`, `graph_revisions`) are
shared by nearly all of them: a head is the pivot every optimistic comparison uses. The
mind turn service adds a second kind of concurrency, an in-process registry of locks in
front of two transactions that are not one. The in-memory repositories implement the
same ports with dictionaries, a lock per world and a lock per repository, and undo by
hand. **Reads** take no lock: they open a context by several calls, and everything they
answer later is a function of what those calls returned.

### The parts

| Part | State | Operations | What is hard | Correct when |
|---|---|---|---|---|
| World graph repository (`postgres/graph.py`) | revisions, head, head-event log of each world | publish_revision, rollback_head | compare-and-swap across statements; a rolled-back revision published again | the log is one unbroken chain ending at the head; a revision is only published over its parent |
| Admission policies (`postgres/publication_admission.py`) | one row per semantic profile | register, record_profile_use | a first use in one world races a registration; advisory lock taken after a world's row | a policy is registered only before the first use of its profile, in any world |
| Finalized review publication (`application/review_publication.py`, `postgres/review_publication.py`) | publications | look up, load, attempt, probe; replay, adopt, publish | twins, lost commits, raw publication of the same revision, a guard that goes stale | at most one effect per review, over the parent that was reviewed, while its guard stands; honest answers |
| Contributions and reviews (`postgres/records.py`, `postgres/evidence_extract.py`, `contracts/contribution*.py`, `application/contribution_review*.py`) | contributions, evidence, finalized reviews, identity decisions | build a state, append, update_status, finalize | update_status does not take the world's lock: only foreign keys keep it away from finalize; four versions of one contract | a stored review can be reconstructed; forward pointers are not lost |
| Review materialization (`application/review_materialization*.py`, `source_description_correction.py`, `graph_snapshot*.py`) | – | the child graph of a review | order of assertions and corrections, evidence, readers that refuse | the child is its parent and what was accepted, no more and no less |
| Source admission (`application/source_admission.py`, `postgres/records.py`, `application/source_provenance_snapshot.py`) | artifacts, source revisions, receipts | admit, put_artifact, put_revision, provenance snapshot | ids shared between worlds under different locks; retries after lost commits; a pair read by two statements | a receipt stands for a stored pair admitted under the expected head |
| Embedding runs (`postgres/semantic.py`) | runs, active run of a world, documents | begin, complete, fail, supersede, activate, delete, upsert_batch, search | the active pointer is read without a lock; batches over several runs | a world's active run is completed; a completed corpus is frozen; a search sees one run, whole |
| Mind turns (`application/mind_turn.py`, `postgres/threads.py`, `postgres/records.py`) | thread turns, retrieval sessions; registry of request locks | execute, create session, append turn | session and turn are two transactions; several processes; retries over a moving head | one answer per request; a turn tells what its session recorded |
| Native knowledge spaces (`postgres/vnext_knowledge.py`, `application/vnext/authority.py`, `publication.py`, `prospective.py`, `space_provisioning.py`) | spaces, revisions, heads, receipts, prospective results, allocations | publish, publish under an id, publish prospectively, provision | replay before comparison; ids that stand for other commands; minted ids | a linear history; refusals stay true; receipts are true |
| Legacy codec (`application/vnext/legacy_compat.py`) | – | decode a stored graph, two witnesses | ids made up for what a payload implies; what is said must survive two forms | the parsed revision says all that the graph says |
| Native graphs (`application/vnext/materialization.py`, `prospective.py`, `native_source_extension.py`, `profile_transition.py`) | – | the child of a native revision | several producers follow each other | every change is accounted for by an accepted item |
| Native reads (`application/vnext/` builder, admission, reads, neighborhood, search, evidence, anchors) | – | context, entity, listing, neighborhood, search, evidence, anchor, text | indexes, layers, source epochs; an anchor outlives its read | all and only what the reader is entitled to |
| Native sources (`postgres/vnext_sources.py`, `vnext_operator_sources.py`, `memory/vnext_*sources.py`, `application/vnext/native_source_*.py`) | a global source epoch, native receipts, extensions, attestations | admit, extend, prepare, attest, open a view | epoch before space lock; stale preparations; readers in later transactions | a pinned view keeps; one registration per interval; an attestation in the state it was prepared in |
| Adoption, repair, withdrawal (`postgres/existing_world_adoption.py`, `application/existing_world_*.py`, `adopted_assertion_withdrawal.py`) | adoption and withdrawal receipts | adopt, promote, repair, withdraw, check correspondence | table locks against writers that take no world lock; a check of several transactions | a world begins as reviewed; receipts advance on proofs; lineages can be explained |
| Reviewed world initialization (`postgres/reviewed_world_initialization.py`) | initialization receipts | initialize | the pristine check against concurrent sources and contributions | as above |
| Identity reconciliation (`postgres/world_identity_reconciliation.py`) | – (decisions and revisions) | publish a rebind | the replay is looked for before the lock | one revision per operation (it is not: see Findings) |
| In-memory world authority (`memory/repositories.py`) | the same tables, as dictionaries | the same ports | undo by hand while others go on | the store is coherent; failures leave no trace |
| World Graph reads (`application/graph_scope.py`, `world_graph_projection.py`, `world_graph_read_context.py`, `world_graph_retrieval.py`) | read contexts, sessions | open, search, neighborhood, lookups, evidence, anchors, source indexes, reviewed observations | a context is opened call by call; cursors outlive pages; each list is cut by itself | answers are entitled, say when they are cut, and pages are one listing |

The parts that are not modelled (caches and observability, rank fusion, fictional time,
recovery, most contracts, the service host, the D&D profile,
migrations and scripts) are listed with their reason in `PROJECT.json` and under
[Limits](#limits). The hazards the properties are for are listed there too, each at the
line where it bites.


## Modules

Every module with transactions writes them as sequences of steps of their client, with
`pc` as the place a client has reached; the writes of a transaction appear in its commit
step, and its locks are functions from rows to owners. An aborted transaction changes
nothing and frees its locks. Ids that are digests are modelled as the record they are
computed from. Timestamps, wording and payload details are left out. Each module's
header states its own simplifications.

### The shared world

**WorldStore** holds the tables of a world graph, the `FOR UPDATE` lock of a world's row
and the advisory lock of a profile, and the operators the transactions share
(`AcquireWorld`, `AcquireProfile`, `ReleaseAll`, `ProfileUsed`, `MoveHead`).

**WorldGraph** extends it with the transactions of `publish_revision`, `rollback_head`
and `register`. Publish is `LockWorld` (`lock_world`), `RecordProfileUse` (the profile's
lock and the policy read under it), `ReadHead`, then `PublishCommit` or one of the
refusals. **VersionedHead** is its abstract specification: a head moves in one step, to
a new child of itself or back to a stored revision; `ImplementsVersionedHead` is the
refinement.

**ReviewPublication** is the client procedure `publish_finalized_review` (`LookupFound`
… `ReadPolicy`, `ProbeFound`, `ProbeFailed`) against the repository transaction
(`BeginPublish` … `PublishRevision`), on WorldStore. The other writers of a world (raw
publication, rollback, finalization, identity decisions) hold the world's row throughout
and are atomic steps here. **PublishOnce** is what callers are promised: a review takes
effect at most once, "published" is only said when it has, a refusal only when this call
did not make it take effect.

**WorldAdoption** has the other ways a world begins and changes: adoption of a sealed
bundle, reviewed initialization with its client's probe and recovery, promotion of a
receipt, the classification repair, the withdrawal of an adopted relationship, the
rebind of identities, and the correspondence check, which reads in transactions of its
own. Appends and source puts take no world lock and conflict through the table locks and
the key-share locks of their foreign keys. **GraphEdits**, which it extends, has the
payloads: what a bundle closes to, what a first review creates, what a rebind or a
withdrawal makes of a parent, each `Failed` where the code raises.

### Contributions and their reviews

**ContributionReviews** models one world's ledger: `append`, `update_status` and
`finalize`, with the key-share locks that the foreign keys take, evidence rows that an
open transaction has inserted, and PostgreSQL's deadlock detector.

**ReviewContracts** has the four versions of intent, submission, record and state with
the validators that relate their parts, and `BuildReviewState`, the state a service
builds of a confirmed submission. **GraphReaders** says which stored payloads of schemas
3 and 6 the snapshot readers accept. **ReviewMaterialization** is the graph a review
makes of its parent: nodes, edges, aliases, attributes and properties in their order,
corrections after them, generated evidence, the property delta, the proof that withdraws
a description, and validation of the output. **ReviewedGraph** composes them: it extends
ContributionReviews, whose `finalize` stores the states the services let through, and a
publication puts `Materialize` of a stored state at the head, while other publications
move it. **LegacyCodec** is the compatibility decoder of such graphs, with the made-up ids
of existence, kind, label and relationship assertions, and the two witnesses whose
equality is semantic parity: of the graph, and of the revision the decoder makes of it.
No service calls the decoder; the model asks of every graph a review publishes that the
decoder reads it and loses nothing.

### Sources, runs, turns

**SourceAdmission** models `admit` (probe, head check, transaction, recovery probe), the
plain puts, and the two-statement provenance snapshot under REPEATABLE READ, in worlds
that share artifact and revision ids.

**EmbeddingRuns** models every operation of `semantic.py`; a search resolves the run of
its world without a lock, locks it, reads the eligible documents and ranks them in
further statements.

**MindTurn** models workers placed in processes. `Arrive`, `TakeLock`, `DropLock` and
`Leave` are the reference-counted lock registry of one process (an entry is identified
by its key and the worker whose arrival created it); `Replay` … `AppendTurn` are
`_execute_unlocked`; a process may crash at any step and a request may be sent again, to
any process.

### Native spaces

**KnowledgeSpaces** models the native authority: publications that are plain, under an
id, or prospective, and provisioning with minted ids, with the clients' recovery probes.
An operation stands for a sealed payload, a revision for the sequence of operations from
its genesis.

**NativeGraph** gives these operations their content: one function for every producer of
a child revision (governed materialization, prospective substitution, evidence
extension, profile transition, genesis) and one for every kind of item. **NativeReads**
has the indexes a revision is parsed into and every read over them, as functions of a
context that pins a revision, a policy and a view of the sources. **NativeSpaces**
composes the three: a client asks for a publication only if it could materialize it over
the parent it read, and every revision that arises is read by every reader at every
epoch. A revision id determines its content: `Contents[n]` are the contents of the
histories of `n` publications, each made of one that is shorter by `ChildOf`, and what
holds of a content is decided once per revision id. Its assumptions say what the code
makes sure of: a graph and a contribution are finite records whose assertions have a
subject and a value (their contracts), generations number the writes of a source (they
come from one counter), a provisioned space begins with an empty graph, and an operation
is sealed over a parent only if it materializes over it (`Sealed` of KnowledgeSpaces,
which MCKnowledgeSpaces defines by `Materializes`).

**NativeSources** has the writers of source authority: admission with its client's
probes, extension, preparation and attestation by an operator, ordinary publication
beside them, and `Native`/`Operator`, the rows a view pinned at an epoch reads. The
variable `adapter` says which implementation a behaviour runs on. On PostgreSQL the
epoch's row is locked before the space's; in memory (`MemoryAdmit`, `MemoryExtend`,
`MemoryPrepare`, `MemoryAttest`, `MemoryPublish`) one lock is held for a whole call and
a failing hook undoes it (`AllOrNothing`).

### The in-memory world and its reads

**MemoryWorld** models `memory/repositories.py`: the units of work adopt, initialize,
repair, publish a finalized review and withdraw, write by write, each run by a thread
under the locks it takes, with a failure possible at each write and the hand-written undo
that follows (`Restore…`, `Undo…`); calls under one lock, raw publication and rollback
among them, are one step. `doing` is how far a thread is with its `unit`, `undo` what the
unit saved before its first write. An undo is one step: the unit keeps the lock of its
world until it is done, and what calls without that lock may see in between is left out
(see [Limits](#limits)). **GraphStores** has the two constants that it shares with
WorldStore. `lost` is a history variable that no action reads: the revisions that a
failed withdrawal took of other worlds, which is the second finding below.
`FailuresKeepGraphs` refines VersionedHead again, with the revisions and heads that no
unit in flight may still take back, and with those of `lost` counted as if they were
there: of graphs and heads it says that the finding is the only damage that failures do.
It says nothing of rows, which a failed adoption does erase (see
[Observations](#observations)).

**GraphScope** is `project_scoped_snapshot`: campaign scope, audience, evidence chains,
withheld and ambiguous aliases. **Retrieval** has every question of
`WorldGraphRetrievalService` as an operator of a context and its bounds, and the walk
over the reviews on a parent chain. **WorldReads** puts them on MemoryWorld: a reader
opens a context in several calls while units go on, asks, and pages.

The `MC*` modules give the constants their values. Definitions marked *Mutant* are
plausible bugs in the definition that follows them; replacing the definition by its
mutant must break the property it is paired with in `PROJECT.json`.


## Runs

| Run | Instance | Shows |
|---|---|---|
| `world_graph` | 2 clients, 2 worlds that share a profile with 2 descriptors, 1 policy, 4 head moves in one world and 1 in the other; symmetric | no head move is lost (`HistoryUnbroken`), the transactions implement `VersionedHead`, uses of a profile are recorded and fenced from registrations across worlds (`UsesFenced`, `PolicyBeforeFirstUse`) |
| `review_publication` | 2 clients, 1 world, 3 reviews (two of one source plan, one guarded), 2 later identity decisions, 3 head moves, with and without a policy; symmetric | one effect per review over its reviewed parent while its guard stands, admitted content only, honest answers |
| `contribution_reviews` | 2 clients, 4 worlds (labels of version 1, facets of versions 2 and 3, descriptions of version 4, a parent graph that is broken), 3 revisions | stored reviews reload, forward pointers stay, a published graph is its parent and what was accepted (`NothingUnreviewed`, `NothingLost`), and the compatibility decoder loses nothing of it (`NothingLost`) |
| `source_admission` | 2 clients, 2 worlds, 2 heads, 1 artifact and revision, 2 admission ids with 4 commands | receipts are backed and answers are the command's own (`ReceiptBacked`), pairs are admitted under the expected head, calls end |
| `embedding_runs` | 2 clients, 2 runs of one world, 2 documents | the active run serves, corpora freeze, searches are whole |
| `mind_turn` | 2 workers in one process or in two, 3 requests that share an id, 2 heads, 2 calls each | one answer per request, turns follow sessions, requests end |
| `knowledge_spaces` | 2 clients, 2 spaces, 3 publication ids, 1 allocation id, 3 calls, 2 mints; 2 readers under 2 policies at 3 source epochs | linear histories, true receipts, final refusals; reads serve what readers are entitled to, anchors hold, every change of a graph is accounted for |
| `native_sources` | both adapters, 2 clients, 2 spaces, 1 text with 2 intervals, 1 legacy span, 4 calls | one row per interval and span, pinned views keep, attestations in the state they were prepared in, calls end |
| `world_adoption` | 2 clients, 2 worlds of which one may stand adopted, 2 versions of a bundle, 4 calls | a world begins as reviewed, receipts advance on proofs, every payload is explained by its path, a check is right of one moment |
| `world_reconciliation` | as above, rebinds and rollbacks only | the first finding below |
| `world_reads` | 2 worlds, one adopted in one of three forms or not yet begun and one that may be adopted meanwhile, 2 threads with 2 calls and 2 failures, 3 readers, 13 questions, pages of 1; symmetric threads | units of both worlds pass each other and fail: the store is coherent and settled heads and revisions are kept; answers are entitled, and say what they cut, could not follow or miss; pages are one listing |
| `memory_withdrawal` | 2 threads, 2 worlds, 3 calls, 1 failure | the second finding below |

**Why these bounds are enough.** The hazards are races of two transactions over one row,
so two clients meet them. Two worlds or spaces appear where locks of different ones meet
(profiles, source ids, the epoch, the in-memory repositories) and one elsewhere, since
worlds are otherwise independent. Four head moves allow publish, publish, rollback,
publish again. Three or four calls allow an original, its retry, and a rival that moves
the head between them; in `native_sources` four allow an admission and two extensions,
or two preparations and their attestations. The graphs are small but chosen for their
cases: an alias of two objects that one reader may not see, a relationship whose source
is not readable, an object that is merged away and named again, a correction of what the
same review says. `MaxHeadEvents`, `MaxHead`, `MaxRevisions`, `MaxCalls`, `MaxMints`,
`MaxFailures` and `MaxReads` are the only bounds on counters (the code mints eight ids);
everything else is finite by its constants. Symmetry is used only in runs without
liveness properties.

**Deadlock** is checked except in the runs whose calls are bounded by `MaxCalls` or
`MaxReads` (`mind_turn`, `knowledge_spaces`, `native_sources`, `world_adoption`,
`world_reconciliation`, `world_reads`, `memory_withdrawal`): there the system stops when
the calls are used up. `native_sources` shows instead that every call ends.

**Fairness** is assumed in the runs with liveness. A transaction that can execute its
next statement does so (weak fairness of `Step`), since clients run in threads of their
own and statements do not wait for anything but locks. In `source_admission` a
transaction that waits for a lock gets it if the lock is freed again and again (strong
fairness of `Wait`): PostgreSQL queues the waiters of a row or an advisory lock. Neither
calls nor failures nor head moves of others are fair: nobody has to call, nothing has to
fail. In `mind_turn` and `native_sources` weak fairness is enough because calls are
finitely many; `threading.Lock` promises no queue. In NativeSources it covers the whole
step of a client, so that the only way for a call to stay for ever is a cycle of locks:
the epoch before the space, everywhere, excludes it.


## Proofs

TLAPS checks the theorems of eight modules for any numbers of clients, threads, workers,
processes, worlds, profiles, reviews, runs, documents, spaces, ids and calls. Their
assumptions are the `ASSUME`s of the modules they extend: what the constants contain
(requests are records of their kinds, over the sets of ids), that ids of different tables
and the markers for "none" are disjoint, that bounds are natural, and, where a module
counts them, that workers and the assertions of a review are finitely many; of review
states and graphs also that they have the fields of their contracts, and one of its four
versions. TLC evaluates
the same assumptions in the runs. The inductive invariants were checked by TLC on the
instances of the runs before they were proved.

The invariants have a common shape. A *type* part says which request each stage serves;
a *lock* part says who holds what from which step on; a *still true* part says that what
a transaction has read and checked under its locks is still so; the *table* part is the
property and what it needs of older rows. Locks come first because the other conjuncts
need them.

**WorldGraph_Proofs.** `TypeCorrect`, `NoLostHeadMove` (`HistoryUnbroken`),
`AncestryAlwaysClosed`, `PublishIsCompareAndSwap`, and `RefinesVersionedHead`, the
refinement step by step. `HistoryUnbroken` is not inductive: `PublishCommit` appends the
head it *read*, so the proof carries `HistoryInv`, which adds that a transaction past
`LockWorld` owns its world's row, and that a head that was read under that lock is still
the head. The lock excludes any other step that could move it, and from there every step
either leaves a world alone or extends its log from its head. `UsesAlwaysFenced` and
`PolicyAlwaysBeforeFirstUse` are about rows that worlds share: their invariant adds that
whoever is past `LockProfile` owns that profile's row, and that the descriptor it has
checked and the policy it has read are still the row's. A use therefore never changes a
descriptor or a policy, and a registration finds no row, hence no use of it in any
world.

The module also proves the store in memory, for any worlds, threads, ids and failures and
without further hypotheses: `StoreStaysCoherent` (`StoreCoherent`) and
`FailedUnitsKeepGraphs` (`FailuresKeepGraphs`, the second refinement of VersionedHead).
`StoreCoherent` speaks of worlds whose lock is free. Its invariant, `StoreInv`, says for
a world in the middle of a unit's writes what that unit has written so far *and* that the
world without those writes is whole (`BeginningOK`, `RepairOK`, `PublicationOK`,
`WithdrawalOK`), so that both ends of a unit, the last write and the undo, give a whole
world back. The lock of the world keeps all others from its head, records and receipts,
and from its revisions but for one case; to its rows they only add.

That case is the withdrawal of the second finding. The invariant follows it through the
worlds it reaches (`UndoneElsewhere`). A settled revision that it takes is in `lost`, and
what the two theorems say is stored is stored or lost: `HeadsResolve` itself is false. A
child of a unit in flight is not settled and not in `lost`; the unit that reads it back
does not end but undoes itself. Withdrawals do not read back, but exclude each other by a
lock of their own, across worlds, so that none takes the child of another.

The code does not keep the ids of adoptions and initializations to one world each:
whether another world has an id is looked at under the lock of one world
(`memory/repositories.py:2563-2582`), and of two worlds begun with one id at the same time
the dictionary by id forgets one. `StoreCoherent` therefore asks that a receipt is found
by its id only of ids that the requests of one world alone carry (`OfOneWorld`); the
receipt of the world is asked for in any case.

**EmbeddingRuns_Proofs.** `TypeCorrect`, `ActiveRunAlwaysServes`, `RunsSettleOnce`,
`CorpusIsFrozen`, `SearchIsWhole`. The invariant is of the same form: a transaction
holds the row of every run it has locked, and the status it has seen of such a run is
still the run's status. For `CorpusIsFrozen` it adds that a run that was never begun
owns no document; for `SearchIsWhole`, that the eligible documents a search has read are
still its run's documents, which holds because the search keeps its run locked and
whoever changes documents must hold the same lock.

**KnowledgeSpaces_Proofs.** `TypeCorrect`, `HistoryIsLinear`, `ReceiptsStayTrue`,
`RefusalsStayFinal`, `RowsAreFinal`, `HeadsMoveAsMaterialized`.
A call that is deciding or committing owns its space (`Placed`), so the head it compared
is the head at its commit, and each commit appends one operation to it: the revisions
are the prefixes of the head. Receipts stay true because a commit is refused when its
key is taken, so rows are written once (`RowsStay`), and because the revision of a row
is stored with it (`Grounded`). `RefusalsAreFinal` is not inductive. It needs that a
command is built on a revision its client could read (`KnownParents`), which by the line
of revisions is the head or a proper prefix of it: a stale command is behind the head,
heads only grow, so no later copy of it can pass the compare (`RefusedForGood`). The
theorems hold whatever an operation makes of its parent, since `Sealed` is a constant:
NativeSpaces, which gives it its meaning, restricts which calls are made and adds no
step. `HeadsMoveAsMaterialized` is what it relies on: a client materializes a child
before it locks the space, yet the head it is published over is the very parent it was
materialized over, because the compare under the lock says so (`CallsMade`, `Placed`).

Its second half is about what the revisions hold, for any graphs, contributions, sources,
readers and policies: `RevisionsWereMaterialized` (every stored revision is one of
`Histories`), `StoredRevisionsAreWellFormed`, `ReadsAlwaysServeTheEntitled`
(`ReadsServeTheEntitled`), `AnchorsAlwaysHold` (`AnchorsHold`),
`ChangesAreAlwaysAccountedFor` (`ChangesAccountedFor`). The link to the first half is
`Materialized`: a commit appends an operation to a parent that is stored, hence itself a
history, and over which the client could materialize it. From there the argument leaves
the behaviours and follows the content.

* *Contents are graphs.* `ContentsAre` gives the recursive function its values, and
  `HistoryIs` shows by following each producer (`GraphAfterKeeps`, `ApplyKeeps` item by
  item, `MergeKeeps`) that each content is a well formed graph of finitely many claims.
* *Reads.* What a reader is entitled to is defined from the graph and the history of the
  sources alone; the code answers from indexes, from snapshots of sources that it takes
  in bulk, and from gates in a fixed order. `AtIsValueAt` and `SnapshotHolds` show that a
  snapshot has the last value up to the pinned epoch, `EvidencePasses` and `RefsPass` that
  evidence passes exactly when it is reliable, however many references are asked about
  together, and `AdmitServes` that of any set of assertions the gates admit exactly those
  the reader is entitled to. Entities, listings, two layers of a neighborhood and search
  hits follow from it; `FirstExists` is what ranking needs, that finitely many hits have a
  first.
* *Anchors.* `OwnSnapshotHolds` and `SameAnchor`: an anchor is a digest of what was shown,
  so equal anchors mean the same request and the same artifact; `ListedTexts` relates the
  catalogue's answer to opening one text.
* *Changes.* `AccountedSoFar` is the invariant of `Applied`, the loop over the accepted
  items: after each of them every claim of the parent is there with its ends renamed only
  along accepted merges (`RenamedByMerge`, by the closure `Becomes`), or was targeted.
  `CanonicalIsLicensed` shows that a prospective contribution, once its placeholders are
  replaced by allocated ids, does only what its accepted items say. `EntitlingGrows` is
  why evidence extensions and profile transitions hide nothing.

A recursive function over naturals is shown to have its value, and a fact to hold of all
its values, by the least counterexample (`LeastExists`, from the well-foundedness of the
naturals), since the library's induction theorems take an operator as a parameter. The
theorems are about histories of up to `MaxCalls` publications, for every `MaxCalls`.

**ReviewPublication_Proofs.** `TypeCorrect`, `AlwaysPublishedOverReviewedParent`,
`GuardAlwaysCurrent`, `ProtectedAlwaysAdmitted`, and `RefinesPublishOnce`, the refinement
of PublishOnce. `PublishedOverReviewedParent` is not inductive: a commit writes what its
call loaded outside the transaction and checked one step earlier. `IInv` adds that the
review a call has loaded is still stored, that under the world's row nothing else has
published it and the checks that passed would pass again (`StillTrue`), that the
profile's row was settled by the genesis revision (`ProfileSettled`), and that no
revision came into a world but as its head (`StoredWereHead`), which is what lets the
adoption of a raw publication count as a publication in the reviewed place. The
refinement maps the procedure and the transaction to a caller that has asked, a review
that has taken effect, and an answer; what carries it is `Attempts`: a call that
committed is on its way to the probe that finds its publication, or has returned, and a
call whose attempt was refused has not committed. That the ids of identity
decisions are unique (`DecisionsTold`) is the primary key the model's `AppendIdentity`
respects; the guard rests on it.

**ContributionReviews_Proofs** has three parts. Two are on the repositories whose
transactions insert under unique keys, and one, between them, is on the graphs that the
ledger's reviews publish. On the ledger: `TypeCorrect`, `ReviewsAlwaysReload`
(`ReviewsReload`), `OneReviewPerOperationAndPlan`, `ForwardPointersKept`. A status update
takes no world lock, so what protects a finalization is only the key-share locks of its
foreign keys; `LockOrShare` says that an update and a reference to the same row exclude
each other, `FreshOwned` that a key an open transaction has inserted is not stored yet,
and `TodoCovers` that evidence it cites is stored, inserted or still to be inserted. On
the source catalog, SourceAdmission, as the instance `Src`, with its own assumption as
the hypothesis of each theorem: `CatalogTypeCorrect`, `ReceiptAlwaysBacked`
(`ReceiptBacked`), `AlwaysAdmittedUnderHead` (`AdmittedUnderHead`), `RecordsImmutable`.
`ReceiptBacked` alone does not say that the pair a transaction is about to attest is the
one stored; `InsertedSettled` does: every key of a request is still to be inserted, or
inserted by it, or there with just what it submitted.

On ReviewedGraph: `PublishingKeepsTheLedger`, which is that `ReviewedSpec` implements the
ledger's `Spec`, so that the theorems above hold of the composition, and
`NothingPublishedUnreviewed` (`NothingUnreviewed`), for any assertions, corrections,
graphs and history, in all four versions of the contract. Its invariant is the ledger's,
which says that what is stored is a state the services let through, with graphs in the
history. The rest is about operators. `Explained` compares a graph with the one it comes
of, object by object and link by link; each assertion alone explains what it adds by
`MaySay` (`ApplyNodeMay`, `ApplyEdgeMay`, ...), a correction adds nothing, and the two
loops keep it by the least counterexample, as those of native spaces do. `TakenAre` is
where the review comes in: an assertion that is applied is accepted in the reviewed
contribution, and only the validators of the stored state (`AssertionsAsReviewed`, `VerdictsCover`) make that a
verdict of the record on the candidate. In version 1 the outcome of an identity is a
function of its verdict, and a new object is only made with the one label that brings it
(`AboutTaken`, `ObjectV3May`).

**MindTurn_Proofs.** `TypeCorrect`, `AnswersAlwaysAgree`, `TurnsAlwaysFollowSessions`,
`IdsStayInOneThread`, `RegistryExcludes`, `RegistryNeverLeaks`. That the stores are right
needs no lock (`StoreInv`): a stored session never changes, a draft that reaches
`AppendTurn` is backed by it (`DraftsFit`), and the turn's key is looked up in the
transaction that writes it. This is why several processes are safe. That the registry of
one process excludes is a separate invariant: `users` counts who is between `Arrive` and
`Leave` (`UsersCounted`), all of them hold the one object that the entry names
(`SharedObject`), and a held lock is held by somebody who serves (`LockHeld`).

**NativeSources_Proofs**, on both adapters at once: `TypeCorrect`, `AlwaysRegisteredOnce`
(`RegisteredOnce`), `EpochsNameRows`, `SourcesStayInHistory`, `PinnedViewsAlwaysKeep`
(`PinnedViewsKeep`), `AlwaysAttestedAsPrepared` (`AttestedAsPrepared`). `RegisteredOnce`
needs that what a client decided before its commit still holds (`DecisionHolds`), which
needs the epoch's row and the space's row (`LocksHeld`): intervals are registered over
all spaces, and only the epoch's lock excludes a registration in another one. A pinned
view keeps because an epoch names one row and grows with every row
(`EpochNamesOneRow`), so a later transaction that reads rows up to the epoch reads the
same.

**WorldAdoption_Proofs.** `TypeCorrect`, `LineageAlwaysExplained` (`LineageExplained`),
`WorldsBeginAsReviewed` (`BeginsAsReviewed`), `ReceiptsAdvanceProved` (`AdvancesProved`),
`ChecksClassifyAMoment` (`ClassifiedAsOfAMoment`). `Ages` is the lemma under all of them:
a step only adds rows to a world, except that a repair classifies its sources anew, and
then only while the receipt is not of the last form. `LineageExplained` needs that the
parent a client builds on is stored (`Asked`), that the checks of a withdrawal would pass
again when it commits (`Decided`, under the world's row), that every stored payload comes
of a stored parent by its last edit (`RevisionsSound`), and that the receipt a withdrawal
was checked against is final (`WithdrawalsStand`). A beginning is decided
under the locks of the three tables of the history (`LocksHeld`), hence the writers that
take no world lock cannot come between its pristine check and its commit. A correspondence
check holds no lock between its reads. `SeenMoment` says of what it has read so far how
it stands to the tables at the moment it listed the contributions: the decisions of that
moment are among those it reads later, and a source of that moment is there later, if
classified otherwise. So an answer of CORRESPONDING or STALE is right of that moment,
while MISMATCH need not be, see the observations.

Each proof has one step per action and below it one per conjunct the action can disturb.
Steps that only some proofs distinguish are grouped by what they write before the
conjuncts are taken one by one.


## Findings

**`world_reconciliation`** finds `OneRevisionPerOperation` violated.
`PostgresWorldIdentityReconciliationRepository.publish` looks for a revision with its
operation token before it locks the world
(`infrastructure/postgres/world_identity_reconciliation.py:138-155`) and not again under
the lock. Two commands of one operation id that both found none publish two revisions
when the head is rolled back to their common parent between the commits. From then on
the search of any retry raises, since it takes two revisions of one token for damage
(`:75`).

**`memory_withdrawal`** finds `HeadsResolve` violated. A failed withdrawal undoes itself
by removing every revision stored since it began, of any world
(`infrastructure/memory/repositories.py:2766`), under the lock of its own world. What
another world published meanwhile disappears and that world's head names nothing,
although the repository promises "Immutable revisions + one head per world" (`:215`).
The same happens to rows that other callers were told are stored, see below.


## Observations

Met while modelling; the models have these behaviours, and no property states the
opposite.

*Publication and reviews.*
`src/Docs/Decisions/ADR-0025-vnext-durable-publication-replay-recovery.md:14` says
"Changed commands fail with an idempotency conflict", which holds inside the
transaction; when the outcome is unknown, the recovery in
`application/vnext/publication.py:81-101` reads the other command's receipt and raises
`PersistenceIntegrityError` although nothing is damaged (`ProbeMismatch`). A retry of a
finalization whose answer was lost is refused as stale once the head has moved
(`application/contribution_review.py:206-215`). A finalized review may never
materialize; it then stays stored and unpublished and keeps its operation and its plan.
`reject_candidate` cannot be satisfied in versions 2 and later. Correcting an alias and
asserting its text again in one review loses it. The materializer of version 4 screens
mechanics after it has dropped the non-mutating outcomes. Evidence inserted in assertion
order under a global key can deadlock; PostgreSQL's detector ends it.

*Adoption.* After a rebind an adopted relationship can no longer be withdrawn
(`application/adopted_assertion_withdrawal.py:98`), and withdrawing an aspect that an
endpoint rests on fails the validation of the output. The docstring of
`promote_to_v3_receipt` (`infrastructure/postgres/existing_world_adoption.py:782-784`)
says that source puts and identity appends never take the row of a world; those of
`records.py` do (`:875`, `:1008`, `:1083`). A repair between the reads of a
correspondence check makes it answer MISMATCH for a world that corresponded before and
after.

*In memory.* `admit_source_revision` does not compare the expected head
(`memory/repositories.py:1347-1386`). Adoption and initialization hold the lock of the
graph only, so the undo of a failed one can erase rows that other calls were told are
stored. That ids are unique over worlds is checked under a lock per world
(`:2579-2583`). `get_head` takes no lock and reads what may still be undone.

*Reads.* `resolve_evidence` resolves what the context has not resolved without the
genesis compatibility of the projection
(`application/world_graph_read_context.py:52-67`). An alias added by itself carries no
evidence and is admitted by its standing alone. A native search lowercases its query
before it looks up predicates and terms, whose indexes keep case. An entity that was
merged away can be proposed again and comes back empty. An additive profile transition
can add a fixed predicate to an open namespace; only the validation of the graph stops
it. `native_source_admission.py:551-572` probes its receipts in transactions of their
own.


## Limits

**Only model-checked:**

* liveness (`CallsEnd` of SourceAdmission and of NativeSources, `RequestsEnd`), which
  like `ENABLED` is out of the prover's reach;
* `NothingLost` of ReviewedGraph. It holds of the reviews of the instance and not for
  every value of the constants: a correction that named an assertion of its own review
  would take it away again, and no validator compares the two ids; and that the decoder's
  revision says all that the graph says rests on the rows of an object having distinct
  texts and terms, and on the metadata of the profile;
* the properties of WorldReads, which walks histories with a recursive operator, about
  which nothing can be proved for every input. The modules with theorems use none.

**Weaker than one might wish,** because the code does no better: the theorems about the
store in memory count the revisions of `lost` as known, ask for a receipt by its id only
where one world has the id, and say nothing of the rows that a failed adoption erases
([Proofs](#proofs)). Without the first two exceptions they are false: TLC finds the
withdrawal (the second finding) and the two adoptions with one id.

**In one step:** the undo of an in-memory unit. It removes revisions and then puts the
head back (`memory/repositories.py:1222-1228`, `:2765-2771`) under the lock of its world,
but `get_head`, `get_revision` and the reads of sources take no such lock: in between
they may see a head whose revision is gone. No property speaks of that moment.

**Only stated of one instance:** what the algorithms of GraphScope, Retrieval,
GraphReaders and LegacyCodec compute, and of ReviewMaterialization what it keeps. They
are evaluated on the graphs of their MC modules, over every history those instances
reach.

**By assumption:** PostgreSQL itself (locks, READ COMMITTED and REPEATABLE READ, atomic
commits) is taken as documented; SHA-256 is injective; the JSON shape of payloads is a
precondition of the commands; a unit of work of the in-memory repositories can be
interrupted between any two writes.

**Not modelled:**

* the parsed revision cache and the observations of reads: the cache is keyed by an
  immutable revision and its reader and holds what a parse gives;
* candidate rank fusion, fictional time, publication history, context assembly,
  semantic profiles: pure functions of one revision or of ranked lists;
* the snapshot readers of schemas 1, 2, 4 and 5, and what the legacy codec makes of
  them: data conversion with no state; of the codec also its manifest, the envelope it
  validates and its cache key;
* authority recovery and the Eldyrwild repair: a preflight that only reads and a
  one-off repair of one stored world;
* contracts other than those of reviews, capability evaluation, canonical hashing:
  they shape the records of the modules;
* in memory: threads, retrieval sessions, embedding runs, documents and semantic
  search, one lock per call over one dictionary; prospective publication and
  provisioning of native spaces;
* the service host, agents, migrations, scripts, benchmarks and examples, and the D&D
  profile's planning.


## Plan

1. *Done:* the modules above; the theorems above, which state every safety invariant and
   action property of the runs on PostgreSQL's transactions, on the content of native
   spaces and of reviewed graphs (but `NothingLost`), on the store in memory and on the
   mind turns, and the refinements of VersionedHead (twice) and PublishOnce.
2. **Proofs** that are left: `NothingLost`, with the ids of a review kept apart from the
   targets of its corrections; lemmas about GraphScope and Retrieval (what an admitted
   chain implies, what a cut list says of itself).
3. **Algorithms** that are left, as operators over bounded inputs against reference
   definitions: rank fusion, fictional-time closure, D&D contribution planning.

The set of runs is kept small enough to repeat in full after each change: new modules
replace the shallower properties of older ones where they say the same thing.
