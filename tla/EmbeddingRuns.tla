---------------------------- MODULE EmbeddingRuns ----------------------------
(***************************************************************************)
(* Embedding runs, the semantic documents they own, the run each world     *)
(* serves retrieval from, and semantic search                              *)
(* (infrastructure/postgres/semantic.py).                                  *)
(*                                                                         *)
(* A run is begun, filled by document batches while it is running,         *)
(* completed or failed, may be made the active run of its world while it   *)
(* is completed, and is superseded in the end; the documents of a failed   *)
(* or superseded run may be deleted.  Every operation is a transaction     *)
(* that locks the rows of the runs it touches (SELECT ... FOR UPDATE),     *)
(* decides on the status it read with the lock, and writes at its commit.  *)
(* Search reads the active pointer without a lock, then locks the run.     *)
(*                                                                         *)
(* Simplifications:                                                        *)
(*  - A document's id and run stand for its payload: the same id under     *)
(*    another run is a different payload.  Scope filters, embeddings and   *)
(*    scores are left out; ranking re-reads the eligible documents by id.  *)
(*  - Batches lock their documents after all their runs, in id order, and  *)
(*    one transaction's writes show at its commit; so the document rows    *)
(*    are checked and written in the commit step.                          *)
(***************************************************************************)
EXTENDS Naturals, FiniteSets

CONSTANTS
    Clients,
    Runs,       \* run ids: numbers, because batches lock them in id order
    Worlds,
    RunWorld,   \* [Runs -> Worlds \cup {None}]: the world of each run
    Docs,       \* semantic document ids
    Batches,    \* the batches clients submit: sets of [doc, run]
    None

ASSUME RunAssumption ==
    /\ Runs \subseteq Nat
    /\ RunWorld \in [Runs -> Worlds \cup {None}]
    /\ None \notin Runs \cup Worlds \cup Clients
    /\ Batches \subseteq SUBSET [doc : Docs, run : Runs]
    /\ {} \notin Batches   \* upsert_batch returns at once

VARIABLES
    status,     \* embedding_runs.status, or "absent"
    active,     \* active_embedding_runs: the run a world serves, or None
    owner,      \* semantic_documents: the run of a stored document, or None
    runLock,    \* the client that holds the row of a run FOR UPDATE, or None
    pc,         \* per client, how far its transaction has come
    call,       \* per client, its call
    waiting,    \* per client, the runs it has still to lock
    seen,       \* per client, the status it read with each lock
    answer      \* per client, the run and documents its search found

tables == <<status, active, owner>>
session == <<pc, call, waiting, seen, answer>>
vars == <<tables, runLock, session>>

DocsOf(run) == {d \in Docs : owner[d] = run}

Init ==
    /\ status = [r \in Runs |-> "absent"]
    /\ active = [w \in Worlds |-> None]
    /\ owner = [d \in Docs |-> None]
    /\ runLock = [r \in Runs |-> None]
    /\ pc = [c \in Clients |-> "idle"]
    /\ call = [c \in Clients |-> None]
    /\ waiting = [c \in Clients |-> {}]
    /\ seen = [c \in Clients |-> [r \in Runs |-> "absent"]]
    /\ answer = [c \in Clients |-> None]

-----------------------------------------------------------------------------
(* Calls.  begin inserts the row in one statement; a replay finds it.      *)

Begin(c) ==
    \E r \in Runs :
        /\ pc[c] = "idle"
        /\ status[r] = "absent"
        /\ status' = [status EXCEPT ![r] = "running"]
        /\ UNCHANGED <<active, owner, runLock, session>>

Start(c, request, stage, runs) ==
    /\ pc[c] = "idle"
    /\ pc' = [pc EXCEPT ![c] = stage]
    /\ call' = [call EXCEPT ![c] = request]
    /\ waiting' = [waiting EXCEPT ![c] = runs]
    /\ UNCHANGED seen
    /\ answer' = [answer EXCEPT ![c] = None]
    /\ UNCHANGED <<tables, runLock>>

CallLifecycle(c) ==
    \E kind \in {"complete", "fail", "supersede", "activate", "delete"}, r \in Runs :
        Start(c, [kind |-> kind, run |-> r], "locking", {r})

CallUpsert(c) ==
    \E batch \in Batches :
        Start(c, [kind |-> "upsert", batch |-> batch], "locking", {b.run : b \in batch})

CallSearch(c) ==
    \E w \in Worlds, bound \in Runs \cup {None} :
        Start(c, [kind |-> "search", world |-> w, run |-> bound], "resolving", {})

-----------------------------------------------------------------------------
(* Locks.                                                                  *)

(* Commit or rollback: the transaction frees the rows it holds.            *)
End(c) ==
    /\ runLock' = [r \in Runs |-> IF runLock[r] = c THEN None ELSE runLock[r]]
    /\ pc' = [pc EXCEPT ![c] = "idle"]
    /\ call' = [call EXCEPT ![c] = None]
    /\ waiting' = [waiting EXCEPT ![c] = {}]
    /\ seen' = [seen EXCEPT ![c] = [r \in Runs |-> "absent"]]

Refuse(c) == End(c) /\ UNCHANGED <<tables, answer>>

(* Mutant: search reads the run of the pointer without locking its row.    *)
ResolveRunUnlocked(c) ==
    LET bound == IF call[c].run # None THEN call[c].run ELSE active[call[c].world]
    IN  /\ pc[c] = "resolving"
        /\ bound # None
        /\ call' = [call EXCEPT ![c] = [@ EXCEPT !.run = bound]]
        /\ seen' = [seen EXCEPT ![c][bound] = status[bound]]
        /\ pc' = [pc EXCEPT ![c] = "locked"]
        /\ UNCHANGED <<tables, runLock, waiting, answer>>

(* A search without a run binds the one its world serves just now.         *)
ResolveRun(c) ==
    LET bound == IF call[c].run # None THEN call[c].run ELSE active[call[c].world]
    IN  /\ pc[c] = "resolving"
        /\ bound # None
        /\ call' = [call EXCEPT ![c] = [@ EXCEPT !.run = bound]]
        /\ waiting' = [waiting EXCEPT ![c] = {bound}]
        /\ pc' = [pc EXCEPT ![c] = "locking"]
        /\ UNCHANGED <<tables, runLock, seen, answer>>

NoActiveRun(c) ==
    /\ pc[c] = "resolving"
    /\ call[c].run = None
    /\ active[call[c].world] = None
    /\ Refuse(c)

NextToLock(runs) == {r \in runs : \A other \in runs : r <= other}

TakeRun(c, r) ==
    /\ runLock[r] = None
    /\ runLock' = [runLock EXCEPT ![r] = c]

LockRun(c) ==
    \E r \in NextToLock(waiting[c]) :
        /\ pc[c] = "locking"
        /\ status[r] # "absent"
        /\ TakeRun(c, r)
        /\ seen' = [seen EXCEPT ![c][r] = status[r]]
        /\ waiting' = [waiting EXCEPT ![c] = @ \ {r}]
        /\ pc' = [pc EXCEPT ![c] = IF waiting[c] = {r} THEN "locked" ELSE "locking"]
        /\ UNCHANGED <<tables, call, answer>>

RunNotFound(c) ==
    /\ pc[c] = "locking"
    /\ \E r \in NextToLock(waiting[c]) : status[r] = "absent"
    /\ Refuse(c)

-----------------------------------------------------------------------------
(* What a transaction does once it holds its runs.                         *)

Locked(c, kind) == pc[c] = "locked" /\ call[c].kind = kind

Seen(c) == seen[c][call[c].run]

Persist(c, new) == status' = [status EXCEPT ![call[c].run] = new]

Complete(c) ==
    /\ Locked(c, "complete")
    /\ Seen(c) = "running"
    /\ Persist(c, "completed")
    /\ UNCHANGED <<active, owner, answer>>
    /\ End(c)

Fail(c) ==
    /\ Locked(c, "fail")
    /\ Seen(c) = "running"
    /\ Persist(c, "failed")
    /\ UNCHANGED <<active, owner, answer>>
    /\ End(c)

(* Mutant: the active pointer outlives the run.                            *)
SupersedeKeepsActive(c) ==
    /\ Locked(c, "supersede")
    /\ Seen(c) \in {"completed", "failed"}
    /\ Persist(c, "superseded")
    /\ UNCHANGED <<active, owner, answer>>
    /\ End(c)

Supersede(c) ==
    /\ Locked(c, "supersede")
    /\ Seen(c) \in {"completed", "failed"}
    /\ Persist(c, "superseded")
    /\ active' = [w \in Worlds |->
                     IF w = RunWorld[call[c].run] /\ active[w] = call[c].run
                     THEN None ELSE active[w]]
    /\ UNCHANGED <<owner, answer>>
    /\ End(c)

Activate(c) ==
    LET w == RunWorld[call[c].run]
    IN  /\ Locked(c, "activate")
        /\ Seen(c) = "completed"
        /\ w # None
        /\ active' = [active EXCEPT ![w] = call[c].run]
        /\ UNCHANGED <<status, owner, answer>>
        /\ End(c)

(* Mutant: the documents of a completed run may be deleted.                *)
DeleteCompleted(c) ==
    /\ Locked(c, "delete")
    /\ Seen(c) # "running"
    /\ owner' = [d \in Docs |-> IF owner[d] = call[c].run THEN None ELSE owner[d]]
    /\ UNCHANGED <<status, active, answer>>
    /\ End(c)

Delete(c) ==
    /\ Locked(c, "delete")
    /\ Seen(c) \in {"failed", "superseded"}
    /\ owner' = [d \in Docs |-> IF owner[d] = call[c].run THEN None ELSE owner[d]]
    /\ UNCHANGED <<status, active, answer>>
    /\ End(c)

(* A replay of the status a run has, or a transition it may not make.      *)
LifecycleUnchanged(c) ==
    /\ pc[c] = "locked"
    /\ \/ call[c].kind \in {"complete", "fail"} /\ Seen(c) # "running"
       \/ call[c].kind = "supersede" /\ Seen(c) \in {"running", "superseded"}
       \/ call[c].kind = "activate" /\ (Seen(c) # "completed" \/ RunWorld[call[c].run] = None)
       \/ call[c].kind = "delete" /\ Seen(c) \in {"running", "completed"}
    /\ Refuse(c)

(* Stored under the same run already, or new and its run is running.       *)
Acceptable(c, b) ==
    \/ owner[b.doc] = b.run
    \/ owner[b.doc] = None /\ seen[c][b.run] = "running"

Upsert(c) ==
    /\ Locked(c, "upsert")
    /\ \A b \in call[c].batch : Acceptable(c, b)
    /\ owner' = [d \in Docs |->
                    IF \E b \in call[c].batch : b.doc = d
                    THEN (CHOOSE b \in call[c].batch : b.doc = d).run ELSE owner[d]]
    /\ UNCHANGED <<status, active, answer>>
    /\ End(c)

UpsertRefused(c) ==
    /\ Locked(c, "upsert")
    /\ \E b \in call[c].batch : ~Acceptable(c, b)
    /\ Refuse(c)

(* _resolve_retrieval_run: only a completed run of the world, or of none.  *)
Eligible(c) ==
    /\ Seen(c) = "completed"
    /\ RunWorld[call[c].run] \in {None, call[c].world}

SearchRefused(c) ==
    /\ Locked(c, "search")
    /\ ~Eligible(c)
    /\ Refuse(c)

ReadEligible(c) ==
    /\ Locked(c, "search")
    /\ Eligible(c)
    /\ answer' = [answer EXCEPT ![c] =
          [run |-> call[c].run, eligible |-> DocsOf(call[c].run), ranked |-> None]]
    /\ pc' = [pc EXCEPT ![c] = "ranking"]
    /\ UNCHANGED <<tables, runLock, call, waiting, seen>>

(* The lexical and dense statements select among the eligible ids.         *)
Rank(c) ==
    /\ pc[c] = "ranking"
    /\ answer' = [answer EXCEPT ![c] =
          [@ EXCEPT !.ranked = {d \in answer[c].eligible : owner[d] # None}]]
    /\ UNCHANGED tables
    /\ End(c)

(* A statement or the COMMIT fails.                                        *)
Abort(c) == pc[c] # "idle" /\ Refuse(c)

-----------------------------------------------------------------------------
Step(c) ==
    \/ ResolveRun(c) \/ NoActiveRun(c) \/ RunNotFound(c)
    \/ Complete(c) \/ Fail(c) \/ Supersede(c) \/ Activate(c) \/ Delete(c)
    \/ LifecycleUnchanged(c) \/ Upsert(c) \/ UpsertRefused(c)
    \/ SearchRefused(c) \/ ReadEligible(c) \/ Rank(c)

Next == \E c \in Clients :
    \/ Begin(c) \/ CallLifecycle(c) \/ CallUpsert(c) \/ CallSearch(c)
    \/ LockRun(c) \/ Step(c) \/ Abort(c)

Spec == Init /\ [][Next]_vars

-----------------------------------------------------------------------------
Statuses == {"absent", "running", "completed", "failed", "superseded"}

(* Type correctness; a run that was never begun owns nothing.              *)
TypeOK ==
    /\ status \in [Runs -> Statuses]
    /\ active \in [Worlds -> Runs \cup {None}]
    /\ owner \in [Docs -> Runs \cup {None}]
    /\ runLock \in [Runs -> Clients \cup {None}]
    /\ pc \in [Clients -> {"idle", "resolving", "locking", "locked", "ranking"}]
    /\ waiting \in [Clients -> SUBSET Runs]
    /\ seen \in [Clients -> [Runs -> Statuses]]
    /\ \A r \in Runs : status[r] = "absent" => DocsOf(r) = {}

(* The run a world serves retrieval from is a completed run of that world: *)
(* an activation and a supersession of one run, or of two runs of a world, *)
(* never leave the pointer on a retired run.                               *)
ActiveRunServes ==
    \A w \in Worlds : active[w] # None =>
        /\ status[active[w]] = "completed"
        /\ RunWorld[active[w]] = w

(* The documents of a run are frozen while it is completed: a batch that   *)
(* saw the run running cannot land after its completion, and nothing is    *)
(* deleted before the run is retired.                                      *)
CorpusFrozen ==
    [][\A r \in Runs :
          DocsOf(r)' # DocsOf(r) =>
              \/ status[r] = "running" /\ DocsOf(r) \subseteq DocsOf(r)'
              \/ status[r] \in {"failed", "superseded"} /\ DocsOf(r)' = {}]_vars

(* A run settles once: of a completion racing a failure one loses, and no  *)
(* run comes back from its end.                                            *)
SettlesOnce ==
    [][\A r \in Runs : status'[r] # status[r] =>
          <<status[r], status'[r]>> \in
              {<<"absent", "running">>, <<"running", "completed">>, <<"running", "failed">>,
               <<"completed", "superseded">>, <<"failed", "superseded">>}]_vars

(* A search answers from one run, whole: its run is still completed and    *)
(* what it ranked is every document of it, although the search reads the   *)
(* documents in several statements and found the run without a lock.       *)
SearchSeesWholeRun ==
    [][\A c \in Clients : pc[c] = "ranking" /\ answer'[c] # answer[c] =>
          /\ status[answer[c].run] = "completed"
          /\ answer'[c].ranked = DocsOf(answer[c].run)]_vars

(* A batch that spans runs always ends: batches lock runs in one order.    *)
CallsEnd == \A c \in Clients : (pc[c] # "idle") ~> (pc[c] = "idle")

=============================================================================
