------------------------- MODULE ContributionReviews -------------------------
(***************************************************************************)
(* The contribution ledger of one world and its finalized reviews          *)
(* (infrastructure/postgres/records.py): append, update_status, finalize.  *)
(*                                                                         *)
(* finalize stores the candidate, marked superseded, the reviewed          *)
(* contribution, active, and the review that names both, under the lock of *)
(* the world.  update_status does not take that lock: it locks the         *)
(* contribution's row, looks for a review that protects it, and writes.    *)
(* What keeps the two apart is the foreign key of the review: its insert   *)
(* takes the rows of both contributions FOR KEY SHARE, and waits for a row *)
(* held FOR UPDATE; then finalize reads the two rows again.                *)
(*                                                                         *)
(* Simplifications:                                                        *)
(*  - One world, which exists.  A contribution's content is `body`; its    *)
(*    fingerprint is the whole row.  Of the diagnostics only superseded_by *)
(*    is kept.  Evidence with the same id has the same payload.            *)
(*  - The profile use that finalize records is modelled in WorldGraph.     *)
(*  - READ COMMITTED: writes show at the commit, but a row inserted by an  *)
(*    open transaction makes another insert of its key wait.               *)
(***************************************************************************)
EXTENDS Naturals, Sequences, FiniteSets, SequencesExt

CONSTANTS
    Clients,
    Contributions,
    Evidence,
    EvidenceOf,     \* [Contributions -> Seq(Evidence)]: in assertion order
    Corrects,       \* [Contributions -> SUBSET Contributions]: v2 corrections
    Bodies,
    Appends,        \* the contributions submitted: [id, row]
    Updates,        \* the status updates submitted: [id, status, by]
    Reviews,        \* the review states submitted: records with at least op, plan,
                    \* candidate, reviewed and the bodies of those two
    None

Statuses == {"active", "superseded", "retracted", "failed"}

Row == [body : Bodies, status : Statuses, by : Contributions \cup {None}]

ASSUME LedgerAssumption ==
    /\ Contributions \cap Evidence = {}
    /\ EvidenceOf \in [Contributions -> Seq(Evidence)]
    /\ Corrects \in [Contributions -> SUBSET Contributions]
    /\ Appends \subseteq [id : Contributions, row : Row]
    /\ Updates \subseteq
          [id : Contributions, status : Statuses, by : Contributions \cup {None}]
    /\ \A r \in Reviews :
         /\ {r.candidate, r.reviewed} \subseteq Contributions
         /\ r.candidate # r.reviewed
         /\ {r.candidateBody, r.reviewedBody} \subseteq Bodies
    /\ None \notin Clients \cup Contributions \cup Row

VARIABLES
    rows,           \* graph_contributions: the row of a contribution, or None
    evidence,       \* evidence_refs
    reviews,        \* contribution_reviews
    fresh,          \* per key, the open transaction that inserted it, or None
    worldLock,      \* the transaction that holds the worlds row FOR UPDATE
    worldShare,     \* the transactions that hold it FOR KEY SHARE
    rowLock,        \* per contribution, the same two for its row
    rowShare,
    pc, call,
    todo,           \* per client, the keys it has still to insert or to share
    seen            \* per client, the row it read with its lock

tables == <<rows, evidence, reviews>>
locks == <<fresh, worldLock, worldShare, rowLock, rowShare>>
session == <<pc, call, todo, seen>>
vars == <<tables, locks, session>>

Keys == Contributions \cup Evidence

Init ==
    /\ rows = [x \in Contributions |-> None]
    /\ evidence = {}
    /\ reviews = {}
    /\ fresh = [k \in Keys |-> None]
    /\ worldLock = None
    /\ worldShare = {}
    /\ rowLock = [x \in Contributions |-> None]
    /\ rowShare = [x \in Contributions |-> {}]
    /\ pc = [c \in Clients |-> "idle"]
    /\ call = [c \in Clients |-> None]
    /\ todo = [c \in Clients |-> <<>>]
    /\ seen = [c \in Clients |-> None]

-----------------------------------------------------------------------------
(* Calls and ends.                                                         *)

CandidateRow(r) == [body |-> r.candidateBody, status |-> "superseded", by |-> None]
ReviewedRow(r) == [body |-> r.reviewedBody, status |-> "active", by |-> None]

KeysOf(x) == Append(EvidenceOf[x], x)

Start(c, request, stage, keys) ==
    /\ pc[c] = "idle"
    /\ pc' = [pc EXCEPT ![c] = stage]
    /\ call' = [call EXCEPT ![c] = request]
    /\ todo' = [todo EXCEPT ![c] = keys]
    /\ UNCHANGED <<tables, locks, seen>>

CallAppend(c) ==
    \E a \in Appends :
        Start(c, [kind |-> "append", put |-> {a}], "closing", KeysOf(a.id))

CallUpdate(c) ==
    \E u \in Updates :
        Start(c, [kind |-> "update", id |-> u.id, status |-> u.status, by |-> u.by],
              "updating", <<>>)

CallFinalize(c) ==
    \E r \in Reviews :
        Start(c, [kind |-> "finalize", review |-> r,
                  put |-> {[id |-> r.candidate, row |-> CandidateRow(r)],
                           [id |-> r.reviewed, row |-> ReviewedRow(r)]}],
              "finalizing", KeysOf(r.candidate) \o KeysOf(r.reviewed))

End(c) ==
    /\ fresh' = [k \in Keys |-> IF fresh[k] = c THEN None ELSE fresh[k]]
    /\ worldLock' = IF worldLock = c THEN None ELSE worldLock
    /\ worldShare' = worldShare \ {c}
    /\ rowLock' = [x \in Contributions |-> IF rowLock[x] = c THEN None ELSE rowLock[x]]
    /\ rowShare' = [x \in Contributions |-> rowShare[x] \ {c}]
    /\ pc' = [pc EXCEPT ![c] = "idle"]
    /\ call' = [call EXCEPT ![c] = None]
    /\ todo' = [todo EXCEPT ![c] = <<>>]
    /\ seen' = [seen EXCEPT ![c] = None]

Refuse(c) == End(c) /\ UNCHANGED tables

-----------------------------------------------------------------------------
(* _append_contribution_in_transaction: the evidence, then the row, each   *)
(* INSERT ... ON CONFLICT DO NOTHING and a read that compares.             *)

Stored(k) == IF k \in Evidence THEN k \in evidence ELSE rows[k] # None

Submitted(c, x) == (CHOOSE a \in call[c].put : a.id = x).row

Conflicts(c, k) ==
    k \in Contributions /\ rows[k] # None /\ rows[k] # Submitted(c, k)

(* The foreign key of a new row takes the worlds row FOR KEY SHARE.        *)
ShareWorld(c, k) ==
    IF k \in Evidence \/ Stored(k)
    THEN UNCHANGED worldShare
    ELSE worldLock \in {None, c} /\ worldShare' = worldShare \cup {c}

InsertKey(c, k) ==
    /\ fresh[k] \in {None, c}
    /\ ~Conflicts(c, k)
    /\ ShareWorld(c, k)
    /\ fresh' = IF Stored(k) THEN fresh ELSE [fresh EXCEPT ![k] = c]

Insert(c) ==
    /\ pc[c] = "inserting"
    /\ todo[c] # <<>>
    /\ InsertKey(c, Head(todo[c]))
    /\ todo' = [todo EXCEPT ![c] = Tail(@)]
    /\ UNCHANGED <<tables, worldLock, rowLock, rowShare, pc, call, seen>>

InsertConflict(c) ==
    /\ pc[c] = "inserting"
    /\ todo[c] # <<>>
    /\ Conflicts(c, Head(todo[c]))
    /\ Refuse(c)

(* The rows and evidence this transaction inserted show at its commit.     *)
Inserted(c, x) == fresh[x] = c
RowsAtCommit(c) == [x \in Contributions |-> IF Inserted(c, x) THEN Submitted(c, x) ELSE rows[x]]
EvidenceAtCommit(c) == evidence \cup {e \in Evidence : Inserted(c, e)}

-----------------------------------------------------------------------------
(* append: a v2 contribution corrects contributions already stored.        *)

CloseCorrections(c) ==
    /\ pc[c] = "closing"
    /\ \A a \in call[c].put : \A x \in Corrects[a.id] : rows[x] # None
    /\ pc' = [pc EXCEPT ![c] = "inserting"]
    /\ UNCHANGED <<tables, locks, call, todo, seen>>

CorrectionMissing(c) ==
    /\ pc[c] = "closing"
    /\ \E a \in call[c].put : \E x \in Corrects[a.id] : rows[x] = None
    /\ Refuse(c)

AppendCommit(c) ==
    /\ pc[c] = "inserting" /\ todo[c] = <<>> /\ call[c].kind = "append"
    /\ rows' = RowsAtCommit(c)
    /\ evidence' = EvidenceAtCommit(c)
    /\ UNCHANGED reviews
    /\ End(c)

-----------------------------------------------------------------------------
(* update_status.                                                          *)

(* Mutant: the contribution is read without FOR UPDATE.                    *)
TakeRowUnlocked(c, x) ==
    /\ pc[c] = "updating"
    /\ UNCHANGED rowLock

TakeRow(c, x) ==
    /\ rowLock[x] = None
    /\ rowShare[x] = {}
    /\ rowLock' = [rowLock EXCEPT ![x] = c]

LockRow(c) ==
    LET x == call[c].id
    IN  /\ pc[c] = "updating"
        /\ rows[x] # None
        /\ TakeRow(c, x)
        /\ seen' = [seen EXCEPT ![c] = rows[x]]
        /\ pc' = [pc EXCEPT ![c] = "checking"]
        /\ UNCHANGED <<tables, fresh, worldLock, worldShare, rowShare, call, todo>>

ContributionNotFound(c) ==
    /\ pc[c] = "updating"
    /\ rows[call[c].id] = None
    /\ Refuse(c)

Protected(x) == \E r \in reviews : x \in {r.candidate, r.reviewed}

UpdateProtected(c) ==
    /\ pc[c] = "checking"
    /\ Protected(call[c].id)
    /\ Refuse(c)

UpdateUnprotected(c) ==
    /\ pc[c] = "checking"
    /\ ~Protected(call[c].id)
    /\ pc' = [pc EXCEPT ![c] = "writing"]
    /\ UNCHANGED <<tables, locks, call, todo, seen>>

UpdateCommit(c) ==
    /\ pc[c] = "writing"
    /\ rows' = [rows EXCEPT ![call[c].id] =
          [body |-> seen[c].body, status |-> call[c].status,
           by |-> IF call[c].by = None THEN seen[c].by ELSE call[c].by]]
    /\ UNCHANGED <<evidence, reviews>>
    /\ End(c)

-----------------------------------------------------------------------------
(* finalize.                                                               *)

LockWorld(c) ==
    /\ pc[c] = "finalizing"
    /\ worldLock = None
    /\ worldShare = {}
    /\ worldLock' = c
    /\ pc' = [pc EXCEPT ![c] = "looking"]
    /\ UNCHANGED <<tables, fresh, worldShare, rowLock, rowShare, call, todo, seen>>

(* A review of this operation or of this plan is stored: the exact replay  *)
(* is answered with its state, anything else is refused; both change       *)
(* nothing.                                                                *)
SameOperationOrPlan(r, s) == r.op = s.op \/ r.plan = s.plan

FinalizeExisting(c) ==
    /\ pc[c] = "looking"
    /\ \E r \in reviews : SameOperationOrPlan(r, call[c].review)
    /\ Refuse(c)

FinalizeNew(c) ==
    /\ pc[c] = "looking"
    /\ ~\E r \in reviews : SameOperationOrPlan(r, call[c].review)
    /\ pc' = [pc EXCEPT ![c] = "inserting"]
    /\ UNCHANGED <<tables, locks, call, todo, seen>>

InsertReview(c) ==
    /\ pc[c] = "inserting" /\ todo[c] = <<>> /\ call[c].kind = "finalize"
    /\ pc' = [pc EXCEPT ![c] = "referring"]
    /\ todo' = [todo EXCEPT ![c] = <<call[c].review.candidate, call[c].review.reviewed>>]
    /\ UNCHANGED <<tables, locks, call, seen>>

(* The foreign keys of the review take its contributions FOR KEY SHARE.    *)
ShareRow(c) ==
    LET x == Head(todo[c])
    IN  /\ pc[c] = "referring"
        /\ todo[c] # <<>>
        /\ rowLock[x] = None
        /\ rowShare' = [rowShare EXCEPT ![x] = @ \cup {c}]
        /\ todo' = [todo EXCEPT ![c] = Tail(@)]
        /\ UNCHANGED <<tables, fresh, worldLock, worldShare, rowLock, pc, call, seen>>

(* _return_review_state: the two rows, read again, are what was reviewed.  *)
(* Mutant: finalize answers from its input, as before the re-read.         *)
ReviewStateUnread(stored, r) == stored[r.candidate] # None

ReviewState(stored, r) ==
    /\ stored[r.candidate] = CandidateRow(r)
    /\ stored[r.reviewed] = ReviewedRow(r)

FinalizeCommit(c) ==
    /\ pc[c] = "referring" /\ todo[c] = <<>>
    /\ ReviewState(RowsAtCommit(c), call[c].review)
    /\ rows' = RowsAtCommit(c)
    /\ evidence' = EvidenceAtCommit(c)
    /\ reviews' = reviews \cup {call[c].review}
    /\ End(c)

FinalizeDrifted(c) ==
    /\ pc[c] = "referring" /\ todo[c] = <<>>
    /\ ~ReviewState(RowsAtCommit(c), call[c].review)
    /\ Refuse(c)

-----------------------------------------------------------------------------
(* A statement or the COMMIT fails; or PostgreSQL finds the transaction in *)
(* a cycle of waiters and aborts it.                                       *)

Abort(c) == pc[c] # "idle" /\ Refuse(c)

WaitsFor(c) ==
    CASE pc[c] = "inserting" /\ todo[c] # <<>> ->
            LET k == Head(todo[c])
            IN  ({fresh[k]} \cup (IF k \in Evidence \/ Stored(k) THEN {} ELSE {worldLock})) \ {None, c}
      [] pc[c] = "finalizing" -> ({worldLock} \cup worldShare) \ {None, c}
      [] pc[c] = "referring" /\ todo[c] # <<>> -> {rowLock[Head(todo[c])]} \ {None, c}
      [] pc[c] = "updating" -> ({rowLock[call[c].id]} \cup rowShare[call[c].id]) \ {None, c}
      [] OTHER -> {}

Deadlocked(c) ==
    \E S \in SUBSET Clients :
        /\ c \in S
        /\ \A d \in S : WaitsFor(d) \cap S # {} /\ \E other \in S : d \in WaitsFor(other)

DetectDeadlock(c) == Deadlocked(c) /\ Refuse(c)

-----------------------------------------------------------------------------
Step(c) ==
    \/ CloseCorrections(c) \/ CorrectionMissing(c) \/ InsertConflict(c) \/ AppendCommit(c)
    \/ ContributionNotFound(c) \/ UpdateProtected(c) \/ UpdateUnprotected(c) \/ UpdateCommit(c)
    \/ FinalizeExisting(c) \/ FinalizeNew(c) \/ InsertReview(c)
    \/ FinalizeCommit(c) \/ FinalizeDrifted(c) \/ DetectDeadlock(c)

Wait(c) == LockRow(c) \/ LockWorld(c) \/ ShareRow(c) \/ Insert(c)

Next == \E c \in Clients :
    \/ CallAppend(c) \/ CallUpdate(c) \/ CallFinalize(c)
    \/ Step(c) \/ LockRow(c) \/ LockWorld(c) \/ ShareRow(c) \/ Insert(c) \/ Abort(c)

Spec == Init /\ [][Next]_vars

-----------------------------------------------------------------------------
(* A finalized review can always be read back: its candidate is still the  *)
(* superseded contribution and its successor the active one that were      *)
(* reviewed, whatever status updates raced with the finalization without   *)
(* the world's lock; and the evidence the two cite is stored, so that no   *)
(* row was relied on that another transaction then rolled back.            *)
ReviewsReload ==
    \A r \in reviews :
        /\ rows[r.candidate] = [body |-> r.candidateBody, status |-> "superseded", by |-> None]
        /\ rows[r.reviewed] = [body |-> r.reviewedBody, status |-> "active", by |-> None]
        /\ ToSet(EvidenceOf[r.candidate]) \cup ToSet(EvidenceOf[r.reviewed]) \subseteq evidence

(* The ledger forgets nothing: a contribution keeps its content, and the   *)
(* forward pointer one update wrote is not lost to another that read the   *)
(* row before it.                                                          *)
ForwardPointerKept ==
    [][\A x \in Contributions : rows[x] # None =>
          /\ rows'[x] # None
          /\ rows'[x].body = rows[x].body
          /\ rows[x].by # None => rows'[x].by # None]_vars
=============================================================================
