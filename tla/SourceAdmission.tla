--------------------------- MODULE SourceAdmission ---------------------------
(***************************************************************************)
(* The source catalog: artifacts and their immutable revisions, the        *)
(* admission of a pair under an expected graph head, and the reads of a    *)
(* pair (application/source_admission.py, infrastructure/postgres/         *)
(* records.py).                                                            *)
(*                                                                         *)
(* admit_source_revision probes for the receipt of its admission id, reads *)
(* the head, and runs one transaction that looks for the receipt again,    *)
(* locks the world, compares the head, and stores artifact, revision and   *)
(* receipt.  When that attempt fails, for whatever reason, it probes once  *)
(* more: a failed COMMIT may have committed.                               *)
(*                                                                         *)
(* Simplifications:                                                        *)
(*  - A record is its payload; content, locator and timestamps are `body`. *)
(*    A command is bound (its artifact names its revision and so on), as   *)
(*    the validation before the transaction demands.                       *)
(*  - Graph publication is one step: the store's own transactions, modelled*)
(*    in WorldGraph, move a head while they hold the lock of its world.    *)
(*  - READ COMMITTED, and inserts of one key wait for each other.          *)
(***************************************************************************)
EXTENDS Naturals, Sequences, FiniteSets

CONSTANTS
    Clients,
    Worlds,
    Heads,
    Artifacts, Revisions, Admissions,       \* ids, global across worlds
    Bodies,
    Commands,       \* the admissions submitted
    Puts,           \* the artifacts and revisions stored without admission
    None

ArtifactRecord == [world : Worlds, current : Revisions, body : Bodies]
RevisionRecord == [artifact : Artifacts, body : Bodies]

Command == [adm : Admissions, world : Worlds, expected : Heads,
            artifact : Artifacts, revision : Revisions,
            artifactBody : Bodies, revisionBody : Bodies]

ArtifactOf(m) == [world |-> m.world, current |-> m.revision, body |-> m.artifactBody]
RevisionOf(m) == [artifact |-> m.artifact, body |-> m.revisionBody]

Put == [kind : {"artifact"}, id : Artifacts, record : ArtifactRecord]
         \cup [kind : {"revision"}, id : Revisions, record : RevisionRecord]

CatalogParameters ==
    /\ Commands \subseteq Command
    /\ Puts \subseteq Put
    /\ Artifacts \cap Revisions = {}
    /\ (Artifacts \cup Revisions) \cap Admissions = {}
    /\ None \notin Clients \cup Worlds \cup Heads \cup Commands
    /\ None \notin ArtifactRecord \cup RevisionRecord

ASSUME CatalogAssumption == CatalogParameters

VARIABLES
    head,           \* world_graph_heads, or None
    artifacts,      \* source_artifacts: the record of an artifact, or None
    revisions,      \* source_revisions
    receipts,       \* source_admission_receipts: the command admitted, or None
    fresh,          \* per key, the open transaction that inserted it, or None
    worldLock,
    pc, call,
    todo,           \* per client, the keys its transaction has still to insert
    answer,         \* per client, its last finished call and what it was told
    pair            \* per client, what it has read of a pair

tables == <<head, artifacts, revisions, receipts>>
locks == <<fresh, worldLock>>
session == <<pc, call, todo, answer, pair>>
vars == <<tables, locks, session>>

Keys == Artifacts \cup Revisions \cup Admissions

NoPair == [read |-> "nothing", artifact |-> None, revision |-> None]

Init ==
    /\ head \in [Worlds -> Heads \cup {None}]
    /\ artifacts = [a \in Artifacts |-> None]
    /\ revisions = [r \in Revisions |-> None]
    /\ receipts = [m \in Admissions |-> None]
    /\ fresh = [k \in Keys |-> None]
    /\ worldLock = [w \in Worlds |-> None]
    /\ pc = [c \in Clients |-> "idle"]
    /\ call = [c \in Clients |-> None]
    /\ todo = [c \in Clients |-> <<>>]
    /\ answer = [c \in Clients |-> None]
    /\ pair = [c \in Clients |-> NoPair]

(* External to this module: a publication or a rollback moves a head.      *)
MoveHead(w) ==
    \E h \in Heads \ {head[w]} :
        /\ worldLock[w] = None
        /\ head' = [head EXCEPT ![w] = h]
        /\ UNCHANGED <<artifacts, revisions, receipts, locks, session>>

-----------------------------------------------------------------------------
(* Calls, transactions and their ends.                                     *)

Start(c, request, stage) ==
    /\ pc[c] = "idle"
    /\ pc' = [pc EXCEPT ![c] = stage]
    /\ call' = [call EXCEPT ![c] = request]
    /\ todo' = [todo EXCEPT ![c] = <<>>]
    /\ answer' = [answer EXCEPT ![c] = None]
    /\ pair' = [pair EXCEPT ![c] = NoPair]
    /\ UNCHANGED <<tables, locks>>

CallAdmit(c) == \E m \in Commands : Start(c, [kind |-> "admit", command |-> m], "probing")
CallPut(c) == \E p \in Puts : Start(c, [kind |-> "put", put |-> p], "putting")
CallRead(c) ==
    \E a \in Artifacts, r \in Revisions :
        Start(c, [kind |-> "read", artifact |-> a, revision |-> r], "reading pair")

Cmd(c) == call[c].command

Return(c, told) ==
    /\ pc' = [pc EXCEPT ![c] = "idle"]
    /\ answer' = [answer EXCEPT ![c] = [request |-> call[c], told |-> told]]
    /\ call' = [call EXCEPT ![c] = None]
    /\ todo' = [todo EXCEPT ![c] = <<>>]

Goto(c, stage) ==
    /\ pc' = [pc EXCEPT ![c] = stage]
    /\ UNCHANGED <<call, todo, answer>>

(* Mutant: a rolled back transaction leaves its world locked.              *)
UnlockFreshOnly(c) ==
    /\ fresh' = [k \in Keys |-> IF fresh[k] = c THEN None ELSE fresh[k]]
    /\ worldLock' = worldLock

Unlock(c) ==
    /\ fresh' = [k \in Keys |-> IF fresh[k] = c THEN None ELSE fresh[k]]
    /\ worldLock' = [w \in Worlds |-> IF worldLock[w] = c THEN None ELSE worldLock[w]]

InTransaction(c) == pc[c] \in {"attempting", "locking", "comparing", "inserting"}

(* The transaction of an admission fails: probe; that of a put: give up.   *)
FailAttempt(c) ==
    /\ InTransaction(c)
    /\ Unlock(c)
    /\ IF call[c].kind = "admit" THEN Goto(c, "recovering") ELSE Return(c, "failed")
    /\ UNCHANGED <<tables, pair>>

-----------------------------------------------------------------------------
(* The receipt of an admission id, found before, in or after the attempt.  *)
(* What an attempt finds, a probe after it would find again: receipts stay.*)

SameCommand(c) == receipts[Cmd(c).adm] = Cmd(c)

Probed(c) == pc[c] \in {"probing", "attempting", "recovering"} /\ call[c].kind = "admit"

ProbeFinds(c) ==
    /\ Probed(c)
    /\ receipts[Cmd(c).adm] # None
    /\ SameCommand(c)
    /\ Return(c, "receipt")
    /\ UNCHANGED <<tables, locks, pair>>

ProbeConflicts(c) ==
    /\ Probed(c)
    /\ receipts[Cmd(c).adm] # None
    /\ ~SameCommand(c)
    /\ Return(c, "conflict")
    /\ UNCHANGED <<tables, locks, pair>>

ProbeFindsNothing(c) ==
    /\ Probed(c)
    /\ receipts[Cmd(c).adm] = None
    /\ CASE pc[c] = "probing" -> Goto(c, "reading head")
         [] pc[c] = "attempting" -> Goto(c, "locking")
         [] pc[c] = "recovering" -> Return(c, "failed")
    /\ UNCHANGED <<tables, locks, pair>>

(* The probe itself fails; after an attempt the first error is raised.     *)
ProbeFails(c) ==
    /\ pc[c] \in {"probing", "reading head", "recovering"}
    /\ Return(c, "failed")
    /\ UNCHANGED <<tables, locks, pair>>

ReadHead(c) ==
    /\ pc[c] = "reading head"
    /\ IF head[Cmd(c).world] = Cmd(c).expected
       THEN Goto(c, "attempting")
       ELSE Return(c, "stale")
    /\ UNCHANGED <<tables, locks, pair>>

-----------------------------------------------------------------------------
(* The transaction.                                                        *)

WorldOf(c) ==
    CASE call[c].kind = "admit" -> Cmd(c).world
      [] call[c].kind = "put" ->
            IF call[c].put.kind = "artifact" THEN call[c].put.record.world
            ELSE artifacts[call[c].put.record.artifact].world

(* put_revision finds the world of a revision by its artifact.             *)
PutResolved(c) ==
    /\ pc[c] = "putting"
    /\ call[c].put.kind = "revision" => artifacts[call[c].put.record.artifact] # None
    /\ Goto(c, "locking")
    /\ UNCHANGED <<tables, locks, pair>>

PutOwnerMissing(c) ==
    /\ pc[c] = "putting"
    /\ call[c].put.kind = "revision"
    /\ artifacts[call[c].put.record.artifact] = None
    /\ Return(c, "failed")
    /\ UNCHANGED <<tables, locks, pair>>

(* Mutant: the worlds row is read without FOR UPDATE.                      *)
TakeWorldUnlocked(c, w) == pc[c] = "locking" /\ UNCHANGED worldLock

TakeWorld(c, w) ==
    /\ worldLock[w] = None
    /\ worldLock' = [worldLock EXCEPT ![w] = c]

LockWorld(c) ==
    /\ pc[c] = "locking"
    /\ TakeWorld(c, WorldOf(c))
    /\ pc' = [pc EXCEPT ![c] = IF call[c].kind = "admit" THEN "comparing" ELSE "inserting"]
    /\ todo' = [todo EXCEPT ![c] = IF call[c].kind = "put" THEN <<call[c].put.id>> ELSE <<>>]
    /\ UNCHANGED <<tables, fresh, call, answer, pair>>

CompareHead(c) ==
    /\ pc[c] = "comparing"
    /\ head[Cmd(c).world] = Cmd(c).expected
    /\ pc' = [pc EXCEPT ![c] = "inserting"]
    /\ todo' = [todo EXCEPT ![c] = <<Cmd(c).artifact, Cmd(c).revision, Cmd(c).adm>>]
    /\ UNCHANGED <<tables, locks, call, answer, pair>>

StaleHead(c) ==
    /\ pc[c] = "comparing"
    /\ head[Cmd(c).world] # Cmd(c).expected
    /\ FailAttempt(c)

Record(k) == CASE k \in Artifacts -> artifacts[k]
               [] k \in Revisions -> revisions[k]
               [] k \in Admissions -> receipts[k]

Submitted(c, k) ==
    IF call[c].kind = "put" THEN call[c].put.record
    ELSE CASE k \in Artifacts -> ArtifactOf(Cmd(c))
           [] k \in Revisions -> RevisionOf(Cmd(c))
           [] k \in Admissions -> Cmd(c)

(* Mutant: an artifact stored with another payload is taken for this one.  *)
ConflictsRevisionOnly(c, k) ==
    k \notin Artifacts /\ Record(k) # None /\ Record(k) # Submitted(c, k)

Conflicts(c, k) == Record(k) # None /\ Record(k) # Submitted(c, k)

(* INSERT ... ON CONFLICT DO NOTHING, then the row is compared.            *)
Insert(c) ==
    LET k == Head(todo[c])
    IN  /\ pc[c] = "inserting"
        /\ todo[c] # <<>>
        /\ fresh[k] = None
        /\ ~Conflicts(c, k)
        /\ fresh' = IF Record(k) = None THEN [fresh EXCEPT ![k] = c] ELSE fresh
        /\ todo' = [todo EXCEPT ![c] = Tail(@)]
        /\ UNCHANGED <<tables, worldLock, pc, call, answer, pair>>

InsertConflict(c) ==
    /\ pc[c] = "inserting"
    /\ todo[c] # <<>>
    /\ Conflicts(c, Head(todo[c]))
    /\ FailAttempt(c)

Write(c) ==
    /\ pc[c] = "inserting" /\ todo[c] = <<>>
    /\ artifacts' = [a \in Artifacts |-> IF fresh[a] = c THEN Submitted(c, a) ELSE artifacts[a]]
    /\ revisions' = [r \in Revisions |-> IF fresh[r] = c THEN Submitted(c, r) ELSE revisions[r]]
    /\ receipts' = [m \in Admissions |-> IF fresh[m] = c THEN Submitted(c, m) ELSE receipts[m]]
    /\ UNCHANGED <<head, pair>>
    /\ Unlock(c)

Commit(c) == Write(c) /\ Return(c, "receipt")

(* The COMMIT takes effect and its acknowledgement is lost.                *)
CommitLost(c) ==
    /\ Write(c)
    /\ IF call[c].kind = "admit" THEN Goto(c, "recovering") ELSE Return(c, "failed")

-----------------------------------------------------------------------------
(* get_provenance_snapshot: artifacts, then revisions, REPEATABLE READ.    *)

ReadArtifact(c) ==
    /\ pc[c] = "reading pair"
    /\ pair' = [pair EXCEPT ![c] =
          [read |-> "artifact", artifact |-> artifacts[call[c].artifact],
           revision |-> revisions[call[c].revision]]]
    /\ Goto(c, "reading revision")
    /\ UNCHANGED <<tables, locks>>

SnapshotRevision(c) == pair[c].revision

ReadRevision(c) ==
    /\ pc[c] = "reading revision"
    /\ pair' = [pair EXCEPT ![c] =
          [read |-> "both", artifact |-> pair[c].artifact, revision |-> SnapshotRevision(c)]]
    /\ Return(c, "pair")
    /\ UNCHANGED <<tables, locks>>

-----------------------------------------------------------------------------
Step(c) ==
    \/ ProbeFinds(c) \/ ProbeConflicts(c) \/ ProbeFindsNothing(c) \/ ReadHead(c)
    \/ PutResolved(c) \/ PutOwnerMissing(c) \/ CompareHead(c) \/ StaleHead(c)
    \/ InsertConflict(c) \/ Commit(c) \/ ReadArtifact(c) \/ ReadRevision(c)

Wait(c) == LockWorld(c) \/ Insert(c)

Next ==
    \/ \E w \in Worlds : MoveHead(w)
    \/ \E c \in Clients :
          \/ CallAdmit(c) \/ CallPut(c) \/ CallRead(c)
          \/ Step(c) \/ Wait(c)
          \/ CommitLost(c) \/ FailAttempt(c) \/ ProbeFails(c)

Spec == Init /\ [][Next]_vars

(* A transaction executes its next statement; PostgreSQL queues waiters.   *)
Fairness == \A c \in Clients : WF_vars(Step(c)) /\ SF_vars(Wait(c))

FairSpec == Spec /\ Fairness

-----------------------------------------------------------------------------
(* A receipt is evidence of a whole pair: the artifact and the revision    *)
(* of its command are stored exactly as admitted, even when one of them    *)
(* was there before; and a caller that got a receipt got the receipt of    *)
(* its own command, through retries, twins under the same admission id and *)
(* lost acknowledgements.                                                  *)
ReceiptBacked ==
    /\ \A m \in Admissions : receipts[m] # None =>
        /\ artifacts[receipts[m].artifact] = ArtifactOf(receipts[m])
        /\ revisions[receipts[m].revision] = RevisionOf(receipts[m])
    /\ \A c \in Clients :
        answer[c] # None /\ answer[c].told = "receipt" /\ answer[c].request.kind = "admit" =>
            receipts[answer[c].request.command.adm] = answer[c].request.command

(* A pair is admitted only while the world's head is the one the command   *)
(* expects: no publication slips between the comparison and the commit.    *)
AdmittedUnderHead ==
    [][\A m \in Admissions : receipts[m] = None /\ receipts'[m] # None =>
          head[receipts'[m].world] = receipts'[m].expected]_vars

(* Every call ends: worlds are locked before keys, and keys are inserted   *)
(* artifact first, receipt last, so admissions of the same ids into two    *)
(* worlds do not wait on each other in a circle.                           *)
CallsEnd == \A c \in Clients : (pc[c] # "idle") ~> (pc[c] = "idle")

=============================================================================
