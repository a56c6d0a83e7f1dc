--------------------------- MODULE KnowledgeSpaces ---------------------------
(***************************************************************************)
(* Native knowledge spaces: the PostgreSQL authority over their revisions, *)
(* heads and publication receipts (infrastructure/postgres/                *)
(* vnext_knowledge.py over application/vnext/authority.py) and the client  *)
(* procedures that publish under a publication id, publish a prospective   *)
(* contribution, and provision an empty space under an allocation id       *)
(* (application/vnext/publication.py, prospective.py, space_provisioning.  *)
(* py).                                                                    *)
(*                                                                         *)
(* A publication is one transaction: it locks the row of its space, looks  *)
(* for the receipt of its id, and otherwise compares the expected parent   *)
(* with the head, adds the revision, moves the head and stores the         *)
(* receipt.  When the transaction fails and may have committed, the client *)
(* looks once for the receipt.  Provisioning holds an advisory lock on its *)
(* allocation id and inserts the row of a space whose id it has minted.    *)
(*                                                                         *)
(* Simplifications:                                                        *)
(*  - A revision id is a digest of its space, its parent and its content:  *)
(*    it is the sequence of operations from the genesis, and <<>> is the   *)
(*    parent of a genesis.  A command's digest is its operation, with its  *)
(*    creation time, and its parent; a provisioning's time is not part of  *)
(*    its request.                                                         *)
(*  - An operation stands for a sealed, validated change; over which       *)
(*    parents it can be materialized is a parameter, which NativeSpaces    *)
(*    defines by what the change does.                                     *)
(*  - READ COMMITTED; a transaction writes when it commits.                *)
(***************************************************************************)
EXTENDS Naturals, Sequences, FiniteSets

CONSTANTS
    Clients,
    Spaces,         \* space ids
    Pids,           \* publication ids
    Genesis,        \* the publication id of provisioned genesis revisions
    Ops,            \* operations: the sealed content of a command
    Sealed(_, _),   \* whether an operation can be materialized over a parent
    Allocations,    \* allocation ids
    Requests,       \* what clients publish
    Provisions,     \* what clients provision
    MaxCalls,       \* bounds the calls of a behaviour
    MaxMints,       \* the space ids one provisioning may try
    None

Kinds == {"raw", "publish", "prospect"}

ASSUME SpacesAssumption ==
    /\ Genesis \in Pids
    /\ Requests \subseteq [kind : Kinds, space : Spaces, pid : Pids \ {Genesis}, op : Ops]
    /\ Provisions \subseteq [alloc : Allocations, op : Ops]
    /\ MaxCalls \in Nat /\ MaxMints \in Nat \ {0}
    /\ None \notin Clients \cup Spaces \cup Seq(Ops)
    /\ None \notin [op : Ops, parent : Seq(Ops)]
    /\ None \notin [space : Spaces, op : Ops]

VARIABLES
    created,        \* knowledge_spaces
    revisions,      \* knowledge_revisions of a space
    head,           \* knowledge_heads, <<>> when the space has none
    receipts,       \* knowledge_publication_receipts: the command, or None
    results,        \* knowledge_prospective_publication_results: the keys
    allocated,      \* knowledge_space_provisioning_receipts, or None
    spaceLock,      \* holder of a space's row, stored or being inserted
    allocLock,      \* holder of the advisory lock of an allocation id
    pc, call,
    told,           \* every answer given, with what it answered
    calls           \* how many calls were made

tables == <<created, revisions, head, receipts, results, allocated>>
locks == <<spaceLock, allocLock>>
vars == <<tables, locks, pc, call, told, calls>>

Init ==
    /\ created = {}
    /\ revisions = [s \in Spaces |-> {}]
    /\ head = [s \in Spaces |-> <<>>]
    /\ receipts = [s \in Spaces |-> [p \in Pids |-> None]]
    /\ results = {}
    /\ allocated = [a \in Allocations |-> None]
    /\ spaceLock = [s \in Spaces |-> None]
    /\ allocLock = [a \in Allocations |-> None]
    /\ pc = [c \in Clients |-> "idle"]
    /\ call = [c \in Clients |-> None]
    /\ told = {}
    /\ calls = 0

(* The command of a call, and the revision it would publish.               *)
Command(m) == [op |-> m.op, parent |-> m.parent]

RevisionOf(m) == Append(m.parent, m.op)

ReceiptOf(c) == receipts[call[c].space][call[c].pid]

-----------------------------------------------------------------------------
(* Calls and their ends.                                                   *)

Begin(c, m, stage) ==
    /\ pc[c] = "idle" /\ calls < MaxCalls
    /\ pc' = [pc EXCEPT ![c] = stage]
    /\ call' = [call EXCEPT ![c] = m]
    /\ calls' = calls + 1
    /\ UNCHANGED <<tables, locks, told>>

(* A command is built on a revision its client has read, or as a genesis,  *)
(* and only if its content materializes.                                   *)
CallPublish(c) ==
    \E q \in Requests : \E parent \in revisions[q.space] \cup {<<>>} :
        /\ Sealed(parent, q.op)
        /\ Begin(c, [kind |-> q.kind, space |-> q.space, pid |-> q.pid, op |-> q.op,
                     parent |-> parent, alloc |-> None, mints |-> 0], "locking space")

CallProvision(c) ==
    \E q \in Provisions, s \in Spaces :
        Begin(c, [kind |-> "provision", space |-> s, pid |-> Genesis, op |-> q.op,
                  parent |-> <<>>, alloc |-> q.alloc, mints |-> 1], "locking allocation")

Release(c) ==
    /\ spaceLock' = [s \in Spaces |-> IF spaceLock[s] = c THEN None ELSE spaceLock[s]]
    /\ allocLock' = [a \in Allocations |-> IF allocLock[a] = c THEN None ELSE allocLock[a]]

(* A call is answered and its transaction, if it is in one, ends.          *)
Answer(c, what) ==
    /\ told' = told \cup {[answer |-> what, request |-> call[c]]}
    /\ pc' = [pc EXCEPT ![c] = "idle"]
    /\ call' = [call EXCEPT ![c] = None]
    /\ Release(c)
    /\ UNCHANGED calls

-----------------------------------------------------------------------------
(* Publication.                                                            *)

AcquireSpaceUnlocked(s, c) == UNCHANGED spaceLock

(* The row of the space is inserted when it is missing, and locked.        *)
AcquireSpace(s, c) ==
    /\ spaceLock[s] = None
    /\ spaceLock' = [spaceLock EXCEPT ![s] = c]

LockSpace(c) ==
    /\ pc[c] = "locking space"
    /\ AcquireSpace(call[c].space, c)
    /\ pc' = [pc EXCEPT ![c] = "deciding"]
    /\ UNCHANGED <<tables, allocLock, call, told, calls>>

(* Whether a publication id stands for exactly this command.               *)
Recorded(m) ==
    /\ receipts[m.space][m.pid] = Command(m)
    /\ m.kind = "prospect" => <<m.space, m.pid>> \in results

Replay(c) ==
    /\ pc[c] = "deciding"
    /\ call[c].kind \in {"publish", "prospect"}
    /\ Recorded(call[c])
    /\ Answer(c, "receipt")
    /\ UNCHANGED tables

IdempotencyConflict(c) ==
    /\ pc[c] = "deciding"
    /\ call[c].kind \in {"publish", "prospect"}
    /\ ReceiptOf(c) # None
    /\ ~Recorded(call[c])
    /\ Answer(c, "conflict")
    /\ UNCHANGED tables

UnrecordedUnchecked(c) == TRUE

(* Nothing is on record under the id of this call.                         *)
Unrecorded(c) == call[c].kind = "raw" \/ ReceiptOf(c) = None

StaleParent(c) ==
    /\ pc[c] = "deciding"
    /\ Unrecorded(c)
    /\ head[call[c].space] # call[c].parent
    /\ Answer(c, "stale")
    /\ UNCHANGED tables

Write(c) ==
    /\ pc[c] = "deciding"
    /\ Unrecorded(c)
    /\ head[call[c].space] = call[c].parent
    /\ pc' = [pc EXCEPT ![c] = "committing"]
    /\ UNCHANGED <<tables, locks, call, told, calls>>

(* The rows of a publication become visible.                               *)
Publish(m) ==
    /\ created' = created \cup {m.space}
    /\ revisions' = [revisions EXCEPT ![m.space] = @ \cup {RevisionOf(m)}]
    /\ head' = [head EXCEPT ![m.space] = RevisionOf(m)]
    /\ receipts' = IF m.kind = "raw" THEN receipts
                   ELSE [receipts EXCEPT ![m.space][m.pid] = Command(m)]
    /\ results' = IF m.kind = "prospect" THEN results \cup {<<m.space, m.pid>>}
                  ELSE results

(* The primary keys of the receipts.                                       *)
KeyTaken(m) ==
    \/ m.kind # "raw" /\ receipts[m.space][m.pid] # None
    \/ m.kind = "provision" /\ allocated[m.alloc] # None

Commit(c) ==
    /\ Publish(call[c])
    /\ allocated' = IF call[c].kind # "provision" THEN allocated
                    ELSE [allocated EXCEPT ![call[c].alloc] =
                            [space |-> call[c].space, op |-> call[c].op]]

(* A second row of one key is refused and rolls the transaction back.      *)
CommitAnswered(c) ==
    /\ pc[c] = "committing"
    /\ IF KeyTaken(call[c])
       THEN Answer(c, "duplicate key") /\ UNCHANGED tables
       ELSE Commit(c) /\ Answer(c, "receipt")

-----------------------------------------------------------------------------
(* Failures, and the recovery of a call whose outcome is unknown.          *)

Probes(c) == call[c].kind \in {"publish", "prospect"}

(* The transaction's end is not known to its client: a publication of an   *)
(* id looks for its receipt, the others raise what they caught.            *)
OutcomeUnknown(c) ==
    \/ /\ Probes(c)
       /\ pc' = [pc EXCEPT ![c] = "probing"]
       /\ Release(c)
       /\ UNCHANGED <<call, told, calls>>
    \/ /\ ~Probes(c)
       /\ Answer(c, "unknown")

CommitLost(c) ==
    /\ pc[c] = "committing"
    /\ ~KeyTaken(call[c])
    /\ Commit(c)
    /\ OutcomeUnknown(c)

Abort(c) ==
    /\ pc[c] \in {"locking space", "locking allocation", "minting", "deciding", "committing"}
    /\ OutcomeUnknown(c)
    /\ UNCHANGED tables

ProbeFound(c) ==
    /\ pc[c] = "probing"
    /\ Recorded(call[c])
    /\ Answer(c, "receipt")
    /\ UNCHANGED tables

(* The id stands for another command.  A prospective probe that finds no   *)
(* result reports a conflict; otherwise the receipt is verified against    *)
(* the command and the mismatch is an integrity error.                     *)
ProbeMismatch(c) ==
    /\ pc[c] = "probing"
    /\ ReceiptOf(c) # None
    /\ ~Recorded(call[c])
    /\ IF call[c].kind = "prospect" /\ <<call[c].space, call[c].pid>> \notin results
       THEN Answer(c, "conflict")
       ELSE Answer(c, "integrity error")
    /\ UNCHANGED tables

(* No receipt, or the probe fails as well.                                 *)
ProbeFailed(c) ==
    /\ pc[c] = "probing"
    /\ Answer(c, "unknown")
    /\ UNCHANGED tables

-----------------------------------------------------------------------------
(* Provisioning.                                                           *)

AcquireAllocation(a, c) ==
    /\ allocLock[a] = None
    /\ allocLock' = [allocLock EXCEPT ![a] = c]

LockAllocation(c) ==
    /\ pc[c] = "locking allocation"
    /\ AcquireAllocation(call[c].alloc, c)
    /\ pc' = [pc EXCEPT ![c] = "minting"]
    /\ UNCHANGED <<tables, spaceLock, call, told, calls>>

Allocated(c) == allocated[call[c].alloc]

SameRequestUnchecked(c) == TRUE

SameRequest(c) == Allocated(c).op = call[c].op

(* The allocation id is on record: its space is the answer.                *)
ProvisionReplay(c) ==
    /\ pc[c] = "minting"
    /\ Allocated(c) # None /\ SameRequest(c)
    /\ told' = told \cup {[answer |-> "receipt",
                           request |-> [call[c] EXCEPT !.space = Allocated(c).space]]}
    /\ pc' = [pc EXCEPT ![c] = "idle"]
    /\ call' = [call EXCEPT ![c] = None]
    /\ Release(c)
    /\ UNCHANGED <<tables, calls>>

ProvisionConflict(c) ==
    /\ pc[c] = "minting"
    /\ Allocated(c) # None /\ ~SameRequest(c)
    /\ Answer(c, "conflict")
    /\ UNCHANGED tables

(* The insert of the space's row waits for another that is not committed.  *)
MintSpace(c) ==
    LET s == call[c].space IN
    /\ pc[c] = "minting"
    /\ Allocated(c) = None
    /\ s \notin created
    /\ AcquireSpace(s, c)
    /\ pc' = [pc EXCEPT ![c] = "deciding"]
    /\ UNCHANGED <<tables, allocLock, call, told, calls>>

(* The minted id is taken: the transaction ends and another id is tried.   *)
MintCollision(c) ==
    /\ pc[c] = "minting"
    /\ Allocated(c) = None
    /\ call[c].space \in created
    /\ IF call[c].mints = MaxMints
       THEN Answer(c, "exhausted")
       ELSE \E s \in Spaces :
              /\ call' = [call EXCEPT ![c].space = s, ![c].mints = @ + 1]
              /\ pc' = [pc EXCEPT ![c] = "locking allocation"]
              /\ Release(c)
              /\ UNCHANGED <<told, calls>>
    /\ UNCHANGED tables

-----------------------------------------------------------------------------
Lock(c) == LockSpace(c) \/ LockAllocation(c) \/ MintSpace(c)

Step(c) ==
    \/ Lock(c) \/ Replay(c) \/ IdempotencyConflict(c) \/ StaleParent(c) \/ Write(c)
    \/ CommitAnswered(c)
    \/ ProbeFound(c) \/ ProbeMismatch(c) \/ ProbeFailed(c)
    \/ ProvisionReplay(c) \/ ProvisionConflict(c) \/ MintCollision(c)

Next ==
    \E c \in Clients :
        CallPublish(c) \/ CallProvision(c) \/ Step(c) \/ CommitLost(c) \/ Abort(c)

Spec == Init /\ [][Next]_vars

-----------------------------------------------------------------------------
(* The history of a space is one line: every stored revision is the head   *)
(* or an ancestor of it, and every ancestor is stored.  The compare under  *)
(* the lock of the space never lets two publications share a parent.       *)
LinearHistory ==
    \A s \in Spaces :
        revisions[s] = {SubSeq(head[s], 1, n) : n \in 1..Len(head[s])}

(* A refusal is final: a command that was answered as stale or conflicting *)
(* is on record neither then nor later, whatever copies of it are still on *)
(* their way, since heads never return to an earlier revision.             *)
RefusalsAreFinal ==
    \A t \in told :
        t.answer \in {"stale", "conflict"} /\ t.request.kind \in {"publish", "prospect"} =>
            ~ (/\ receipts[t.request.space][t.request.pid] = Command(t.request)
               /\ t.request.kind = "prospect" =>
                    <<t.request.space, t.request.pid>> \in results)

(* Whoever was given a receipt holds a true one: its id stands for exactly *)
(* that command, prospective results with it, and its revision is stored;  *)
(* a provisioned space is the one its allocation id stands for, and began  *)
(* with the requested genesis.                                             *)
ReceiptsAreTrue ==
    \A t \in told : t.answer = "receipt" =>
        LET m == t.request IN
        /\ RevisionOf(m) \in revisions[m.space]
        /\ m.kind \in {"publish", "prospect"} =>
             /\ receipts[m.space][m.pid] = Command(m)
             /\ m.kind = "prospect" => <<m.space, m.pid>> \in results
        /\ m.kind = "provision" =>
             /\ allocated[m.alloc] = [space |-> m.space, op |-> m.op]
             /\ receipts[m.space][Genesis] = [op |-> m.op, parent |-> <<>>]

(* Every call is answered.                                                 *)
CallsEnd == \A c \in Clients : pc[c] # "idle" ~> pc[c] = "idle"
=============================================================================
