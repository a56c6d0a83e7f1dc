---------------------------- MODULE NativeSources ----------------------------
(***************************************************************************)
(* The sources of native knowledge spaces: the admission of an immutable   *)
(* text with its evidence, the extension of an admitted text by further    *)
(* evidence (infrastructure/postgres/vnext_sources.py), and the operator's *)
(* attestation that a span of a legacy source is the one a native claim    *)
(* cites (vnext_operator_sources.py); and the in-memory repositories that  *)
(* implement the same ports (infrastructure/memory/vnext_sources.py,       *)
(* vnext_operator_sources.py).                                             *)
(*                                                                         *)
(* Every row that is source authority carries the epoch it brought: one    *)
(* row of the database holds the current epoch, each writer locks it       *)
(* before the row of its space and adds one.  A reader opens a view at the *)
(* current epoch and reads, in later transactions, the rows up to it.      *)
(* In memory one lock is held for a whole call, writes are undone by hand, *)
(* and what a failing hook interrupts is found by the client's probes.     *)
(*                                                                         *)
(* Simplifications:                                                        *)
(*  - A revision is the sequence of publication ids since the genesis of   *)
(*    its space, <<>> being the genesis; every prefix of the head is       *)
(*    stored (LinearHistory of KnowledgeSpaces).                           *)
(*  - A text is the set of the byte intervals it is cited by; the spans,   *)
(*    evidence and artifact ids of an admission or an extension are        *)
(*    digests of its space and its id, which stand for them.               *)
(*  - Descriptors, vocabularies and digests are the ones the space pins; a *)
(*    request that names others is refused and is not enumerated.          *)
(*  - Time is left out: an attestation may be refused at any moment, its   *)
(*    preparation being older than fifteen minutes.                        *)
(*  - READ COMMITTED; a transaction writes when it commits.                *)
(***************************************************************************)
EXTENDS Naturals, Sequences, FiniteSets, SequencesExt

CONSTANTS
    Clients,
    Spaces,
    Ids,            \* publication, admission, extension and operation ids
    Intervals,      \* byte intervals of a text
    Legacy,         \* legacy source artifacts an operator may attest to
    Spans,          \* spans of legacy sources that native claims cite
    Requests,       \* what clients ask for
    MaxCalls,       \* bounds the calls of a behaviour
    None

ASSUME NativeSourcesAssumption ==
    /\ Requests \subseteq
         [kind : {"admit", "publish"}, space : Spaces, id : Ids, intervals : SUBSET Intervals]
         \cup [kind : {"extend"}, space : Spaces, id : Ids, root : Ids,
               intervals : SUBSET Intervals]
         \cup [kind : {"prepare"}, space : Spaces, id : Ids, artifact : Legacy, span : Spans]
         \cup [kind : {"attest"}, space : Spaces, id : Ids]
    /\ MaxCalls \in Nat
    /\ None \notin Clients

VARIABLES
    adapter,        \* the repository behind the ports: "postgres" or "memory"
    epoch,          \* knowledge_native_source_authority.epoch
    head,           \* knowledge_heads
    published,      \* knowledge_publication_receipts: id and command
    admissions,     \* knowledge_native_source_admissions
    extensions,     \* knowledge_native_source_extensions
    preparations,   \* knowledge_operator_source_preparations
    attestations,   \* knowledge_operator_source_attestations and _artifacts
    standing,       \* whether a legacy artifact is active at its revision
    epochLock,      \* holder of the row of the epoch
    spaceLock,      \* holder of the row of a space
    pc, call,
    calls           \* how many calls were made

tables == <<epoch, head, published, admissions, extensions, preparations, attestations>>
locks == <<epochLock, spaceLock>>
vars == <<adapter, tables, standing, locks, pc, call, calls>>

Init ==
    /\ adapter \in {"postgres", "memory"}
    /\ epoch = 0
    /\ head = [s \in Spaces |-> <<>>]
    /\ published = [s \in Spaces |-> {}]
    /\ admissions = {} /\ extensions = {}
    /\ preparations = {} /\ attestations = {}
    /\ standing = [a \in Legacy |-> TRUE]
    /\ epochLock = None
    /\ spaceLock = [s \in Spaces |-> None]
    /\ pc = [c \in Clients |-> "idle"]
    /\ call = [c \in Clients |-> None]
    /\ calls = 0

-----------------------------------------------------------------------------
(* Reading by id.                                                          *)

SameId(rows, m) == {r \in rows : r.space = m.space /\ r.id = m.id}

PublishedUnder(m) == {p \in published[m.space] : p.id = m.id}

(* The command digest covers the request, with its expected parent.        *)
Command(m) == [kind |-> m.kind, parent |-> m.parent, intervals |-> m.intervals]

AdmittedAs(m) == {r \in SameId(admissions, m) : r.command = Command(m)}

(* The intent of an extension covers the epoch it expects as well.         *)
Intent(m) == [root |-> m.root, parent |-> m.parent, epoch |-> m.epoch,
              intervals |-> m.intervals]

ExtendedAs(m) == {r \in SameId(extensions, m) : r.intent = Intent(m)}

Roots(m) == {r \in admissions : r.space = m.space /\ r.id = m.root}

(* Mutant: earlier extensions of the source are not read.                  *)
RegisteredOfRoot(m) == UNION {r.command.intervals : r \in Roots(m)}

(* The intervals by which the source of a root admission is cited already. *)
Registered(m) ==
    UNION ({r.command.intervals : r \in Roots(m)}
           \cup {x.intent.intervals : x \in {y \in extensions : /\ y.space = m.space
                                                                /\ y.intent.root = m.root}})

(* Mutant: a view reads whatever is committed.                             *)
NativeRowsUnpinned(s, e) == {r \in admissions \cup extensions : r.space = s /\ e \in Nat}

(* What a view that was opened at epoch e reads of admissions and          *)
(* extensions, and of attestations: those are hidden once their legacy     *)
(* artifact lost its standing.                                             *)
NativeRows(s, e) == {r \in admissions \cup extensions : r.space = s /\ r.epoch <= e}

OperatorRows(s, e) ==
    {r \in attestations : r.space = s /\ r.epoch <= e /\ standing[r.artifact]}

(* The same in memory: an extension is read through the record of the text *)
(* it extends.                                                             *)
MemoryNativeRows(s, e) ==
    LET records == {r \in admissions : r.space = s /\ r.epoch <= e} IN
    records \cup {x \in extensions : /\ x.space = s /\ x.epoch <= e
                                     /\ \E r \in records : r.id = x.intent.root}

MemoryOperatorRows(s, e) ==
    {r \in attestations : r.space = s /\ standing[r.artifact] /\ r.epoch <= e}

-----------------------------------------------------------------------------
(* Calls and their ends.                                                   *)

Begin(c, m, stage) ==
    /\ pc[c] = "idle" /\ calls < MaxCalls
    /\ pc' = [pc EXCEPT ![c] = stage]
    /\ call' = [call EXCEPT ![c] = m]
    /\ calls' = calls + 1
    /\ UNCHANGED <<tables, standing, locks>>

KnownRevisions(s) == {SubSeq(head[s], 1, n) : n \in 0..Len(head[s])}

(* A request is built on a revision, and an extension on an epoch, that    *)
(* its client has read; a recorded extension may be asked for again.       *)
CallAdmit(c) ==
    \E q \in Requests : \E r \in KnownRevisions(q.space) :
        /\ q.kind = "admit"
        /\ Begin(c, [kind |-> "admit", space |-> q.space, id |-> q.id,
                     intervals |-> q.intervals, parent |-> r], "probing admission")

CallExtend(c) ==
    \E q \in Requests : \E r \in KnownRevisions(q.space),
                           e \in {epoch} \cup {x.intent.epoch : x \in extensions} :
        /\ q.kind = "extend"
        /\ Begin(c, [kind |-> "extend", space |-> q.space, id |-> q.id, root |-> q.root,
                     intervals |-> q.intervals, parent |-> r, epoch |-> e], "locking")

CallPublish(c) ==
    \E q \in Requests : \E r \in KnownRevisions(q.space) :
        /\ q.kind = "publish"
        /\ Begin(c, [kind |-> "publish", space |-> q.space, id |-> q.id,
                     intervals |-> q.intervals, parent |-> r], "locking")

CallPrepare(c) ==
    \E q \in Requests : \E r \in KnownRevisions(q.space) :
        /\ q.kind = "prepare"
        /\ Begin(c, [kind |-> "prepare", space |-> q.space, id |-> q.id,
                     artifact |-> q.artifact, span |-> q.span, parent |-> r], "locking")

CallAttest(c) ==
    \E q \in Requests :
        /\ q.kind = "attest"
        /\ Begin(c, q, "locking")

Release(c) ==
    /\ epochLock' = IF epochLock = c THEN None ELSE epochLock
    /\ spaceLock' = [s \in Spaces |-> IF spaceLock[s] = c THEN None ELSE spaceLock[s]]

Ends(c) ==
    /\ pc' = [pc EXCEPT ![c] = "idle"]
    /\ call' = [call EXCEPT ![c] = None]
    /\ Release(c)
    /\ UNCHANGED <<standing, calls>>

(* A refusal, whichever it is, rolls its transaction back; a replay writes *)
(* nothing and answers the receipt on record.                              *)
Refuse(c) == Ends(c) /\ UNCHANGED tables

Replay(c) == Ends(c) /\ UNCHANGED tables

-----------------------------------------------------------------------------
(* The probes of a client before it asks the repository to admit.          *)

ProbeAdmission(c) ==
    /\ pc[c] = "probing admission"
    /\ \/ /\ SameId(admissions, call[c]) = {}
          /\ pc' = [pc EXCEPT ![c] = "probing publication"]
          /\ UNCHANGED <<tables, standing, locks, call, calls>>
       \/ AdmittedAs(call[c]) # {} /\ Replay(c)
       \/ SameId(admissions, call[c]) \ AdmittedAs(call[c]) # {} /\ Refuse(c)

ProbePublication(c) ==
    /\ pc[c] = "probing publication"
    /\ IF PublishedUnder(call[c]) # {}
       THEN Refuse(c)
       ELSE /\ pc' = [pc EXCEPT ![c] = "probing head"]
            /\ UNCHANGED <<tables, standing, locks, call, calls>>

ProbeHead(c) ==
    /\ pc[c] = "probing head"
    /\ IF head[call[c].space] # call[c].parent
       THEN Refuse(c)
       ELSE /\ pc' = [pc EXCEPT ![c] = "locking"]
            /\ UNCHANGED <<tables, standing, locks, call, calls>>

-----------------------------------------------------------------------------
(* Locks.                                                                  *)

(* Mutant: an attestation locks its space before the epoch.                *)
LockOrderMixed(m) ==
    IF m.kind = "attest" THEN <<"space", "epoch">>
    ELSE IF m.kind = "publish" THEN <<"space">> ELSE <<"epoch", "space">>

(* The row of the epoch always comes before the row of a space; a          *)
(* publication without sources takes no epoch.                             *)
LockOrder(m) == IF m.kind = "publish" THEN <<"space">> ELSE <<"epoch", "space">>

Holds(c, what) ==
    IF what = "epoch" THEN epochLock = c ELSE spaceLock[call[c].space] = c

Awaits(c, what) ==
    LET order == LockOrder(call[c]) IN
    /\ pc[c] = "locking"
    /\ \E i \in DOMAIN order :
          what = order[i] /\ ~Holds(c, what) /\ \A j \in 1..(i - 1) : Holds(c, order[j])

Acquired(c, what) ==
    pc' = [pc EXCEPT ![c] = IF what = Last(LockOrder(call[c])) THEN "deciding" ELSE @]

LockEpoch(c) ==
    /\ adapter = "postgres" /\ Awaits(c, "epoch")
    /\ epochLock = None
    /\ epochLock' = c
    /\ Acquired(c, "epoch")
    /\ UNCHANGED <<tables, standing, spaceLock, call, calls>>

LockSpace(c) ==
    /\ adapter = "postgres" /\ Awaits(c, "space")
    /\ spaceLock[call[c].space] = None
    /\ spaceLock' = [spaceLock EXCEPT ![call[c].space] = c]
    /\ Acquired(c, "space")
    /\ UNCHANGED <<tables, standing, epochLock, call, calls>>

Writes(c) ==
    /\ pc' = [pc EXCEPT ![c] = "committing"]
    /\ UNCHANGED <<tables, standing, locks, call, calls>>

-----------------------------------------------------------------------------
(* What the repository decides under its locks.                            *)

Deciding(c, kind) == pc[c] = "deciding" /\ call[c].kind = kind

AtHead(m) == head[m.space] = m.parent

DecideAdmit(c) ==
    LET m == call[c] IN
    /\ Deciding(c, "admit")
    /\ \/ AdmittedAs(m) # {} /\ Replay(c)
       \/ AdmittedAs(m) = {} /\ (PublishedUnder(m) # {} \/ ~AtHead(m)) /\ Refuse(c)
       \/ PublishedUnder(m) = {} /\ AtHead(m) /\ Writes(c)

DecidePublish(c) ==
    LET m == call[c] IN
    /\ Deciding(c, "publish")
    /\ IF PublishedUnder(m) = {} /\ AtHead(m) THEN Writes(c) ELSE Refuse(c)

(* Fresh intents only: the replay of a recorded one is independent of      *)
(* today's parent and epoch.                                               *)
Extends(m) ==
    /\ Roots(m) # {}
    /\ AtHead(m) /\ epoch = m.epoch
    /\ PublishedUnder(m) = {}
    /\ \A r \in Roots(m) : IsPrefix(r.revision, m.parent)
    /\ m.intervals \cap Registered(m) = {}

DecideExtend(c) ==
    LET m == call[c] IN
    /\ Deciding(c, "extend")
    /\ \/ ExtendedAs(m) # {} /\ Replay(c)
       \/ ExtendedAs(m) = {} /\ Extends(m) /\ Writes(c)
       \/ ExtendedAs(m) = {} /\ ~Extends(m) /\ Refuse(c)

(* The command of a preparation names the current epoch.                   *)
Selection(m) == [artifact |-> m.artifact, span |-> m.span, head |-> m.parent, epoch |-> epoch]

DecidePrepare(c) ==
    LET m == call[c] IN
    /\ Deciding(c, "prepare")
    /\ IF AtHead(m) /\ standing[m.artifact] /\ SameId(preparations, m) = {}
       THEN Writes(c)
       ELSE Refuse(c)

(* Ids of spans are unique over the attestations of all spaces, and an     *)
(* artifact is attested to in one of them.                                 *)
IdentityTaken(p) ==
    \E a \in attestations :
        a.span = p.command.span \/ (a.artifact = p.command.artifact /\ a.space # p.space)

(* Mutant: a preparation is only checked against the epoch and its source. *)
CurrentEpoch(p) == epoch = p.command.epoch /\ standing[p.command.artifact]

(* Nothing a preparation was reviewed against has changed.                 *)
Current(p) ==
    /\ epoch = p.command.epoch
    /\ head[p.space] = p.command.head
    /\ standing[p.command.artifact]

DecideAttest(c) ==
    LET m == call[c] IN
    /\ Deciding(c, "attest")
    /\ \/ SameId(attestations, m) # {} /\ Replay(c)
       \/ /\ SameId(attestations, m) = {}
          /\ \E p \in SameId(preparations, m) : Current(p) /\ ~IdentityTaken(p)
          /\ Writes(c)
       \/ SameId(attestations, m) = {} /\ Refuse(c)

-----------------------------------------------------------------------------
(* Commits.                                                                *)

NextEpoch(e) == e + 1

(* The child revision, the head and the publication receipt.               *)
PublishChild(m) ==
    /\ head' = [head EXCEPT ![m.space] = Append(m.parent, m.id)]
    /\ published' = [published EXCEPT ![m.space] = @ \cup {[id |-> m.id, parent |-> m.parent]}]

AdmissionRow(m) == [space |-> m.space, id |-> m.id, command |-> Command(m),
                    epoch |-> NextEpoch(epoch), revision |-> Append(m.parent, m.id)]

ExtensionRow(m) == [space |-> m.space, id |-> m.id, intent |-> Intent(m),
                    epoch |-> NextEpoch(epoch), revision |-> Append(m.parent, m.id)]

PreparationRow(m) == [space |-> m.space, id |-> m.id, command |-> Selection(m)]

AttestationRow(p) == [space |-> p.space, id |-> p.id, artifact |-> p.command.artifact,
                      span |-> p.command.span, epoch |-> NextEpoch(epoch)]

Commit(c) ==
    LET m == call[c] IN
    \/ /\ m.kind = "publish"
       /\ PublishChild(m)
       /\ UNCHANGED <<epoch, admissions, extensions, preparations, attestations>>
    \/ /\ m.kind = "admit"
       /\ PublishChild(m)
       /\ admissions' = admissions \cup {AdmissionRow(m)}
       /\ epoch' = epoch + 1
       /\ UNCHANGED <<extensions, preparations, attestations>>
    \/ /\ m.kind = "extend"
       /\ PublishChild(m)
       /\ extensions' = extensions \cup {ExtensionRow(m)}
       /\ epoch' = epoch + 1
       /\ UNCHANGED <<admissions, preparations, attestations>>
    \/ /\ m.kind = "prepare"
       /\ preparations' = preparations \cup {PreparationRow(m)}
       /\ UNCHANGED <<epoch, head, published, admissions, extensions, attestations>>
    \/ /\ m.kind = "attest"
       /\ \E p \in SameId(preparations, m) :
            attestations' = attestations \cup {AttestationRow(p)}
       /\ epoch' = epoch + 1
       /\ UNCHANGED <<head, published, admissions, extensions, preparations>>

CommitAnswered(c) == pc[c] = "committing" /\ Commit(c) /\ Ends(c)

(* The end of a transaction stays unknown to its client: an admission is   *)
(* looked for once, the others leave the retry to their caller.            *)
OutcomeUnknown(c) ==
    IF call[c].kind = "admit"
    THEN /\ pc' = [pc EXCEPT ![c] = "recovering"]
         /\ Release(c)
         /\ UNCHANGED <<standing, call, calls>>
    ELSE Ends(c)

CommitLost(c) ==
    /\ pc[c] = "committing"
    /\ Commit(c)
    /\ OutcomeUnknown(c)

Abort(c) ==
    /\ pc[c] \in {"locking", "deciding", "committing"}
    /\ OutcomeUnknown(c)
    /\ UNCHANGED tables

(* The receipt on record is verified against the command and answered, or  *)
(* the outcome stays unknown.                                              *)
Recover(c) ==
    /\ pc[c] = "recovering"
    /\ IF AdmittedAs(call[c]) # {} THEN Replay(c) ELSE Refuse(c)

-----------------------------------------------------------------------------
(* The same calls in memory: one step each, once the client's probes are   *)
(* done.                                                                   *)

InMemory(c, kind) ==
    adapter = "memory" /\ pc[c] = "locking" /\ call[c].kind = kind

(* One dictionary is written after the other; when a hook in between fails *)
(* all of them are put back.  A hook that fails after the lock is released *)
(* leaves what was written.                                                *)
AllOrNothing(c) ==
    \/ Commit(c) /\ (Ends(c) \/ OutcomeUnknown(c))
    \/ UNCHANGED tables /\ OutcomeUnknown(c)

(* The receipt of the admission is looked for before the one of an         *)
(* ordinary publication under the id.                                      *)
MemoryAdmit(c) ==
    LET m == call[c] IN
    /\ InMemory(c, "admit")
    /\ \/ AdmittedAs(m) # {} /\ Replay(c)
       \/ AdmittedAs(m) = {} /\ (PublishedUnder(m) # {} \/ ~AtHead(m)) /\ Refuse(c)
       \/ PublishedUnder(m) = {} /\ AtHead(m) /\ AllOrNothing(c)

(* A publication on record is answered, which changes nothing either.      *)
MemoryPublish(c) ==
    LET m == call[c] IN
    /\ InMemory(c, "publish")
    /\ IF PublishedUnder(m) = {} /\ AtHead(m) THEN AllOrNothing(c) ELSE Refuse(c)

MemoryExtend(c) ==
    LET m == call[c] IN
    /\ InMemory(c, "extend")
    /\ \/ ExtendedAs(m) # {} /\ Replay(c)
       \/ ExtendedAs(m) = {} /\ Extends(m) /\ AllOrNothing(c)
       \/ ExtendedAs(m) = {} /\ ~Extends(m) /\ Refuse(c)

(* A preparation is looked for once the selection has proved valid, and    *)
(* nothing fails after it is stored.                                       *)
MemoryPrepare(c) ==
    LET m == call[c] IN
    /\ InMemory(c, "prepare")
    /\ IF /\ AtHead(m) /\ standing[m.artifact]
          /\ SameId(preparations, m) = {} /\ SameId(attestations, m) = {}
       THEN Commit(c) /\ Ends(c)
       ELSE Refuse(c)

(* The legacy sources are locked before the space, so that the source is   *)
(* still what was checked when the attestation is stored.                  *)
MemoryAttest(c) ==
    LET m == call[c] IN
    /\ InMemory(c, "attest")
    /\ \/ SameId(attestations, m) # {} /\ Replay(c)
       \/ /\ SameId(attestations, m) = {}
          /\ \E p \in SameId(preparations, m) : Current(p) /\ ~IdentityTaken(p)
          /\ (Commit(c) \/ UNCHANGED tables) /\ Ends(c)
       \/ SameId(attestations, m) = {} /\ Refuse(c)

-----------------------------------------------------------------------------
(* The artifacts a transaction holds FOR SHARE.                            *)
Shared ==
    {p.command.artifact : p \in UNION {SameId(preparations, call[c]) :
        c \in {d \in Clients : pc[d] = "committing" /\ call[d].kind = "attest"}}}
    \cup {call[c].artifact :
        c \in {d \in Clients : pc[d] = "committing" /\ call[d].kind = "prepare"}}

(* A legacy artifact loses its standing; its row is not held FOR SHARE.    *)
LoseStanding ==
    \E a \in Legacy \ Shared :
        /\ standing[a]
        /\ standing' = [standing EXCEPT ![a] = FALSE]
        /\ UNCHANGED <<tables, locks, pc, call, calls>>

-----------------------------------------------------------------------------
Call(c) == CallAdmit(c) \/ CallExtend(c) \/ CallPublish(c) \/ CallPrepare(c) \/ CallAttest(c)

Step(c) ==
    \/ ProbeAdmission(c) \/ ProbePublication(c) \/ ProbeHead(c)
    \/ LockEpoch(c) \/ LockSpace(c)
    \/ DecideAdmit(c) \/ DecidePublish(c) \/ DecideExtend(c)
    \/ DecidePrepare(c) \/ DecideAttest(c)
    \/ CommitAnswered(c) \/ Recover(c)
    \/ MemoryAdmit(c) \/ MemoryPublish(c) \/ MemoryExtend(c)
    \/ MemoryPrepare(c) \/ MemoryAttest(c)

Next ==
    /\ \/ \E c \in Clients : Call(c) \/ Step(c) \/ CommitLost(c) \/ Abort(c)
       \/ LoseStanding
    /\ UNCHANGED adapter

Spec == Init /\ [][Next]_vars

(* Whoever can take a step takes it; calls, LoseStanding and failures are  *)
(* not promised.                                                           *)
FairSpec ==
    /\ Spec
    /\ \A c \in Clients : WF_vars(Step(c) /\ UNCHANGED adapter)

-----------------------------------------------------------------------------
Native(s, e) == IF adapter = "memory" THEN MemoryNativeRows(s, e) ELSE NativeRows(s, e)

Operator(s, e) == IF adapter = "memory" THEN MemoryOperatorRows(s, e) ELSE OperatorRows(s, e)

(* open_native_source_view: what a view pinned at any epoch reads of       *)
(* admissions and extensions never changes, whenever its transactions run; *)
(* of attestations it can lose rows, with the standing of their artifact,  *)
(* and never gains one.                                                    *)
PinnedViewsKeep ==
    [][\A s \in Spaces : \A e \in 0..epoch :
          /\ Native(s, e)' = Native(s, e)
          /\ Operator(s, e)' \subseteq Operator(s, e)]_vars

(* One interval of a source, and one span of a legacy source, is           *)
(* registered by one row, whoever extends the source at the same time; and *)
(* what extends a source descends from the revision that admitted it.      *)
RegisteredOnce ==
    /\ \A x \in extensions, y \in admissions \cup extensions :
          x.space = y.space /\ x # y =>
              LET root == x.intent.root
                  shared == IF y \in extensions THEN y.intent.intervals ELSE y.command.intervals
                  cites == IF y \in extensions THEN y.intent.root ELSE y.id
              IN cites = root => x.intent.intervals \cap shared = {} /\ x.epoch # y.epoch
    /\ \A x \in extensions : \E r \in admissions :
          r.space = x.space /\ r.id = x.intent.root /\ IsPrefix(r.revision, x.revision)
    /\ \A a, b \in attestations : a.span = b.span => a = b

(* An operator approves what a preparation shows.  Whatever other writers  *)
(* did in between, the attestation is recorded in exactly the state the    *)
(* preparation was reviewed against: its epoch, its head, its artifact in  *)
(* standing.                                                               *)
AttestedAsPrepared ==
    [][\A a \in attestations' \ attestations :
          \E p \in preparations :
             /\ p.space = a.space /\ p.id = a.id
             /\ p.command.epoch = epoch /\ p.command.head = head[p.space]
             /\ standing[a.artifact]
             /\ UNCHANGED <<head, standing>>]_vars

(* Every call is answered: the epoch is always locked before a space.      *)
CallsEnd == \A c \in Clients : pc[c] # "idle" ~> pc[c] = "idle"
=============================================================================
