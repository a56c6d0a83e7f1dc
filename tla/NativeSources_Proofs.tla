------------------------- MODULE NativeSources_Proofs -------------------------
(***************************************************************************)
(* Proofs about NativeSources, on either adapter, for any number of        *)
(* clients, spaces, ids and legacy sources.                                *)
(***************************************************************************)
EXTENDS NativeSources, TLAPS

-----------------------------------------------------------------------------
(* Types.                                                                  *)
Revisions == Seq(Ids)

PublishCall == [kind : {"admit", "publish"}, space : Spaces, id : Ids,
                intervals : SUBSET Intervals, parent : Revisions]
ExtendCall == [kind : {"extend"}, space : Spaces, id : Ids, root : Ids,
               intervals : SUBSET Intervals, parent : Revisions, epoch : Nat]
PrepareCall == [kind : {"prepare"}, space : Spaces, id : Ids, artifact : Legacy,
                span : Spans, parent : Revisions]
AttestCall == [kind : {"attest"}, space : Spaces, id : Ids]
Calls == PublishCall \cup ExtendCall \cup PrepareCall \cup AttestCall

Commands == [kind : {"admit", "publish"}, parent : Revisions, intervals : SUBSET Intervals]
Intents == [root : Ids, parent : Revisions, epoch : Nat, intervals : SUBSET Intervals]
Selections == [artifact : Legacy, span : Spans, head : Revisions, epoch : Nat]

AdmissionRows == [space : Spaces, id : Ids, command : Commands, epoch : Nat, revision : Revisions]
ExtensionRows == [space : Spaces, id : Ids, intent : Intents, epoch : Nat, revision : Revisions]
PreparationRows == [space : Spaces, id : Ids, command : Selections]
AttestationRows == [space : Spaces, id : Ids, artifact : Legacy, span : Spans, epoch : Nat]

Probing == {"probing admission", "probing publication", "probing head", "recovering"}
InTransaction == {"deciding", "committing"}
Stages == {"idle", "locking"} \cup Probing \cup InTransaction

TablesOK ==
    /\ epoch \in Nat
    /\ head \in [Spaces -> Revisions]
    /\ published \in [Spaces -> SUBSET [id : Ids, parent : Revisions]]
    /\ admissions \subseteq AdmissionRows
    /\ extensions \subseteq ExtensionRows
    /\ preparations \subseteq PreparationRows
    /\ attestations \subseteq AttestationRows

ClientsOK ==
    /\ adapter \in {"postgres", "memory"}
    /\ standing \in [Legacy -> BOOLEAN]
    /\ spaceLock \in [Spaces -> Clients \cup {None}]
    /\ pc \in [Clients -> Stages]
    /\ DOMAIN call = Clients
    /\ \A c \in Clients :
          /\ pc[c] # "idle" => call[c] \in Calls
          /\ pc[c] \in Probing => call[c].kind = "admit"
          /\ pc[c] \in InTransaction => adapter = "postgres"

TypeOK == TablesOK /\ ClientsOK

-----------------------------------------------------------------------------
(* Every row of source authority has an epoch of its own, not later than   *)
(* the current one.                                                        *)
Authority == admissions \cup extensions \cup attestations

EpochNamesOneRow ==
    /\ \A x \in Authority : x.epoch \in 1..epoch
    /\ \A x, y \in Authority : x.epoch = y.epoch => x = y

(* An admission and an extension are publications: each has a receipt      *)
(* under its id, and no two of a space share an id.                        *)
RowsPublished ==
    /\ \A x \in admissions \cup extensions : \E p \in published[x.space] : p.id = x.id
    /\ \A x, y \in admissions \cup extensions : x.space = y.space /\ x.id = y.id => x = y

(* The revision that admitted or extended a source is in the history of    *)
(* its space.                                                              *)
RevisionsKept == \A x \in admissions \cup extensions : IsPrefix(x.revision, head[x.space])

PreparedOnce ==
    \A p, q \in preparations : p.space = q.space /\ p.id = q.id => p = q

(* Whoever decides holds the locks of what it decides on.                  *)
LocksHeld(c) ==
    pc[c] \in InTransaction =>
        /\ call[c].kind # "publish" => epochLock = c
        /\ spaceLock[call[c].space] = c

(* What a call was decided on.                                             *)
Decided(m) ==
    CASE m.kind \in {"admit", "publish"} -> PublishedUnder(m) = {} /\ AtHead(m)
      [] m.kind = "extend" -> Extends(m)
      [] m.kind = "prepare" -> AtHead(m) /\ standing[m.artifact] /\ SameId(preparations, m) = {}
      [] m.kind = "attest" -> \E p \in SameId(preparations, m) : Current(p) /\ ~IdentityTaken(p)

DecisionHolds(c) == pc[c] = "committing" => Decided(call[c])

IInv ==
    /\ TypeOK
    /\ EpochNamesOneRow /\ RowsPublished /\ RevisionsKept /\ PreparedOnce
    /\ RegisteredOnce
    /\ \A c \in Clients : LocksHeld(c) /\ DecisionHolds(c)

-----------------------------------------------------------------------------
(* Revisions.                                                              *)
LEMMA PrefixOfChild ==
    ASSUME NEW S, NEW t \in Seq(S), NEW x \in S
    PROVE  /\ Append(t, x) \in Seq(S)
           /\ IsPrefix(t, Append(t, x)) /\ IsPrefix(Append(t, x), Append(t, x))
           /\ \A s \in Seq(S) : IsPrefix(s, t) => IsPrefix(s, Append(t, x))
<1> DEFINE u == Append(t, x)
<1>1. u \in Seq(S) /\ Len(u) = Len(t) + 1 /\ Len(t) \in Nat
  OBVIOUS
<1>2. \A n \in 0..Len(t) : SubSeq(u, 1, n) = SubSeq(t, 1, n)
  OBVIOUS
<1>3. \A s \in Seq(S) : IsPrefix(s, t) => IsPrefix(s, u)
  <2>1. ASSUME NEW s \in Seq(S), IsPrefix(s, t)
        PROVE  IsPrefix(s, u)
    <3>1. Len(s) \in 0..Len(t) /\ SubSeq(s, 1, Len(s)) = SubSeq(t, 1, Len(s))
      BY <2>1 DEF IsPrefix
    <3>2. SubSeq(u, 1, Len(s)) = SubSeq(t, 1, Len(s))
      BY <1>2, <3>1
    <3>3. Len(s) <= Len(u)
      BY <1>1, <3>1
    <3> HIDE DEF u
    <3> QED BY <3>1, <3>2, <3>3 DEF IsPrefix
  <2> QED BY <2>1
<1>4. IsPrefix(t, t) /\ IsPrefix(u, u)
  <2> HIDE DEF u
  <2> QED BY <1>1 DEF IsPrefix
<1> QED BY <1>1, <1>3, <1>4

LEMMA KnownAreRevisions ==
    ASSUME TypeOK, NEW s \in Spaces, NEW r \in KnownRevisions(s)
    PROVE  r \in Revisions
<1>1. PICK h \in Revisions : h = head[s]
  BY DEF TypeOK, TablesOK
<1>2. PICK n \in 0..Len(h) : r = SubSeq(h, 1, n)
  BY <1>1 DEF KnownRevisions
<1>3. SubSeq(h, 1, n) \in Seq(Ids)
  BY DEF Revisions
<1> QED BY <1>2, <1>3 DEF Revisions

-----------------------------------------------------------------------------
(* Requests, and the rows they become.                                     *)
LEMMA CallKinds ==
    ASSUME NEW m \in Calls
    PROVE  /\ m.space \in Spaces /\ m.id \in Ids
           /\ m.kind \in {"admit", "publish", "extend", "prepare", "attest"}
           /\ m.kind \in {"admit", "publish"} => m \in PublishCall
           /\ m.kind = "extend" => m \in ExtendCall
           /\ m.kind = "prepare" => m \in PrepareCall
           /\ m.kind = "attest" => m \in AttestCall
BY DEF Calls, PublishCall, ExtendCall, PrepareCall, AttestCall

LEMMA AdmissionRowFields ==
    ASSUME TablesOK, NEW m \in PublishCall
    PROVE  /\ AdmissionRow(m) \in AdmissionRows
           /\ AdmissionRow(m).space = m.space /\ AdmissionRow(m).id = m.id
           /\ AdmissionRow(m).epoch = epoch + 1
           /\ AdmissionRow(m).revision = Append(m.parent, m.id)
           /\ AdmissionRow(m).command.intervals = m.intervals
<1>1. Append(m.parent, m.id) \in Revisions
  BY PrefixOfChild DEF PublishCall, Revisions
<1>2. Command(m) \in Commands /\ Command(m).intervals = m.intervals
  BY DEF Command, Commands, PublishCall
<1> QED BY <1>1, <1>2 DEF AdmissionRow, AdmissionRows, NextEpoch, TablesOK, PublishCall

LEMMA ExtensionRowFields ==
    ASSUME TablesOK, NEW m \in ExtendCall
    PROVE  /\ ExtensionRow(m) \in ExtensionRows
           /\ ExtensionRow(m).space = m.space /\ ExtensionRow(m).id = m.id
           /\ ExtensionRow(m).epoch = epoch + 1
           /\ ExtensionRow(m).revision = Append(m.parent, m.id)
           /\ ExtensionRow(m).intent.root = m.root
           /\ ExtensionRow(m).intent.intervals = m.intervals
<1>1. Append(m.parent, m.id) \in Revisions
  BY PrefixOfChild DEF ExtendCall, Revisions
<1>2. Intent(m) \in Intents /\ Intent(m).intervals = m.intervals /\ Intent(m).root = m.root
  BY DEF Intent, Intents, ExtendCall
<1> QED BY <1>1, <1>2 DEF ExtensionRow, ExtensionRows, NextEpoch, TablesOK, ExtendCall

LEMMA PreparationRowFields ==
    ASSUME TablesOK, NEW m \in PrepareCall
    PROVE  /\ PreparationRow(m) \in PreparationRows
           /\ PreparationRow(m).space = m.space /\ PreparationRow(m).id = m.id
BY DEF PreparationRow, PreparationRows, Selection, Selections, TablesOK, PrepareCall

LEMMA AttestationRowFields ==
    ASSUME TablesOK, NEW p \in PreparationRows
    PROVE  /\ AttestationRow(p) \in AttestationRows
           /\ AttestationRow(p).space = p.space /\ AttestationRow(p).id = p.id
           /\ AttestationRow(p).epoch = epoch + 1
           /\ AttestationRow(p).span = p.command.span
           /\ AttestationRow(p).artifact = p.command.artifact
BY DEF AttestationRow, AttestationRows, PreparationRows, Selections, NextEpoch, TablesOK

LEMMA RowKindsDiffer ==
    ASSUME NEW x \in AdmissionRows
    PROVE  x \notin ExtensionRows
<1>1. DOMAIN x = {"space", "id", "command", "epoch", "revision"}
  BY DEF AdmissionRows
<1>2. ASSUME x \in ExtensionRows
      PROVE  "intent" \in DOMAIN x
  BY <1>2 DEF ExtensionRows
<1> QED BY <1>1, <1>2

-----------------------------------------------------------------------------
(* The steps, by what they write.                                          *)
Leaves(c) ==
    \/ Ends(c)
    \/ /\ call[c].kind = "admit"
       /\ pc' = [pc EXCEPT ![c] = "recovering"]
       /\ Release(c)
       /\ UNCHANGED <<standing, call>>

Probes(c) ==
    /\ pc[c] \in Probing
    /\ \E stage \in Probing \cup {"locking"} : pc' = [pc EXCEPT ![c] = stage]
    /\ UNCHANGED <<tables, standing, locks, call>>

Decides(c) == pc[c] = "deciding" /\ Decided(call[c]) /\ Writes(c)

CommitStep(c) ==
    /\ pc[c] # "idle" /\ (pc[c] = "committing" \/ adapter = "memory")
    /\ Decided(call[c])
    /\ Commit(c) /\ Leaves(c)

ClientStep(c) ==
    \/ Call(c) \/ Probes(c) \/ LockEpoch(c) \/ LockSpace(c) \/ Decides(c)
    \/ pc[c] # "idle" /\ Leaves(c) /\ UNCHANGED tables
    \/ CommitStep(c)

LEMMA UnknownLeaves ==
    ASSUME NEW c, OutcomeUnknown(c)
    PROVE  Leaves(c)
BY DEF OutcomeUnknown, Leaves

LEMMA ProbeKinds ==
    ASSUME NEW c, ProbeAdmission(c) \/ ProbePublication(c) \/ ProbeHead(c) \/ Recover(c)
    PROVE  ClientStep(c)
<1>1. CASE Ends(c) /\ UNCHANGED tables
  <2>1. pc[c] # "idle"
    BY DEF ProbeAdmission, ProbePublication, ProbeHead, Recover
  <2> QED BY <1>1, <2>1 DEF ClientStep, Leaves
<1>2. CASE ~(Ends(c) /\ UNCHANGED tables)
  BY <1>2 DEF ProbeAdmission, ProbePublication, ProbeHead, Recover, Refuse, Replay,
     ClientStep, Probes, Probing
<1> QED BY <1>1, <1>2

LEMMA DecideKinds ==
    ASSUME NEW c, \/ DecideAdmit(c) \/ DecidePublish(c) \/ DecideExtend(c)
                  \/ DecidePrepare(c) \/ DecideAttest(c)
    PROVE  ClientStep(c)
<1>1. pc[c] = "deciding"
  BY DEF DecideAdmit, DecidePublish, DecideExtend, DecidePrepare, DecideAttest, Deciding
<1>2. CASE Ends(c) /\ UNCHANGED tables
  BY <1>1, <1>2 DEF ClientStep, Leaves
<1>3. CASE ~(Ends(c) /\ UNCHANGED tables)
  <2>1. Writes(c)
    BY <1>3 DEF DecideAdmit, DecidePublish, DecideExtend, DecidePrepare, DecideAttest, Refuse, Replay
  <2>2. Decided(call[c])
    BY <1>3 DEF DecideAdmit, DecidePublish, DecideExtend, DecidePrepare, DecideAttest, Refuse, Replay,
       Deciding, Decided
  <2> QED BY <1>1, <2>1, <2>2 DEF ClientStep, Decides
<1> QED BY <1>2, <1>3

LEMMA MemoryKinds ==
    ASSUME NEW c, \/ MemoryAdmit(c) \/ MemoryPublish(c) \/ MemoryExtend(c)
                  \/ MemoryPrepare(c) \/ MemoryAttest(c)
    PROVE  ClientStep(c)
<1>1. adapter = "memory" /\ pc[c] = "locking"
  BY DEF MemoryAdmit, MemoryPublish, MemoryExtend, MemoryPrepare, MemoryAttest, InMemory
<1>2. CASE Leaves(c) /\ UNCHANGED tables
  BY <1>1, <1>2 DEF ClientStep
<1>3. CASE ~(Leaves(c) /\ UNCHANGED tables)
  <2>1. Commit(c) /\ Leaves(c)
    BY <1>3, UnknownLeaves DEF MemoryAdmit, MemoryPublish, MemoryExtend, MemoryPrepare, MemoryAttest,
       AllOrNothing, Refuse, Replay, Leaves
  <2>2. Decided(call[c])
    BY <1>3, UnknownLeaves DEF MemoryAdmit, MemoryPublish, MemoryExtend, MemoryPrepare, MemoryAttest,
       AllOrNothing, Refuse, Replay, Leaves, InMemory, Decided
  <2> QED BY <1>1, <2>1, <2>2 DEF ClientStep, CommitStep
<1> QED BY <1>2, <1>3

LEMMA StepKinds ==
    ASSUME IInv, Next
    PROVE  adapter' = adapter /\ (LoseStanding \/ \E c \in Clients : ClientStep(c))
<1> SUFFICES ASSUME NEW c \in Clients, Call(c) \/ Step(c) \/ CommitLost(c) \/ Abort(c)
             PROVE  ClientStep(c)
  BY DEF Next
<1>1. CASE Call(c) \/ LockEpoch(c) \/ LockSpace(c)
  BY <1>1 DEF ClientStep
<1>2. CASE CommitAnswered(c) \/ CommitLost(c)
  <2>1. pc[c] = "committing" /\ Commit(c) /\ Leaves(c)
    BY <1>2, UnknownLeaves DEF CommitAnswered, CommitLost, Leaves
  <2> QED BY <2>1 DEF ClientStep, CommitStep, IInv, DecisionHolds
<1>3. CASE Abort(c)
  BY <1>3, UnknownLeaves DEF Abort, ClientStep
<1> QED BY <1>1, <1>2, <1>3, ProbeKinds, DecideKinds, MemoryKinds DEF Step

(* What a commit writes, under the decision it was made on.                *)
Child(m) == PublishedUnder(m) = {} /\ AtHead(m) /\ PublishChild(m)

Publishes(m) ==
    /\ m \in PublishCall /\ Child(m)
    /\ UNCHANGED <<epoch, admissions, extensions, preparations, attestations>>

Admits(m) ==
    /\ m \in PublishCall /\ Child(m)
    /\ admissions' = admissions \cup {AdmissionRow(m)}
    /\ epoch' = epoch + 1
    /\ UNCHANGED <<extensions, preparations, attestations>>

ExtendsRoot(m) ==
    /\ m \in ExtendCall /\ Extends(m) /\ Child(m)
    /\ extensions' = extensions \cup {ExtensionRow(m)}
    /\ epoch' = epoch + 1
    /\ UNCHANGED <<admissions, preparations, attestations>>

Prepares(m) ==
    /\ m \in PrepareCall /\ SameId(preparations, m) = {}
    /\ preparations' = preparations \cup {PreparationRow(m)}
    /\ UNCHANGED <<epoch, head, published, admissions, extensions, attestations>>

Attests(m, p) ==
    /\ m \in AttestCall /\ p.space = m.space /\ p.id = m.id
    /\ Current(p) /\ ~IdentityTaken(p)
    /\ attestations' = attestations \cup {AttestationRow(p)}
    /\ epoch' = epoch + 1
    /\ UNCHANGED <<head, published, admissions, extensions, preparations>>

Effect(m) ==
    \/ m.kind = "publish" /\ Publishes(m)
    \/ m.kind = "admit" /\ Admits(m)
    \/ m.kind = "extend" /\ ExtendsRoot(m)
    \/ m.kind = "prepare" /\ Prepares(m)
    \/ m.kind = "attest" /\ \E p \in preparations : Attests(m, p)

(* One preparation has the id an attestation names, so that the one which  *)
(* is attested to is the one that was found current.                       *)
LEMMA CommitWrites ==
    ASSUME IInv, NEW c \in Clients, CommitStep(c)
    PROVE  \E m \in Calls : m = call[c] /\ Effect(m)
<1>1. PICK m \in Calls : m = call[c]
  BY DEF CommitStep, IInv, TypeOK, ClientsOK
<1>2. Decided(m) /\ Commit(c)
  BY <1>1 DEF CommitStep
<1>3. CASE m.kind = "attest"
  <2>1. PICK p \in SameId(preparations, m) : Current(p) /\ ~IdentityTaken(p)
    BY <1>2, <1>3 DEF Decided
  <2>2. PICK q \in SameId(preparations, m) :
           /\ attestations' = attestations \cup {AttestationRow(q)}
           /\ epoch' = epoch + 1
           /\ UNCHANGED <<head, published, admissions, extensions, preparations>>
    BY <1>1, <1>2, <1>3 DEF Commit
  <2>3. p = q
    BY <2>1, <2>2 DEF SameId, IInv, PreparedOnce
  <2>4. Attests(m, p)
    BY <1>3, <2>1, <2>2, <2>3, CallKinds DEF Attests, SameId
  <2> QED BY <1>1, <1>3, <2>1, <2>4 DEF Effect, SameId
<1>4. CASE m.kind = "prepare"
  BY <1>1, <1>2, <1>4, CallKinds DEF Decided, Commit, Effect, Prepares
<1>5. CASE m.kind \in {"admit", "publish"}
  BY <1>1, <1>2, <1>5, CallKinds DEF Decided, Commit, Effect, Publishes, Admits, Child
<1>6. CASE m.kind = "extend"
  <2>1. Extends(m)
    BY <1>2, <1>6 DEF Decided
  <2> QED BY <1>1, <1>2, <1>6, <2>1, CallKinds DEF Commit, Effect, ExtendsRoot, Child, Extends
<1> QED BY <1>3, <1>4, <1>5, <1>6, CallKinds

LEMMA TablesStay ==
    ASSUME NEW c, ClientStep(c), ~CommitStep(c)
    PROVE  UNCHANGED tables
BY DEF ClientStep, Call, CallAdmit, CallExtend, CallPublish, CallPrepare, CallAttest, Begin, Probes,
       LockEpoch, LockSpace, Decides, Writes

LEMMA StandingStays ==
    ASSUME NEW c, ClientStep(c)
    PROVE  UNCHANGED standing
BY DEF ClientStep, Call, CallAdmit, CallExtend, CallPublish, CallPrepare, CallAttest, Begin, Probes,
       LockEpoch, LockSpace, Decides, Writes, Leaves, Ends, CommitStep

-----------------------------------------------------------------------------
(* Types.                                                                  *)
LEMMA TablesTyped ==
    ASSUME TablesOK, NEW m \in Calls, Effect(m)
    PROVE  TablesOK'
<1>1. ASSUME NEW id \in Ids, NEW s \in Spaces, NEW parent \in Revisions, m.id = id, m.space = s,
             m.parent = parent, PublishChild(m)
      PROVE  /\ head' \in [Spaces -> Revisions]
             /\ published' \in [Spaces -> SUBSET [id : Ids, parent : Revisions]]
  <2>1. Append(parent, id) \in Revisions
    BY PrefixOfChild DEF Revisions
  <2> QED BY <1>1, <2>1 DEF PublishChild, TablesOK
<1>2. m \in PublishCall \/ m \in ExtendCall => m.id \in Ids /\ m.space \in Spaces /\ m.parent \in Revisions
  BY DEF PublishCall, ExtendCall
<1>3. CASE Publishes(m)
  BY <1>1, <1>2, <1>3 DEF Publishes, Child, TablesOK
<1>4. CASE Admits(m)
  <2>1. AdmissionRow(m) \in AdmissionRows
    BY <1>4, AdmissionRowFields DEF Admits
  <2> QED BY <1>1, <1>2, <1>4, <2>1 DEF Admits, Child, TablesOK
<1>5. CASE ExtendsRoot(m)
  <2>1. ExtensionRow(m) \in ExtensionRows
    BY <1>5, ExtensionRowFields DEF ExtendsRoot
  <2> QED BY <1>1, <1>2, <1>5, <2>1 DEF ExtendsRoot, Child, TablesOK
<1>6. CASE Prepares(m)
  <2>1. PreparationRow(m) \in PreparationRows
    BY <1>6, PreparationRowFields DEF Prepares
  <2> QED BY <1>6, <2>1 DEF Prepares, TablesOK
<1>7. ASSUME NEW p \in preparations, Attests(m, p)
      PROVE  TablesOK'
  <2>1. AttestationRow(p) \in AttestationRows
    BY AttestationRowFields DEF TablesOK
  <2> QED BY <1>7, <2>1 DEF Attests, TablesOK
<1> QED BY <1>3, <1>4, <1>5, <1>6, <1>7 DEF Effect

(* A call carries what its client read: an extension an epoch of the       *)
(* database or of an extension on record.                                  *)
LEMMA Called ==
    ASSUME TypeOK, NEW c \in Clients, Call(c)
    PROVE  /\ pc[c] = "idle" /\ UNCHANGED <<tables, standing, locks>>
           /\ \E m \in Calls, stage \in {"probing admission", "locking"} :
                 /\ stage = "probing admission" => m.kind = "admit"
                 /\ pc' = [pc EXCEPT ![c] = stage] /\ call' = [call EXCEPT ![c] = m]
<1>1. CASE CallAdmit(c)
  <2>0. PICK q \in Requests :
           \E r \in KnownRevisions(q.space) :
             /\ q.kind = "admit"
             /\ Begin(c, [kind |-> "admit", space |-> q.space, id |-> q.id,
                          intervals |-> q.intervals, parent |-> r], "probing admission")
    BY <1>1 DEF CallAdmit
  <2>1. PICK r \in KnownRevisions(q.space) :
           /\ q.kind = "admit"
           /\ Begin(c, [kind |-> "admit", space |-> q.space, id |-> q.id,
                        intervals |-> q.intervals, parent |-> r], "probing admission")
    BY <2>0
  <2>2. q.space \in Spaces /\ q.id \in Ids /\ q.intervals \in SUBSET Intervals
    BY <2>1, NativeSourcesAssumption
  <2>3. [kind |-> "admit", space |-> q.space, id |-> q.id,
         intervals |-> q.intervals, parent |-> r] \in Calls
    BY <2>2, KnownAreRevisions DEF Calls, PublishCall
  <2> QED BY <2>1, <2>3 DEF Begin
<1>2. CASE CallExtend(c)
  <2>0. PICK q \in Requests :
           \E r \in KnownRevisions(q.space), e \in {epoch} \cup {x.intent.epoch : x \in extensions} :
             /\ q.kind = "extend"
             /\ Begin(c, [kind |-> "extend", space |-> q.space, id |-> q.id, root |-> q.root,
                          intervals |-> q.intervals, parent |-> r, epoch |-> e], "locking")
    BY <1>2 DEF CallExtend
  <2>1. PICK r \in KnownRevisions(q.space), e \in {epoch} \cup {x.intent.epoch : x \in extensions} :
           /\ q.kind = "extend"
           /\ Begin(c, [kind |-> "extend", space |-> q.space, id |-> q.id, root |-> q.root,
                        intervals |-> q.intervals, parent |-> r, epoch |-> e], "locking")
    BY <2>0
  <2>2. q.space \in Spaces /\ q.id \in Ids /\ q.intervals \in SUBSET Intervals /\ q.root \in Ids
    BY <2>1, NativeSourcesAssumption
  <2>3. e \in Nat
    BY <2>1 DEF TypeOK, TablesOK, ExtensionRows, Intents
  <2>4. [kind |-> "extend", space |-> q.space, id |-> q.id, root |-> q.root,
         intervals |-> q.intervals, parent |-> r, epoch |-> e] \in Calls
    BY <2>2, <2>3, KnownAreRevisions DEF Calls, ExtendCall
  <2> QED BY <2>1, <2>4 DEF Begin
<1>3. CASE CallPublish(c)
  <2>0. PICK q \in Requests :
           \E r \in KnownRevisions(q.space) :
             /\ q.kind = "publish"
             /\ Begin(c, [kind |-> "publish", space |-> q.space, id |-> q.id,
                          intervals |-> q.intervals, parent |-> r], "locking")
    BY <1>3 DEF CallPublish
  <2>1. PICK r \in KnownRevisions(q.space) :
           /\ q.kind = "publish"
           /\ Begin(c, [kind |-> "publish", space |-> q.space, id |-> q.id,
                        intervals |-> q.intervals, parent |-> r], "locking")
    BY <2>0
  <2>2. q.space \in Spaces /\ q.id \in Ids /\ q.intervals \in SUBSET Intervals
    BY <2>1, NativeSourcesAssumption
  <2>3. [kind |-> "publish", space |-> q.space, id |-> q.id,
         intervals |-> q.intervals, parent |-> r] \in Calls
    BY <2>2, KnownAreRevisions DEF Calls, PublishCall
  <2> QED BY <2>1, <2>3 DEF Begin
<1>4. CASE CallPrepare(c)
  <2>0. PICK q \in Requests :
           \E r \in KnownRevisions(q.space) :
             /\ q.kind = "prepare"
             /\ Begin(c, [kind |-> "prepare", space |-> q.space, id |-> q.id,
                          artifact |-> q.artifact, span |-> q.span, parent |-> r], "locking")
    BY <1>4 DEF CallPrepare
  <2>1. PICK r \in KnownRevisions(q.space) :
           /\ q.kind = "prepare"
           /\ Begin(c, [kind |-> "prepare", space |-> q.space, id |-> q.id,
                        artifact |-> q.artifact, span |-> q.span, parent |-> r], "locking")
    BY <2>0
  <2>2. q.space \in Spaces /\ q.id \in Ids /\ q.artifact \in Legacy /\ q.span \in Spans
    BY <2>1, NativeSourcesAssumption
  <2>3. [kind |-> "prepare", space |-> q.space, id |-> q.id,
         artifact |-> q.artifact, span |-> q.span, parent |-> r] \in Calls
    BY <2>2, KnownAreRevisions DEF Calls, PrepareCall
  <2> QED BY <2>1, <2>3 DEF Begin
<1>5. CASE CallAttest(c)
  <2>1. PICK q \in Requests : q.kind = "attest" /\ Begin(c, q, "locking")
    BY <1>5 DEF CallAttest
  <2>2. q \in Calls
    BY <2>1, NativeSourcesAssumption DEF Calls, AttestCall
  <2> QED BY <2>1, <2>2 DEF Begin
<1> QED BY <1>1, <1>2, <1>3, <1>4, <1>5 DEF Call

(* Where a step leaves its client, and the others.                         *)
LEMMA ClientMoves ==
    ASSUME TypeOK, NEW c \in Clients, ClientStep(c)
    PROVE  /\ \E stage \in Stages : pc' = [pc EXCEPT ![c] = stage]
           /\ DOMAIN call' = Clients
           /\ spaceLock' \in [Spaces -> Clients \cup {None}]
           /\ \A d \in Clients \ {c} :
                 /\ pc'[d] = pc[d] /\ call'[d] = call[d]
                 /\ epochLock = d => epochLock' = d
                 /\ \A s \in Spaces : spaceLock[s] = d => spaceLock'[s] = d
<1>0. None \notin Clients
  BY NativeSourcesAssumption
<1>1. CASE Call(c)
  <2>1. /\ UNCHANGED locks
        /\ \E m \in Calls, stage \in {"probing admission", "locking"} :
              pc' = [pc EXCEPT ![c] = stage] /\ call' = [call EXCEPT ![c] = m]
    BY <1>1, Called
  <2> QED BY <2>1 DEF locks, TypeOK, ClientsOK, Stages, Probing
<1> USE DEF TypeOK, ClientsOK
<1>2. CASE Probes(c) \/ Decides(c)
  <2>1. UNCHANGED <<locks, call>> /\ \E stage \in Stages : pc' = [pc EXCEPT ![c] = stage]
    BY <1>2 DEF Probes, Decides, Writes, Stages, InTransaction
  <2> QED BY <2>1 DEF locks
<1>3. CASE Leaves(c)
  <2>1. /\ \E stage \in Stages : pc' = [pc EXCEPT ![c] = stage]
        /\ DOMAIN call' = Clients /\ \A d \in Clients \ {c} : call'[d] = call[d]
        /\ Release(c)
    BY <1>3 DEF Leaves, Ends, Stages, Probing
  <2>2. /\ spaceLock' \in [Spaces -> Clients \cup {None}]
        /\ \A d \in Clients \ {c} :
                 /\ epochLock = d => epochLock' = d
                 /\ \A s \in Spaces : spaceLock[s] = d => spaceLock'[s] = d
    BY <1>0, <2>1 DEF Release
  <2> QED BY <2>1, <2>2
<1>4. CASE LockEpoch(c)
  <2>1. /\ epochLock = None /\ UNCHANGED <<spaceLock, call>>
        /\ pc' = [pc EXCEPT ![c] = "deciding"] \/ pc' = [pc EXCEPT ![c] = pc[c]]
    BY <1>4 DEF LockEpoch, Acquired
  <2> QED BY <1>0, <2>1 DEF Stages, InTransaction
<1>5. CASE LockSpace(c)
  <2>1. /\ spaceLock[call[c].space] = None /\ UNCHANGED <<epochLock, call>>
        /\ spaceLock' = [spaceLock EXCEPT ![call[c].space] = c]
        /\ pc' = [pc EXCEPT ![c] = "deciding"] \/ pc' = [pc EXCEPT ![c] = pc[c]]
    BY <1>5 DEF LockSpace, Acquired
  <2> QED BY <1>0, <2>1 DEF Stages, InTransaction
<1> QED BY <1>1, <1>2, <1>3, <1>4, <1>5 DEF ClientStep, CommitStep

LEMMA ClientsTyped ==
    ASSUME TypeOK, NEW c \in Clients, ClientStep(c), adapter' = adapter
    PROVE  ClientsOK'
<1>1. PICK stage \in Stages : pc' = [pc EXCEPT ![c] = stage]
  BY ClientMoves
<1>2. /\ pc \in [Clients -> Stages]
      /\ \A d \in Clients :
          /\ pc[d] # "idle" => call[d] \in Calls
          /\ pc[d] \in Probing => call[d].kind = "admit"
          /\ pc[d] \in InTransaction => adapter = "postgres"
  BY DEF TypeOK, ClientsOK
<1>3. pc'[c] = stage /\ pc' \in [Clients -> Stages]
  BY <1>1, <1>2
<1>4. /\ stage # "idle" => call'[c] \in Calls
      /\ stage \in Probing => call'[c].kind = "admit"
      /\ stage \in InTransaction => adapter = "postgres"
  <2>1. CASE Call(c)
    <3>1. PICK m \in Calls, told \in {"probing admission", "locking"} :
             /\ told = "probing admission" => m.kind = "admit"
             /\ pc' = [pc EXCEPT ![c] = told] /\ call' = [call EXCEPT ![c] = m]
      BY <2>1, Called
    <3>2. stage = told /\ call'[c] = m
      BY <1>2, <1>3, <3>1 DEF TypeOK, ClientsOK
    <3> QED BY <3>1, <3>2 DEF Probing, InTransaction
  <2>2. CASE Probes(c)
    <3>1. /\ pc[c] \in Probing /\ call' = call /\ stage \in Probing \cup {"locking"}
      BY <1>2, <1>3, <2>2 DEF Probes
    <3> QED BY <1>2, <3>1 DEF Probing, InTransaction
  <2>3. CASE Decides(c)
    <3>1. pc[c] = "deciding" /\ call' = call /\ stage = "committing"
      BY <1>2, <1>3, <2>3 DEF Decides, Writes
    <3> QED BY <1>2, <3>1 DEF Probing, InTransaction
  <2>4. CASE pc[c] # "idle" /\ Leaves(c)
    <3>1. stage = "idle" \/ (stage = "recovering" /\ call' = call /\ call[c].kind = "admit")
      BY <1>2, <1>3, <2>4 DEF Leaves, Ends
    <3> QED BY <1>2, <2>4, <3>1 DEF Probing, InTransaction
  <2>5. CASE LockEpoch(c) \/ LockSpace(c)
    <3>1. /\ adapter = "postgres" /\ pc[c] = "locking" /\ call' = call
          /\ stage \in {"deciding", "locking"}
      BY <1>2, <1>3, <2>5 DEF LockEpoch, LockSpace, Awaits, Acquired
    <3> QED BY <1>2, <3>1 DEF Probing, InTransaction
  <2> QED BY <2>1, <2>2, <2>3, <2>4, <2>5 DEF ClientStep, CommitStep
<1>5. \A d \in Clients :
          /\ pc'[d] # "idle" => call'[d] \in Calls
          /\ pc'[d] \in Probing => call'[d].kind = "admit"
          /\ pc'[d] \in InTransaction => adapter' = "postgres"
  BY <1>2, <1>3, <1>4, ClientMoves
<1>6. /\ adapter' \in {"postgres", "memory"} /\ standing' \in [Legacy -> BOOLEAN]
      /\ spaceLock' \in [Spaces -> Clients \cup {None}] /\ DOMAIN call' = Clients
  BY StandingStays, ClientMoves DEF TypeOK, ClientsOK
<1> QED BY <1>3, <1>5, <1>6 DEF ClientsOK

-----------------------------------------------------------------------------
(* The locks, and the decision made under them.                            *)
LEMMA LocksTaken ==
    ASSUME TypeOK, NEW c \in Clients, LocksHeld(c), ClientStep(c)
    PROVE  LocksHeld(c)'
<1>0. DOMAIN pc = Clients /\ DOMAIN spaceLock = Spaces
  BY DEF TypeOK, ClientsOK
<1>1. CASE pc'[c] \notin InTransaction
  BY <1>1 DEF LocksHeld
<1>2. CASE LockEpoch(c)
  <2>1. Last(LockOrder(call[c])) = "space"
    BY DEF LockOrder, Last
  <2>2. pc[c] = "locking" /\ pc'[c] = pc[c]
    BY <1>0, <1>2, <2>1 DEF LockEpoch, Awaits, Acquired
  <2> QED BY <1>1, <2>2 DEF InTransaction
<1>3. CASE LockSpace(c)
  <2>1. PICK m \in Calls : m = call[c]
    BY <1>3 DEF LockSpace, Awaits, TypeOK, ClientsOK
  <2>2. /\ \E i \in DOMAIN LockOrder(m) :
              "space" = LockOrder(m)[i] /\ \A j \in 1..(i - 1) : Holds(c, LockOrder(m)[j])
        /\ spaceLock' = [spaceLock EXCEPT ![m.space] = c]
        /\ UNCHANGED <<epochLock, call>>
    BY <1>3, <2>1 DEF LockSpace, Awaits
  <2>3. m.kind # "publish" => Holds(c, "epoch")
    <3>1. SUFFICES ASSUME m.kind # "publish"
                   PROVE  Holds(c, "epoch")
      OBVIOUS
    <3>2. LockOrder(m) = <<"epoch", "space">>
      BY <3>1 DEF LockOrder
    <3>3. PICK i \in {1, 2} : /\ "space" = <<"epoch", "space">>[i]
                              /\ \A j \in 1..(i - 1) : Holds(c, <<"epoch", "space">>[j])
      BY <2>2, <3>2
    <3>4. i = 2 /\ <<"epoch", "space">>[1] = "epoch" /\ 1 \in 1..(2 - 1)
      BY <3>3
    <3> QED BY <3>3, <3>4
  <2>4. m.space \in Spaces
    BY CallKinds
  <2>5. spaceLock'[m.space] = c
    BY <1>0, <2>2, <2>4
  <2> QED BY <2>1, <2>2, <2>3, <2>5 DEF LocksHeld, Holds
<1>4. CASE Decides(c)
  BY <1>4 DEF Decides, Writes, LocksHeld, InTransaction, locks
<1>5. CASE Call(c)
  <2>1. PICK told \in {"probing admission", "locking"} : pc' = [pc EXCEPT ![c] = told]
    BY <1>5, Called
  <2> QED BY <1>0, <1>1, <2>1 DEF InTransaction
<1>6. CASE Probes(c) \/ Leaves(c)
  <2>1. pc'[c] \in Probing \cup {"locking", "idle"}
    BY <1>0, <1>6 DEF Probes, Leaves, Ends, Probing
  <2> QED BY <1>1, <2>1 DEF InTransaction, Probing
<1> QED BY <1>2, <1>3, <1>4, <1>5, <1>6 DEF ClientStep, CommitStep

LEMMA DecisionMade ==
    ASSUME TypeOK, NEW c \in Clients, ClientStep(c)
    PROVE  DecisionHolds(c)'
<1>0. DOMAIN pc = Clients
  BY DEF TypeOK, ClientsOK
<1>1. CASE pc'[c] # "committing"
  BY <1>1 DEF DecisionHolds
<1>2. CASE Decides(c)
  <2>1. Decided(call[c]) /\ UNCHANGED <<tables, standing, call>>
    BY <1>2 DEF Decides, Writes
  <2> QED BY <2>1 DEF DecisionHolds, Decided, PublishedUnder, AtHead, Extends, Roots, Registered,
         SameId, Current, IdentityTaken, tables
<1>3. CASE Call(c)
  <2>1. PICK told \in {"probing admission", "locking"} : pc' = [pc EXCEPT ![c] = told]
    BY <1>3, Called
  <2> QED BY <1>0, <1>1, <2>1
<1>4. CASE Probes(c) \/ Leaves(c)
  <2>1. pc'[c] \in Probing \cup {"locking", "idle"}
    BY <1>0, <1>4 DEF Probes, Leaves, Ends, Probing
  <2> QED BY <1>1, <2>1 DEF Probing
<1>5. CASE LockEpoch(c) \/ LockSpace(c)
  <2>1. pc'[c] \in {"deciding", "locking"}
    BY <1>0, <1>5 DEF LockEpoch, LockSpace, Awaits, Acquired
  <2> QED BY <1>1, <2>1
<1> QED BY <1>2, <1>3, <1>4, <1>5 DEF ClientStep, CommitStep

(* A commit in another space leaves a decision as it was, if one of the    *)
(* two takes no epoch.                                                     *)
LEMMA DecisionElsewhere ==
    ASSUME TablesOK, NEW m \in Calls, NEW n \in Calls, n.space # m.space,
           n.kind = "publish" \/ m.kind = "publish",
           Effect(n), standing' = standing, Decided(m)
    PROVE  Decided(m)'
<1>1. /\ m.space \in Spaces /\ n.space \in Spaces
      /\ DOMAIN head = Spaces /\ DOMAIN published = Spaces
  BY CallKinds DEF TablesOK
<1>2. head'[m.space] = head[m.space] /\ published'[m.space] = published[m.space]
  BY <1>1 DEF Effect, Publishes, Admits, ExtendsRoot, Child, PublishChild, Prepares, Attests
<1>3. PublishedUnder(m)' = PublishedUnder(m) /\ (AtHead(m)' <=> AtHead(m))
  BY <1>2 DEF PublishedUnder, AtHead
<1>4. CASE m.kind = "publish"
  BY <1>3, <1>4 DEF Decided
<1>5. CASE n.kind = "publish"
  <2>1. UNCHANGED <<epoch, admissions, extensions, preparations, attestations>>
    BY <1>5 DEF Effect, Publishes
  <2>2. \A p \in preparations : p.space = m.space => (Current(p)' <=> Current(p))
    BY <1>2, <2>1 DEF Current
  <2>3. /\ \A p : IdentityTaken(p)' <=> IdentityTaken(p)
        /\ SameId(preparations, m)' = SameId(preparations, m)
        /\ Extends(m)' <=> Extends(m)
    BY <1>3, <2>1 DEF IdentityTaken, SameId, Extends, Roots, Registered
  <2>4. \A p \in SameId(preparations, m) : p \in preparations /\ p.space = m.space
    BY DEF SameId
  <2>5. CASE m.kind = "attest"
    <3>1. PICK p \in SameId(preparations, m) : Current(p) /\ ~IdentityTaken(p)
      BY <2>5 DEF Decided
    <3>2. p \in SameId(preparations, m)' /\ Current(p)' /\ ~IdentityTaken(p)'
      BY <2>2, <2>3, <2>4, <3>1
    <3> QED BY <2>5, <3>2 DEF Decided
  <2>6. CASE m.kind \in {"admit", "publish", "extend", "prepare"}
    BY <1>3, <2>3, <2>6 DEF Decided
  <2> QED BY <2>5, <2>6, CallKinds
<1> QED BY <1>4, <1>5

LEMMA OthersKeep ==
    ASSUME IInv, NEW c \in Clients, ClientStep(c), NEW d \in Clients, d # c
    PROVE  LocksHeld(d)' /\ DecisionHolds(d)'
<1>0. /\ TypeOK /\ TablesOK /\ LocksHeld(d) /\ DecisionHolds(d)
      /\ LocksHeld(c)
  BY DEF IInv, TypeOK
<1>1. /\ pc'[d] = pc[d] /\ call'[d] = call[d]
      /\ epochLock = d => epochLock' = d
      /\ \A s \in Spaces : spaceLock[s] = d => spaceLock'[s] = d
  BY <1>0, ClientMoves
<1> SUFFICES ASSUME pc[d] \in InTransaction
             PROVE  LocksHeld(d)' /\ DecisionHolds(d)'
  BY <1>1 DEF LocksHeld, DecisionHolds, InTransaction
<1>2. PICK m \in Calls : m = call[d]
  BY <1>0 DEF TypeOK, ClientsOK, InTransaction
<1>3. m.space \in Spaces /\ (m.kind # "publish" => epochLock = d) /\ spaceLock[m.space] = d
  BY <1>0, <1>2, CallKinds DEF LocksHeld
<1>4. LocksHeld(d)'
  BY <1>1, <1>2, <1>3 DEF LocksHeld
<1>5. DecisionHolds(d)'
  <2>1. SUFFICES ASSUME pc[d] = "committing", Decided(m)
                 PROVE  Decided(m)'
    BY <1>0, <1>1, <1>2 DEF DecisionHolds
  <2>2. UNCHANGED standing
    BY StandingStays
  <2>3. CASE CommitStep(c)
    <3>1. PICK n \in Calls : n = call[c] /\ Effect(n)
      BY <2>3, CommitWrites
    <3>2. pc[c] \in InTransaction
      BY <1>0, <2>1, <2>3 DEF CommitStep, InTransaction, TypeOK, ClientsOK
    <3>3. (n.kind # "publish" => epochLock = c) /\ spaceLock[n.space] = c
      BY <1>0, <3>1, <3>2 DEF LocksHeld
    <3>4. n.space # m.space /\ (n.kind = "publish" \/ m.kind = "publish")
      BY <1>3, <3>3
    <3> QED BY <1>0, <2>1, <2>2, <3>1, <3>4, DecisionElsewhere
  <2>4. CASE ~CommitStep(c)
    <3>1. UNCHANGED tables
      BY <2>4, TablesStay
    <3> QED BY <2>1, <2>2, <3>1 DEF Decided, PublishedUnder, AtHead, Extends, Roots, Registered,
         SameId, Current, IdentityTaken, tables
  <2> QED BY <2>3, <2>4
<1> QED BY <1>4, <1>5

(* The artifact of a decision is held, so that it keeps its standing.      *)
LEMMA StandingHeld ==
    ASSUME IInv, LoseStanding, NEW d \in Clients
    PROVE  LocksHeld(d)' /\ DecisionHolds(d)'
<1>1. UNCHANGED <<tables, locks, pc, call>>
  BY DEF LoseStanding
<1>2. LocksHeld(d)'
  BY <1>1 DEF IInv, LocksHeld, locks
<1>3. DecisionHolds(d)'
  <2>1. SUFFICES ASSUME pc[d] = "committing"
                 PROVE  Decided(call[d])'
    BY <1>1 DEF DecisionHolds
  <2>2. PICK m \in Calls : m = call[d] /\ Decided(m)
    BY <2>1 DEF IInv, DecisionHolds, TypeOK, ClientsOK
  <2>3. PICK lost \in Legacy \ Shared : standing' = [standing EXCEPT ![lost] = FALSE]
    BY DEF LoseStanding
  <2>4. DOMAIN standing = Legacy
    BY DEF IInv, TypeOK, ClientsOK
  <2>5. Decided(m)'
    <3>1. CASE m.kind = "attest"
      <4>1. PICK p \in SameId(preparations, m) : Current(p) /\ ~IdentityTaken(p)
        BY <2>2, <3>1 DEF Decided
      <4>2. p.command.artifact \in Shared
        BY <2>1, <2>2, <3>1, <4>1 DEF Shared
      <4>3. p.command.artifact \in Legacy
        BY <4>1 DEF SameId, IInv, TypeOK, TablesOK, PreparationRows, Selections
      <4>4. standing'[p.command.artifact] = standing[p.command.artifact]
        BY <2>3, <2>4, <4>2, <4>3
      <4>5. Current(p)' /\ ~IdentityTaken(p)' /\ p \in SameId(preparations, m)'
        BY <1>1, <4>1, <4>4 DEF Current, IdentityTaken, SameId, tables
      <4> QED BY <3>1, <4>5 DEF Decided
    <3>2. CASE m.kind = "prepare"
      <4>1. m.artifact \in Shared
        BY <2>1, <2>2, <3>2 DEF Shared
      <4>2. m.artifact \in Legacy
        BY <3>2, CallKinds DEF PrepareCall
      <4>3. standing'[m.artifact] = standing[m.artifact]
        BY <2>3, <2>4, <4>1, <4>2
      <4> QED BY <1>1, <2>2, <3>2, <4>3 DEF Decided, AtHead, SameId, tables
    <3>3. CASE m.kind \in {"admit", "publish", "extend"}
      BY <1>1, <2>2, <3>3 DEF Decided, PublishedUnder, AtHead, Extends, Roots, Registered, tables
    <3> QED BY <3>1, <3>2, <3>3, CallKinds
  <2> QED BY <1>1, <2>2, <2>5
<1> QED BY <1>2, <1>3

-----------------------------------------------------------------------------
(* The parts about tables.                                                 *)
LEMMA AuthorityGrows ==
    ASSUME TablesOK, NEW m \in Calls, Effect(m)
    PROVE  \/ Authority' = Authority /\ epoch' = epoch
           \/ /\ epoch' = epoch + 1
              /\ \E row : row.epoch = epoch + 1 /\ Authority' = Authority \cup {row}
<1>1. CASE Publishes(m) \/ Prepares(m)
  BY <1>1 DEF Publishes, Prepares, Authority
<1>2. CASE Admits(m)
  <2>1. AdmissionRow(m).epoch = epoch + 1
    BY <1>2, AdmissionRowFields DEF Admits
  <2>2. Authority' = Authority \cup {AdmissionRow(m)} /\ epoch' = epoch + 1
    BY <1>2 DEF Admits, Authority
  <2> QED BY <2>1, <2>2
<1>3. CASE ExtendsRoot(m)
  <2>1. ExtensionRow(m).epoch = epoch + 1
    BY <1>3, ExtensionRowFields DEF ExtendsRoot
  <2>2. Authority' = Authority \cup {ExtensionRow(m)} /\ epoch' = epoch + 1
    BY <1>3 DEF ExtendsRoot, Authority
  <2> QED BY <2>1, <2>2
<1>4. ASSUME NEW p \in preparations, Attests(m, p)
      PROVE  /\ epoch' = epoch + 1
             /\ \E row : row.epoch = epoch + 1 /\ Authority' = Authority \cup {row}
  <2>1. AttestationRow(p).epoch = epoch + 1
    BY AttestationRowFields DEF TablesOK
  <2>2. Authority' = Authority \cup {AttestationRow(p)} /\ epoch' = epoch + 1
    BY <1>4 DEF Attests, Authority
  <2> QED BY <2>1, <2>2
<1> QED BY <1>1, <1>2, <1>3, <1>4 DEF Effect

LEMMA EpochStep ==
    ASSUME TablesOK, EpochNamesOneRow, NEW m \in Calls, Effect(m)
    PROVE  EpochNamesOneRow'
<1>1. epoch \in Nat
  BY DEF TablesOK
<1>2. CASE Authority' = Authority /\ epoch' = epoch
  BY <1>2 DEF EpochNamesOneRow
<1>3. CASE /\ epoch' = epoch + 1
           /\ \E row : row.epoch = epoch + 1 /\ Authority' = Authority \cup {row}
  <2>1. PICK row : row.epoch = epoch + 1 /\ Authority' = Authority \cup {row}
    BY <1>3
  <2>2. \A x \in Authority : x.epoch \in 1..epoch /\ x.epoch # epoch + 1
    BY <1>1 DEF EpochNamesOneRow
  <2>3. \A x \in Authority' : x.epoch \in 1..epoch'
    BY <1>1, <1>3, <2>1, <2>2
  <2>4. \A x, y \in Authority' : x.epoch = y.epoch => x = y
    BY <2>1, <2>2 DEF EpochNamesOneRow
  <2> QED BY <2>3, <2>4 DEF EpochNamesOneRow
<1> QED BY <1>2, <1>3, AuthorityGrows

LEMMA ChildWrites ==
    ASSUME TablesOK, NEW m \in PublishCall \cup ExtendCall, Child(m)
    PROVE  /\ \A s \in Spaces : published[s] \subseteq published'[s]
           /\ \E p \in published'[m.space] : p.id = m.id
           /\ \A s \in Spaces, r \in Revisions : IsPrefix(r, head[s]) => IsPrefix(r, head'[s])
           /\ IsPrefix(Append(m.parent, m.id), head'[m.space])
<1>1. m.space \in Spaces /\ m.id \in Ids /\ m.parent \in Revisions
  BY DEF PublishCall, ExtendCall
<1>2. PICK t \in Revisions, id \in Ids : t = m.parent /\ t = head[m.space] /\ id = m.id
  BY <1>1 DEF Child, AtHead
<1>3. /\ Append(t, id) \in Revisions /\ IsPrefix(Append(t, id), Append(t, id))
      /\ \A r \in Revisions : IsPrefix(r, t) => IsPrefix(r, Append(t, id))
  BY PrefixOfChild DEF Revisions
<1>4. /\ head'[m.space] = Append(t, id)
      /\ \A s \in Spaces : s # m.space => head'[s] = head[s]
  BY <1>1, <1>2 DEF Child, PublishChild, TablesOK
<1>5. /\ published'[m.space] = published[m.space] \cup {[id |-> m.id, parent |-> m.parent]}
      /\ \A s \in Spaces : s # m.space => published'[s] = published[s]
  BY <1>1 DEF Child, PublishChild, TablesOK
<1>6. \A s \in Spaces : published[s] \subseteq published'[s]
  BY <1>5
<1>7. \E p \in published'[m.space] : p.id = m.id
  <2>1. PICK p : p = [id |-> m.id, parent |-> m.parent]
    OBVIOUS
  <2> QED BY <1>5, <2>1
<1>8. \A s \in Spaces, r \in Revisions : IsPrefix(r, head[s]) => IsPrefix(r, head'[s])
  BY <1>2, <1>3, <1>4
<1>9. IsPrefix(Append(m.parent, m.id), head'[m.space])
  BY <1>2, <1>3, <1>4
<1> QED BY <1>6, <1>7, <1>8, <1>9

(* What a commit adds to the admissions and extensions of a space.         *)
LEMMA RowsGrow ==
    ASSUME TablesOK, NEW m \in Calls, Effect(m)
    PROVE  \/ UNCHANGED <<head, published, admissions, extensions>>
           \/ /\ m \in PublishCall \cup ExtendCall /\ Child(m)
              /\ \/ UNCHANGED <<admissions, extensions>>
                 \/ \E row : /\ row.space = m.space /\ row.id = m.id
                             /\ row.revision = Append(m.parent, m.id)
                             /\ (admissions \cup extensions)' = (admissions \cup extensions) \cup {row}
<1>1. CASE Publishes(m) \/ Prepares(m) \/ \E p \in preparations : Attests(m, p)
  BY <1>1 DEF Publishes, Prepares, Attests
<1>2. CASE Admits(m)
  <2>1. /\ AdmissionRow(m).space = m.space /\ AdmissionRow(m).id = m.id
        /\ AdmissionRow(m).revision = Append(m.parent, m.id)
    BY <1>2, AdmissionRowFields DEF Admits
  <2>2. (admissions \cup extensions)' = (admissions \cup extensions) \cup {AdmissionRow(m)}
    BY <1>2 DEF Admits
  <2> QED BY <1>2, <2>1, <2>2 DEF Admits
<1>3. CASE ExtendsRoot(m)
  <2>1. /\ ExtensionRow(m).space = m.space /\ ExtensionRow(m).id = m.id
        /\ ExtensionRow(m).revision = Append(m.parent, m.id)
    BY <1>3, ExtensionRowFields DEF ExtendsRoot
  <2>2. (admissions \cup extensions)' = (admissions \cup extensions) \cup {ExtensionRow(m)}
    BY <1>3 DEF ExtendsRoot
  <2> QED BY <1>3, <2>1, <2>2 DEF ExtendsRoot
<1> QED BY <1>1, <1>2, <1>3 DEF Effect

LEMMA RowsStep ==
    ASSUME TablesOK, RowsPublished, RevisionsKept, NEW m \in Calls, Effect(m)
    PROVE  RowsPublished' /\ RevisionsKept'
<1>0. \A x \in admissions \cup extensions : x.space \in Spaces /\ x.revision \in Revisions
  BY DEF TablesOK, AdmissionRows, ExtensionRows
<1>1. CASE UNCHANGED <<head, published, admissions, extensions>>
  BY <1>1 DEF RowsPublished, RevisionsKept
<1>2. ASSUME m \in PublishCall \cup ExtendCall, Child(m)
      PROVE  /\ PublishedUnder(m) = {}
             /\ \A x \in admissions \cup extensions : ~(x.space = m.space /\ x.id = m.id)
             /\ \A x \in admissions \cup extensions :
                   /\ \E p \in published'[x.space] : p.id = x.id
                   /\ IsPrefix(x.revision, head'[x.space])
  <2>1. PublishedUnder(m) = {}
    BY <1>2 DEF Child
  <2>2. \A x \in admissions \cup extensions : ~(x.space = m.space /\ x.id = m.id)
    BY <2>1 DEF PublishedUnder, RowsPublished
  <2> QED BY <1>0, <1>2, <2>1, <2>2, ChildWrites DEF RowsPublished, RevisionsKept
<1>3. CASE m \in PublishCall \cup ExtendCall /\ Child(m) /\ UNCHANGED <<admissions, extensions>>
  BY <1>2, <1>3 DEF RowsPublished, RevisionsKept
<1>4. ASSUME m \in PublishCall \cup ExtendCall, Child(m),
             NEW row, row.space = m.space, row.id = m.id, row.revision = Append(m.parent, m.id),
             (admissions \cup extensions)' = (admissions \cup extensions) \cup {row}
      PROVE  RowsPublished' /\ RevisionsKept'
  <2>1. /\ \E p \in published'[row.space] : p.id = row.id
        /\ IsPrefix(row.revision, head'[row.space])
    BY <1>4, ChildWrites
  <2>2. \A x, y \in (admissions \cup extensions)' : x.space = y.space /\ x.id = y.id => x = y
    BY <1>2, <1>4 DEF RowsPublished
  <2> QED BY <1>2, <1>4, <2>1, <2>2 DEF RowsPublished, RevisionsKept
<1> QED BY <1>1, <1>3, <1>4, RowsGrow

LEMMA PreparedStep ==
    ASSUME TablesOK, PreparedOnce, NEW m \in Calls, Effect(m)
    PROVE  PreparedOnce'
<1>1. CASE UNCHANGED preparations
  BY <1>1 DEF PreparedOnce
<1>2. CASE Prepares(m)
  <2>1. PreparationRow(m).space = m.space /\ PreparationRow(m).id = m.id
    BY <1>2, PreparationRowFields DEF Prepares
  <2>2. \A p \in preparations : ~(p.space = m.space /\ p.id = m.id)
    BY <1>2 DEF Prepares, SameId
  <2> QED BY <1>2, <2>1, <2>2 DEF Prepares, PreparedOnce
<1> QED BY <1>1, <1>2 DEF Effect, Publishes, Admits, ExtendsRoot, Attests

-----------------------------------------------------------------------------
(* One interval of a source is registered once.  An admission cannot bring *)
(* the root of an extension on record, whose id is published; and an       *)
(* extension was decided on against everything registered at its epoch.    *)
Rooted(x) == \E r \in admissions :
                r.space = x.space /\ r.id = x.intent.root /\ IsPrefix(r.revision, x.revision)

(* x, an extension, and y cite the same source.                            *)
CitesRoot(x, y) ==
    /\ x.space = y.space /\ x # y
    /\ x.intent.root = IF y \in extensions THEN y.intent.root ELSE y.id

IntervalsOf(y) == IF y \in extensions THEN y.intent.intervals ELSE y.command.intervals

Apart == \A x \in extensions, y \in admissions \cup extensions :
            CitesRoot(x, y) => x.intent.intervals \cap IntervalsOf(y) = {} /\ x.epoch # y.epoch

SpansOnce == \A a, b \in attestations : a.span = b.span => a = b

LEMMA RegisteredParts ==
    RegisteredOnce <=> Apart /\ (\A x \in extensions : Rooted(x)) /\ SpansOnce
BY DEF RegisteredOnce, Apart, CitesRoot, IntervalsOf, Rooted, SpansOnce

LEMMA ApartAfterAdmission ==
    ASSUME IInv, NEW m \in Calls, Admits(m)
    PROVE  Apart'
<1>0. TablesOK /\ Apart /\ RowsPublished /\ \A x \in extensions : Rooted(x)
  BY RegisteredParts DEF IInv, TypeOK
<1> DEFINE row == AdmissionRow(m)
<1>1. /\ row.space = m.space /\ row.id = m.id /\ row \in AdmissionRows
      /\ admissions' = admissions \cup {row} /\ extensions' = extensions
  BY <1>0, AdmissionRowFields DEF Admits
<1> HIDE DEF row
<1>2. row \notin extensions
  BY <1>0, <1>1, RowKindsDiffer DEF TablesOK
<1>3. \A x \in extensions : ~(x.space = m.space /\ x.intent.root = m.id)
  <2>1. ASSUME NEW x \in extensions, x.space = m.space, x.intent.root = m.id
        PROVE  FALSE
    <3>1. PICK r \in admissions : r.space = m.space /\ r.id = m.id
      BY <1>0, <2>1 DEF Rooted
    <3>2. PublishedUnder(m) # {}
      BY <1>0, <3>1 DEF RowsPublished, PublishedUnder
    <3> QED BY <3>2 DEF Admits, Child
  <2> QED BY <2>1
<1>4. ASSUME NEW x \in extensions, NEW y \in admissions \cup extensions \cup {row}, CitesRoot(x, y)
      PROVE  x.intent.intervals \cap IntervalsOf(y) = {} /\ x.epoch # y.epoch
  <2>1. y # row
    BY <1>1, <1>2, <1>3, <1>4 DEF CitesRoot
  <2> QED BY <1>0, <1>4, <2>1 DEF Apart
<1> QED BY <1>1, <1>4 DEF Apart, CitesRoot, IntervalsOf

LEMMA ApartAfterExtension ==
    ASSUME IInv, EpochNamesOneRow', NEW m \in Calls, ExtendsRoot(m)
    PROVE  Apart'
<1>0. TablesOK /\ Apart
  BY RegisteredParts DEF IInv, TypeOK
<1> DEFINE row == ExtensionRow(m)
<1>1. /\ row.space = m.space /\ row \in ExtensionRows
      /\ row.intent.root = m.root /\ row.intent.intervals = m.intervals
      /\ extensions' = extensions \cup {row} /\ admissions' = admissions
  BY <1>0, ExtensionRowFields DEF ExtendsRoot
<1> HIDE DEF row
<1>2. \A y \in admissions : y \notin extensions /\ y # row
  BY <1>0, <1>1, RowKindsDiffer DEF TablesOK
<1>3. m.intervals \cap Registered(m) = {}
  BY DEF ExtendsRoot, Extends
<1>4. \A y \in admissions : y.space = m.space /\ y.id = m.root =>
         m.intervals \cap y.command.intervals = {}
  BY <1>3 DEF Registered, Roots
<1>5. \A y \in extensions : y.space = m.space /\ y.intent.root = m.root =>
         m.intervals \cap y.intent.intervals = {}
  <2>1. ASSUME NEW y \in extensions, y.space = m.space, y.intent.root = m.root
        PROVE  y.intent.intervals \subseteq Registered(m)
    <3>1. y \in {z \in extensions : z.space = m.space /\ z.intent.root = m.root}
      BY <2>1
    <3> QED BY <3>1 DEF Registered
  <2> QED BY <1>3, <2>1
<1> SUFFICES ASSUME NEW x \in extensions \cup {row},
                    NEW y \in admissions \cup extensions \cup {row}, CitesRoot(x, y)'
             PROVE  (x.intent.intervals \cap IntervalsOf(y) = {} /\ x.epoch # y.epoch)'
  BY <1>1 DEF Apart
<1>6. x.epoch # y.epoch
  <2>1. x \in Authority' /\ y \in Authority' /\ x # y
    BY <1>1 DEF Authority, CitesRoot
  <2> QED BY <2>1 DEF EpochNamesOneRow
<1>7. x.intent.intervals \cap IntervalsOf(y)' = {}
  <2>1. CASE y \in admissions
    <3>1. IntervalsOf(y)' = y.command.intervals /\ x.intent.root = y.id /\ x.space = y.space
      BY <1>1, <1>2, <2>1 DEF IntervalsOf, CitesRoot
    <3>2. CASE x = row
      BY <1>1, <1>4, <2>1, <3>1, <3>2
    <3>3. CASE x # row
      <4>1. x \in extensions /\ CitesRoot(x, y) /\ IntervalsOf(y) = y.command.intervals
        BY <1>2, <2>1, <3>1, <3>3 DEF CitesRoot, IntervalsOf
      <4> QED BY <1>0, <2>1, <3>1, <4>1 DEF Apart
    <3> QED BY <3>2, <3>3
  <2>2. CASE y \notin admissions
    <3>1. y \in extensions'
      BY <1>1, <2>2
    <3>2. /\ IntervalsOf(y)' = y.intent.intervals /\ x.intent.root = y.intent.root
          /\ x.space = y.space /\ x # y
      BY <3>1 DEF IntervalsOf, CitesRoot
    <3>3. CASE x = row
      BY <1>1, <1>5, <2>2, <3>2, <3>3
    <3>4. CASE y = row
      BY <1>1, <1>5, <3>2, <3>4
    <3>5. CASE x # row /\ y # row
      <4>1. x \in extensions /\ y \in extensions
        BY <2>2, <3>5
      <4>2. CitesRoot(x, y) /\ IntervalsOf(y) = y.intent.intervals
        BY <3>2, <4>1 DEF CitesRoot, IntervalsOf
      <4> QED BY <1>0, <3>2, <4>1, <4>2 DEF Apart
    <3> QED BY <3>3, <3>4, <3>5
  <2> QED BY <2>1, <2>2
<1> QED BY <1>6, <1>7

LEMMA RegisteredStep ==
    ASSUME IInv, EpochNamesOneRow', NEW m \in Calls, Effect(m)
    PROVE  RegisteredOnce'
<1>0. TablesOK /\ Apart /\ SpansOnce /\ \A x \in extensions : Rooted(x)
  BY RegisteredParts DEF IInv, TypeOK
<1>1. Apart'
  <2>1. CASE Admits(m)
    BY <2>1, ApartAfterAdmission
  <2>2. CASE ExtendsRoot(m)
    BY <2>2, ApartAfterExtension
  <2>3. CASE UNCHANGED <<admissions, extensions>>
    BY <1>0, <2>3 DEF Apart, CitesRoot, IntervalsOf
  <2> QED BY <2>1, <2>2, <2>3 DEF Effect, Publishes, Prepares, Attests
<1>2. \A x \in extensions' : Rooted(x)'
  <2>1. admissions \subseteq admissions'
    BY DEF Effect, Publishes, Admits, ExtendsRoot, Prepares, Attests
  <2>2. \A x \in extensions : Rooted(x)'
    BY <1>0, <2>1 DEF Rooted
  <2>3. CASE ExtendsRoot(m)
    <3>1. PICK r \in Roots(m) : IsPrefix(r.revision, m.parent)
      BY <2>3 DEF ExtendsRoot, Extends
    <3>2. r \in admissions /\ r.space = m.space /\ r.id = m.root /\ r.revision \in Revisions
      BY <1>0, <3>1 DEF Roots, TablesOK, AdmissionRows
    <3>3. PICK t \in Revisions, id \in Ids : t = m.parent /\ id = m.id
      BY <2>3 DEF ExtendsRoot, ExtendCall
    <3>4. IsPrefix(r.revision, Append(t, id))
      BY <3>1, <3>2, <3>3, PrefixOfChild DEF Revisions
    <3>5. /\ ExtensionRow(m).space = m.space /\ ExtensionRow(m).intent.root = m.root
          /\ ExtensionRow(m).revision = Append(t, id)
      BY <1>0, <2>3, <3>3, ExtensionRowFields DEF ExtendsRoot
    <3>6. PICK x : x = ExtensionRow(m)
      OBVIOUS
    <3>7. /\ r.space = x.space /\ r.id = x.intent.root /\ IsPrefix(r.revision, x.revision)
          /\ r \in admissions'
      BY <2>1, <3>2, <3>4, <3>5, <3>6
    <3>8. Rooted(x)'
      BY <3>7 DEF Rooted
    <3>9. \A y \in extensions' : y \in extensions \/ y = x
      BY <2>3, <3>6 DEF ExtendsRoot
    <3> QED BY <2>2, <3>8, <3>9
  <2>4. CASE UNCHANGED extensions
    BY <2>2, <2>4
  <2> QED BY <2>3, <2>4 DEF Effect, Publishes, Admits, Prepares, Attests
<1>3. SpansOnce'
  <2>1. CASE UNCHANGED attestations
    BY <1>0, <2>1 DEF SpansOnce
  <2>2. ASSUME NEW p \in preparations, Attests(m, p)
        PROVE  SpansOnce'
    <3>1. AttestationRow(p).span = p.command.span
      BY <1>0, AttestationRowFields DEF TablesOK
    <3>2. \A a \in attestations : a.span # p.command.span
      BY <2>2 DEF Attests, IdentityTaken
    <3> QED BY <1>0, <2>2, <3>1, <3>2 DEF Attests, SpansOnce
  <2> QED BY <2>1, <2>2 DEF Effect, Publishes, Admits, ExtendsRoot, Prepares
<1> QED BY <1>1, <1>2, <1>3 DEF RegisteredOnce, Apart, CitesRoot, IntervalsOf, Rooted, SpansOnce

-----------------------------------------------------------------------------
LEMMA InvInit == Init => IInv
<1> SUFFICES ASSUME Init
             PROVE  IInv
  OBVIOUS
<1>1. TypeOK
  <2>1. <<>> \in Revisions
    BY DEF Revisions
  <2> QED BY <2>1 DEF Init, TypeOK, TablesOK, ClientsOK, Stages, Probing, InTransaction
<1>2. EpochNamesOneRow /\ RowsPublished /\ RevisionsKept /\ PreparedOnce /\ RegisteredOnce
  BY DEF Init, EpochNamesOneRow, Authority, RowsPublished, RevisionsKept, PreparedOnce, RegisteredOnce
<1>3. \A c \in Clients : LocksHeld(c) /\ DecisionHolds(c)
  BY DEF Init, LocksHeld, DecisionHolds, InTransaction
<1> QED BY <1>1, <1>2, <1>3 DEF IInv

LEMMA InvStep == IInv /\ [Next]_vars => IInv'
<1> SUFFICES ASSUME IInv, [Next]_vars
             PROVE  IInv'
  OBVIOUS
<1>1. CASE UNCHANGED vars
  <2>1. TypeOK'
    BY <1>1 DEF vars, tables, locks, IInv, TypeOK, TablesOK, ClientsOK
  <2>2. (EpochNamesOneRow /\ RowsPublished /\ RevisionsKept /\ PreparedOnce /\ RegisteredOnce)'
    BY <1>1 DEF vars, tables, IInv, EpochNamesOneRow, Authority, RowsPublished, RevisionsKept,
       PreparedOnce, RegisteredOnce
  <2>3. ASSUME NEW c \in Clients
        PROVE  LocksHeld(c)' /\ DecisionHolds(c)'
    <3>1. UNCHANGED <<tables, standing, locks, pc, call>> /\ LocksHeld(c) /\ DecisionHolds(c)
      BY <1>1 DEF vars, IInv
    <3>2. LocksHeld(c)'
      BY <3>1 DEF LocksHeld, locks
    <3>3. PICK m : m = call[c]
      OBVIOUS
    <3>4. Decided(m) => Decided(m)'
      BY <3>1 DEF Decided, PublishedUnder, AtHead, Extends, Roots, Registered, SameId, Current,
         IdentityTaken, tables
    <3> QED BY <3>1, <3>2, <3>3, <3>4 DEF DecisionHolds
  <2> QED BY <2>1, <2>2, <2>3 DEF IInv
<1>2. CASE LoseStanding /\ adapter' = adapter
  <2>1. UNCHANGED <<tables, locks, pc, call, adapter>> /\ standing' \in [Legacy -> BOOLEAN]
    BY <1>2 DEF LoseStanding, IInv, TypeOK, ClientsOK
  <2>2. TypeOK'
    BY <2>1 DEF tables, locks, IInv, TypeOK, TablesOK, ClientsOK
  <2>3. (EpochNamesOneRow /\ RowsPublished /\ RevisionsKept /\ PreparedOnce /\ RegisteredOnce)'
    BY <2>1 DEF tables, IInv, EpochNamesOneRow, Authority, RowsPublished, RevisionsKept,
       PreparedOnce, RegisteredOnce
  <2>4. \A c \in Clients : LocksHeld(c)' /\ DecisionHolds(c)'
    BY <1>2, StandingHeld
  <2> QED BY <2>2, <2>3, <2>4 DEF IInv
<1>3. ASSUME NEW c \in Clients, ClientStep(c), adapter' = adapter
      PROVE  IInv'
  <2>1. ClientsOK'
    BY <1>3, ClientsTyped DEF IInv
  <2>2. \A d \in Clients : LocksHeld(d)' /\ DecisionHolds(d)'
    BY <1>3, LocksTaken, DecisionMade, OthersKeep DEF IInv
  <2>3. /\ TablesOK'
        /\ EpochNamesOneRow' /\ RowsPublished' /\ RevisionsKept' /\ PreparedOnce' /\ RegisteredOnce'
    <3>1. CASE CommitStep(c)
      <4>1. PICK m \in Calls : Effect(m)
        BY <3>1, CommitWrites
      <4>2. TablesOK' /\ EpochNamesOneRow'
        BY <4>1, TablesTyped, EpochStep DEF IInv, TypeOK
      <4> QED BY <4>1, <4>2, RowsStep, PreparedStep, RegisteredStep DEF IInv, TypeOK
    <3>2. CASE ~CommitStep(c)
      <4>1. UNCHANGED tables
        BY <1>3, <3>2, TablesStay
      <4> QED BY <4>1 DEF tables, IInv, TypeOK, TablesOK, EpochNamesOneRow, Authority, RowsPublished,
             RevisionsKept, PreparedOnce, RegisteredOnce
    <3> QED BY <3>1, <3>2
  <2> QED BY <2>1, <2>2, <2>3 DEF IInv, TypeOK
<1>4. CASE Next
  BY <1>2, <1>3, <1>4, StepKinds
<1> QED BY <1>1, <1>4

LEMMA Inductive == Spec => []IInv
BY InvInit, InvStep, PTL DEF Spec

(* Every table, lock and call keeps its type; only a PostgreSQL            *)
(* transaction decides and commits in separate steps.                      *)
THEOREM TypeCorrect == Spec => []TypeOK
<1>1. IInv => TypeOK
  BY DEF IInv
<1> QED BY <1>1, Inductive, PTL

(* One interval of a source, and one span of a legacy source, is           *)
(* registered by one row, and what extends a source descends from the      *)
(* revision that admitted it, whoever races: no decision is made on rows   *)
(* another transaction is about to add to.                                 *)
THEOREM AlwaysRegisteredOnce == Spec => []RegisteredOnce
<1>1. IInv => RegisteredOnce
  BY DEF IInv
<1> QED BY <1>1, Inductive, PTL

(* The epoch counts source authority: each row of it, in whatever space,   *)
(* has an epoch of its own.                                                *)
THEOREM EpochsNameRows == Spec => []EpochNamesOneRow
<1>1. IInv => EpochNamesOneRow
  BY DEF IInv
<1> QED BY <1>1, Inductive, PTL

(* Every admission and extension is a publication of its own id, and its   *)
(* revision stays in the history of its space.                             *)
THEOREM SourcesStayInHistory == Spec => [](RowsPublished /\ RevisionsKept)
<1>1. IInv => RowsPublished /\ RevisionsKept
  BY DEF IInv
<1> QED BY <1>1, Inductive, PTL

(* A view pinned at an epoch reads the same admissions and extensions      *)
(* whenever its transactions run, and never gains an attestation.          *)
THEOREM PinnedViewsAlwaysKeep == Spec => PinnedViewsKeep
<1> DEFINE Kept == \A s \in Spaces : \A e \in 0..epoch :
                      /\ Native(s, e)' = Native(s, e)
                      /\ Operator(s, e)' \subseteq Operator(s, e)
<1>1. ASSUME IInv, [Next]_vars
      PROVE  [Kept]_vars
  <2>1. epoch \in Nat /\ standing \in [Legacy -> BOOLEAN]
    BY <1>1 DEF IInv, TypeOK, TablesOK, ClientsOK
  <2>2. ASSUME UNCHANGED tables, adapter' = adapter, LoseStanding \/ UNCHANGED standing
        PROVE  Kept
    <3>1. \A a : standing'[a] => standing[a] \/ a \notin Legacy
      BY <2>1, <2>2 DEF LoseStanding
    <3>2. \A r \in attestations : r.artifact \in Legacy
      BY <1>1 DEF IInv, TypeOK, TablesOK, AttestationRows
    <3> QED BY <2>2, <3>1, <3>2 DEF tables, Native, NativeRows, MemoryNativeRows, Operator, OperatorRows,
           MemoryOperatorRows
  <2>3. ASSUME NEW m \in Calls, Effect(m), adapter' = adapter, UNCHANGED standing
        PROVE  Kept
    <3> SUFFICES ASSUME NEW s \in Spaces, NEW e \in 0..epoch
                 PROVE  /\ Native(s, e)' = Native(s, e)
                        /\ Operator(s, e)' \subseteq Operator(s, e)
      OBVIOUS
    <3>1. \A r \in admissions' : r \in admissions \/ ~(r.epoch <= e)
      <4>1. CASE Admits(m)
        <5>1. AdmissionRow(m).epoch = epoch + 1
          BY <1>1, <4>1, AdmissionRowFields DEF Admits, IInv, TypeOK
        <5> QED BY <2>1, <4>1, <5>1 DEF Admits
      <4> QED BY <2>3, <4>1 DEF Effect, Publishes, ExtendsRoot, Prepares, Attests
    <3>2. \A r \in extensions' : r \in extensions \/ ~(r.epoch <= e)
      <4>1. CASE ExtendsRoot(m)
        <5>1. ExtensionRow(m).epoch = epoch + 1
          BY <1>1, <4>1, ExtensionRowFields DEF ExtendsRoot, IInv, TypeOK
        <5> QED BY <2>1, <4>1, <5>1 DEF ExtendsRoot
      <4> QED BY <2>3, <4>1 DEF Effect, Publishes, Admits, Prepares, Attests
    <3>3. \A r \in attestations' : r \in attestations \/ ~(r.epoch <= e)
      <4>1. ASSUME NEW p \in preparations, Attests(m, p)
            PROVE  \A r \in attestations' : r \in attestations \/ ~(r.epoch <= e)
        <5>1. AttestationRow(p).epoch = epoch + 1
          BY <1>1, AttestationRowFields DEF IInv, TypeOK, TablesOK
        <5> QED BY <2>1, <4>1, <5>1 DEF Attests
      <4> QED BY <2>3, <4>1 DEF Effect, Publishes, Admits, ExtendsRoot, Prepares
    <3>4. admissions \subseteq admissions' /\ extensions \subseteq extensions'
      BY <2>3 DEF Effect, Publishes, Admits, ExtendsRoot, Prepares, Attests
    <3>5. NativeRows(s, e)' = NativeRows(s, e)
      BY <3>1, <3>2, <3>4 DEF NativeRows
    <3>6. MemoryNativeRows(s, e)' = MemoryNativeRows(s, e)
      <4>1. {r \in admissions' : r.space = s /\ r.epoch <= e}
              = {r \in admissions : r.space = s /\ r.epoch <= e}
        BY <3>1, <3>4
      <4> QED BY <3>2, <3>4, <4>1 DEF MemoryNativeRows
    <3>7. /\ OperatorRows(s, e)' \subseteq OperatorRows(s, e)
          /\ MemoryOperatorRows(s, e)' \subseteq MemoryOperatorRows(s, e)
      BY <2>3, <3>3 DEF OperatorRows, MemoryOperatorRows
    <3> QED BY <2>3, <3>5, <3>6, <3>7 DEF Native, Operator
  <2>4. ASSUME NEW c \in Clients, ClientStep(c), adapter' = adapter
        PROVE  Kept
    <3>1. UNCHANGED standing
      BY <2>4, StandingStays
    <3>2. CASE CommitStep(c)
      BY <1>1, <2>3, <2>4, <3>1, <3>2, CommitWrites
    <3>3. CASE ~CommitStep(c)
      BY <2>2, <2>4, <3>1, <3>3, TablesStay
    <3> QED BY <3>2, <3>3
  <2>5. CASE Next
    <3>1. LoseStanding => UNCHANGED tables
      BY DEF LoseStanding
    <3> HIDE DEF Kept
    <3> QED BY <1>1, <2>2, <2>4, <2>5, <3>1, StepKinds
  <2> QED BY <1>1, <2>5
<1> QED BY <1>1, Inductive, PTL DEF Spec, PinnedViewsKeep

(* An attestation is recorded in exactly the state its preparation was     *)
(* reviewed against: the epoch, the head and the standing of its artifact, *)
(* whoever else publishes, registers or revokes meanwhile.                 *)
THEOREM AlwaysAttestedAsPrepared == Spec => AttestedAsPrepared
<1> DEFINE Approved == \A a \in attestations' \ attestations :
                          \E p \in preparations :
                             /\ p.space = a.space /\ p.id = a.id
                             /\ p.command.epoch = epoch /\ p.command.head = head[p.space]
                             /\ standing[a.artifact]
                             /\ UNCHANGED <<head, standing>>
<1>1. ASSUME IInv, [Next]_vars
      PROVE  [Approved]_vars
  <2>1. ASSUME NEW m \in Calls, Effect(m), UNCHANGED standing
        PROVE  Approved
    <3>1. ASSUME NEW p \in preparations, Attests(m, p)
          PROVE  Approved
      <4>1. /\ AttestationRow(p).space = p.space /\ AttestationRow(p).id = p.id
            /\ AttestationRow(p).artifact = p.command.artifact
        BY <1>1, AttestationRowFields DEF IInv, TypeOK, TablesOK
      <4> QED BY <2>1, <3>1, <4>1 DEF Attests, Current
    <3> QED BY <2>1, <3>1 DEF Effect, Publishes, Admits, ExtendsRoot, Prepares
  <2>2. ASSUME NEW c \in Clients, ClientStep(c)
        PROVE  Approved
    <3>1. CASE CommitStep(c)
      BY <1>1, <2>1, <2>2, <3>1, CommitWrites, StandingStays
    <3>2. CASE ~CommitStep(c)
      BY <2>2, <3>2, TablesStay DEF tables
    <3> QED BY <3>1, <3>2
  <2>3. LoseStanding => Approved
    BY DEF LoseStanding, tables
  <2>4. CASE Next
    <3> HIDE DEF Approved
    <3> QED BY <1>1, <2>2, <2>3, <2>4, StepKinds
  <2> QED BY <1>1, <2>4
<1> QED BY <1>1, Inductive, PTL DEF Spec, AttestedAsPrepared
===============================================================================
