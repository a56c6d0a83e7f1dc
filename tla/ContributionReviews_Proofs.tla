---------------------- MODULE ContributionReviews_Proofs ----------------------
(***************************************************************************)
(* Proofs about the two PostgreSQL repositories whose transactions insert  *)
(* rows under unique keys: the contribution ledger, ContributionReviews,   *)
(* and, in the last part, the source catalog, SourceAdmission, through the *)
(* instance Src.  Both hold for any number of clients, rows and requests.  *)
(* The argument has one shape: a key an open transaction has inserted is   *)
(* its own until it ends (FreshOwned, FreshKeyOwned), so what it found     *)
(* absent is still absent when it commits.  Between them is the graph that *)
(* the ledger's reviews publish (ReviewedGraph), for any world, reviews    *)
(* and graphs.                                                             *)
(***************************************************************************)
EXTENDS ReviewedGraph, FiniteSetTheorems, WellFoundedInduction, TLAPS

(* The catalog: its constants, its tables and what its clients know.       *)
CONSTANTS Worlds, Heads, Artifacts, Revisions, Admissions, Commands, CatalogPuts

VARIABLES head, artifacts, revisions, receipts, answer, pair

Src == INSTANCE SourceAdmission WITH Puts <- CatalogPuts

-----------------------------------------------------------------------------
(* Types, and what a stage says of the request it serves.                  *)
AppendCall == [kind : {"append"}, put : {{a} : a \in Appends}]
UpdateCall == [kind : {"update"}, id : Contributions, status : Statuses,
               by : Contributions \cup {None}]
PutOf(r) == {[id |-> r.candidate, row |-> CandidateRow(r)],
             [id |-> r.reviewed, row |-> ReviewedRow(r)]}
FinalizeCall == {[kind |-> "finalize", review |-> r, put |-> PutOf(r)] : r \in Reviews}

Stages == {"idle", "closing", "inserting", "updating", "checking", "writing",
           "finalizing", "looking", "referring"}

(* Before and while a transaction inserts, todo lists what it inserts.     *)
Preparing == {"closing", "finalizing", "looking", "inserting"}

TypeOK ==
    /\ rows \in [Contributions -> Row \cup {None}]
    /\ evidence \subseteq Evidence
    /\ reviews \subseteq Reviews
    /\ fresh \in [Keys -> Clients \cup {None}]
    /\ rowLock \in [Contributions -> Clients \cup {None}]
    /\ rowShare \in [Contributions -> SUBSET Clients]
    /\ pc \in [Clients -> Stages]
    /\ DOMAIN call = Clients /\ DOMAIN seen = Clients
    /\ todo \in [Clients -> Seq(Keys)]
    /\ \A c \in Clients :
          /\ pc[c] = "closing" => call[c] \in AppendCall
          /\ pc[c] = "inserting" => call[c] \in AppendCall \cup FinalizeCall
          /\ pc[c] \in {"updating", "checking", "writing"} => call[c] \in UpdateCall
          /\ pc[c] \in {"finalizing", "looking", "referring"} => call[c] \in FinalizeCall

-----------------------------------------------------------------------------
Puts(c, x) == \E a \in call[c].put : a.id = x

Cites(c, e) == \E a \in call[c].put : e \in ToSet(EvidenceOf[a.id])

(* A list of keys to insert: contributions the request puts, and as long   *)
(* as an item of evidence is not on it, it is stored or inserted.          *)
TodoCovers(c) ==
    pc[c] \in Preparing =>
        /\ \A x \in Contributions : x \in ToSet(todo[c]) => Puts(c, x)
        /\ \A e \in Evidence :
              Cites(c, e) => e \in ToSet(todo[c]) \/ e \in evidence \/ fresh[e] = c

(* A key an open transaction has inserted is not stored yet.               *)
FreshOwned ==
    \A k \in Keys : fresh[k] # None =>
        /\ pc[fresh[k]] \in {"inserting", "referring"}
        /\ ~Stored(k)
        /\ k \in Contributions => Puts(fresh[k], k)

(* A row is locked for update or shared, never both.                       *)
LockOrShare == \A x \in Contributions : rowLock[x] = None \/ rowShare[x] = {}

(* The row an update has read is still the row it will write over, and no  *)
(* review protects it.                                                     *)
UpdateHeld(c) ==
    pc[c] \in {"checking", "writing"} =>
        /\ rowLock[call[c].id] = c
        /\ seen[c] = rows[call[c].id] /\ seen[c] # None
        /\ pc[c] = "writing" => ~Protected(call[c].id)

(* A review about to be stored refers to rows it shares, and cites only    *)
(* evidence that is stored with it.                                        *)
ReviewHeld(c) ==
    pc[c] = "referring" =>
        /\ \A x \in {call[c].review.candidate, call[c].review.reviewed} :
              x \in ToSet(todo[c]) \/ c \in rowShare[x]
        /\ \A e \in Evidence : Cites(c, e) => e \in evidence \/ fresh[e] = c

(* From its look at the reviews to its commit a finalization holds the     *)
(* world, and no stored review has its operation or its plan.              *)
WorldHeld(c) ==
    \/ pc[c] \in {"looking", "referring"}
    \/ pc[c] = "inserting" /\ call[c].kind = "finalize"
    => /\ worldLock = c
       /\ pc[c] # "looking" => ~\E r \in reviews : SameOperationOrPlan(r, call[c].review)

(* One operation, and one plan, is finalized by one review.                *)
ReviewedOnce == \A r, s \in reviews : SameOperationOrPlan(r, s) => r = s

IInv ==
    /\ TypeOK
    /\ FreshOwned
    /\ LockOrShare
    /\ \A c \in Clients : TodoCovers(c) /\ UpdateHeld(c) /\ ReviewHeld(c) /\ WorldHeld(c)
    /\ ReviewsReload
    /\ ReviewedOnce

-----------------------------------------------------------------------------
(* Sequences of keys.                                                      *)
LEMMA ListItems ==
    ASSUME NEW S, NEW s \in Seq(S), NEW t \in Seq(S), NEW x \in S
    PROVE  /\ ToSet(<<>>) = {}
           /\ s \o t \in Seq(S) /\ Append(s, x) \in Seq(S) /\ ToSet(s) \subseteq S
           /\ ToSet(Append(s, x)) = ToSet(s) \cup {x}
           /\ ToSet(s \o t) = ToSet(s) \cup ToSet(t)
<1>1. ToSet(<<>>) = {} /\ ToSet(s) \subseteq S
  BY DEF ToSet
<1>2. s \o t \in Seq(S) /\ Append(s, x) \in Seq(S)
  OBVIOUS
<1>3. ToSet(Append(s, x)) = ToSet(s) \cup {x}
  <2>1. /\ Len(s) \in Nat /\ DOMAIN s = 1..Len(s) /\ DOMAIN Append(s, x) = 1..(Len(s) + 1)
        /\ \A i \in 1..Len(s) : Append(s, x)[i] = s[i]
        /\ Append(s, x)[Len(s) + 1] = x
    OBVIOUS
  <2>2. ToSet(Append(s, x)) \subseteq ToSet(s) \cup {x}
    BY <2>1 DEF ToSet
  <2>3. ToSet(s) \subseteq ToSet(Append(s, x))
    BY <2>1 DEF ToSet
  <2>4. Len(s) + 1 \in DOMAIN Append(s, x)
    BY <2>1
  <2>5. x \in ToSet(Append(s, x))
    BY <2>1, <2>4 DEF ToSet
  <2> QED BY <2>2, <2>3, <2>5
<1>4. ToSet(s \o t) = ToSet(s) \cup ToSet(t)
  <2>1. /\ Len(s) \in Nat /\ Len(t) \in Nat
        /\ DOMAIN s = 1..Len(s) /\ DOMAIN t = 1..Len(t)
        /\ DOMAIN (s \o t) = 1..(Len(s) + Len(t))
        /\ \A i \in 1..(Len(s) + Len(t)) : (s \o t)[i] = IF i <= Len(s) THEN s[i] ELSE t[i - Len(s)]
    OBVIOUS
  <2>2. ToSet(s \o t) \subseteq ToSet(s) \cup ToSet(t)
    <3> SUFFICES ASSUME NEW i \in 1..(Len(s) + Len(t))
                 PROVE  (s \o t)[i] \in ToSet(s) \cup ToSet(t)
      BY <2>1 DEF ToSet
    <3>1. CASE i <= Len(s)
      BY <2>1, <3>1 DEF ToSet
    <3>2. CASE i > Len(s)
      <4>1. i - Len(s) \in 1..Len(t) /\ (s \o t)[i] = t[i - Len(s)]
        BY <2>1, <3>2
      <4> QED BY <2>1, <4>1 DEF ToSet
    <3> QED BY <2>1, <3>1, <3>2
  <2>3. ToSet(s) \subseteq ToSet(s \o t)
    <3>1. \A i \in 1..Len(s) : i \in 1..(Len(s) + Len(t)) /\ (s \o t)[i] = s[i]
      BY <2>1
    <3> QED BY <2>1, <3>1 DEF ToSet
  <2>4. ToSet(t) \subseteq ToSet(s \o t)
    <3>1. \A i \in 1..Len(t) : i + Len(s) \in 1..(Len(s) + Len(t)) /\ (s \o t)[i + Len(s)] = t[i]
      BY <2>1
    <3> QED BY <2>1, <3>1 DEF ToSet
  <2> QED BY <2>2, <2>3, <2>4
<1> QED BY <1>1, <1>2, <1>3, <1>4

LEMMA Shorten ==
    ASSUME NEW S, NEW s \in Seq(S), s # <<>>
    PROVE  /\ Tail(s) \in Seq(S)
           /\ Head(s) \in ToSet(s)
           /\ ToSet(Tail(s)) \subseteq ToSet(s)
           /\ ToSet(s) \subseteq ToSet(Tail(s)) \cup {Head(s)}
<1>1. /\ Len(s) \in Nat \ {0} /\ Len(Tail(s)) = Len(s) - 1 /\ Tail(s) \in Seq(S)
      /\ DOMAIN s = 1..Len(s) /\ DOMAIN Tail(s) = 1..(Len(s) - 1)
  OBVIOUS
<1>2. \A j \in 1..(Len(s) - 1) : Tail(s)[j] = s[j + 1] /\ j + 1 \in 1..Len(s)
  BY <1>1
<1>3. Head(s) = s[1] /\ 1 \in 1..Len(s)
  BY <1>1
<1>4. \A i \in 1..Len(s) : i = 1 \/ (i - 1 \in 1..(Len(s) - 1) /\ Tail(s)[i - 1] = s[i])
  BY <1>1, <1>2
<1>5. Head(s) \in ToSet(s) /\ ToSet(Tail(s)) \subseteq ToSet(s)
  BY <1>1, <1>2, <1>3 DEF ToSet
<1>6. ToSet(s) \subseteq ToSet(Tail(s)) \cup {Head(s)}
  <2>1. ASSUME NEW i \in 1..Len(s)
        PROVE  s[i] \in ToSet(Tail(s)) \cup {Head(s)}
    <3>1. CASE i = 1
      BY <1>3, <3>1
    <3>2. CASE i # 1
      <4>1. i - 1 \in DOMAIN Tail(s) /\ Tail(s)[i - 1] = s[i]
        BY <1>1, <1>4, <3>2
      <4> QED BY <4>1 DEF ToSet
    <3> QED BY <3>1, <3>2
  <2> QED BY <1>1, <2>1 DEF ToSet
<1> QED BY <1>1, <1>5, <1>6

LEMMA PairItems ==
    ASSUME NEW S, NEW x \in S, NEW y \in S
    PROVE  <<x, y>> \in Seq(S) /\ ToSet(<<x, y>>) = {x, y}
<1>1. <<x, y>> \in Seq(S) /\ DOMAIN <<x, y>> = {1, 2}
  OBVIOUS
<1>2. ToSet(<<x, y>>) = {<<x, y>>[i] : i \in {1, 2}}
  BY <1>1 DEF ToSet
<1> QED BY <1>1, <1>2

LEMMA EvidenceItems ==
    ASSUME NEW x \in Contributions
    PROVE  /\ EvidenceOf[x] \in Seq(Evidence) /\ ToSet(EvidenceOf[x]) \subseteq Evidence
           /\ KeysOf(x) \in Seq(Keys)
           /\ ToSet(KeysOf(x)) = ToSet(EvidenceOf[x]) \cup {x}
<1>1. EvidenceOf[x] \in Seq(Evidence)
  BY LedgerAssumption
<1>2. EvidenceOf[x] \in Seq(Keys)
  <2>1. PICK s \in Seq(Evidence) : s = EvidenceOf[x]
    BY <1>1
  <2>2. \A i \in 1..Len(s) : s[i] \in Keys
    BY DEF Keys
  <2>3. s \in Seq(Keys)
    BY <2>2
  <2> QED BY <2>1, <2>3
<1>3. ToSet(EvidenceOf[x]) \subseteq Evidence
  BY <1>1 DEF ToSet
<1> QED BY <1>1, <1>2, <1>3, ListItems DEF KeysOf, Keys

-----------------------------------------------------------------------------
(* Requests.                                                               *)
LEMMA ReviewFields ==
    ASSUME NEW r \in Reviews
    PROVE  /\ r.candidate \in Contributions /\ r.reviewed \in Contributions
           /\ r.candidate # r.reviewed
           /\ CandidateRow(r) \in Row /\ ReviewedRow(r) \in Row
           /\ CandidateRow(r) # None /\ ReviewedRow(r) # None
<1>1. /\ r.candidate \in Contributions /\ r.reviewed \in Contributions
      /\ r.candidate # r.reviewed
      /\ r.candidateBody \in Bodies /\ r.reviewedBody \in Bodies
  BY LedgerAssumption
<1>2. CandidateRow(r) \in Row /\ ReviewedRow(r) \in Row
  BY <1>1 DEF CandidateRow, ReviewedRow, Row, Statuses
<1> QED BY <1>1, <1>2, LedgerAssumption

LEMMA CallFields ==
    ASSUME NEW q
    PROVE  /\ q \in AppendCall => q.kind = "append" /\ \E a \in Appends : q.put = {a}
           /\ q \in UpdateCall => /\ q.id \in Contributions /\ q.status \in Statuses
                                  /\ q.by \in Contributions \cup {None}
           /\ q \in FinalizeCall => q.kind = "finalize" /\ q.review \in Reviews /\ q.put = PutOf(q.review)
BY DEF AppendCall, UpdateCall, FinalizeCall

(* A request puts one row under an id.                                     *)
LEMMA PutFields ==
    ASSUME NEW c, call[c] \in AppendCall \cup FinalizeCall
    PROVE  /\ \A a \in call[c].put : a.id \in Contributions /\ a.row \in Row
           /\ \A x : Puts(c, x) => x \in Contributions /\ Submitted(c, x) \in Row /\ Submitted(c, x) # None
<1>1. \A a \in call[c].put : a.id \in Contributions /\ a.row \in Row
  <2>1. CASE call[c] \in AppendCall
    BY <2>1, CallFields, LedgerAssumption
  <2>2. CASE call[c] \in FinalizeCall
    BY <2>2, CallFields, ReviewFields DEF PutOf
  <2> QED BY <2>1, <2>2
<1>2. ASSUME NEW x, Puts(c, x)
      PROVE  \E a \in call[c].put : a.id = x /\ a.row = Submitted(c, x)
  BY <1>2 DEF Puts, Submitted
<1> QED BY <1>1, <1>2, LedgerAssumption

-----------------------------------------------------------------------------
(* The steps, by what they write.                                          *)
StartStep(c) == CallAppend(c) \/ CallUpdate(c) \/ CallFinalize(c)

QuietStep(c) == CloseCorrections(c) \/ UpdateUnprotected(c) \/ FinalizeNew(c) \/ InsertReview(c)

CommitStep(c) == AppendCommit(c) \/ FinalizeCommit(c)

ClientStep(c) ==
    \/ StartStep(c) \/ QuietStep(c) \/ Refuse(c) \/ CommitStep(c) \/ UpdateCommit(c)
    \/ LockRow(c) \/ LockWorld(c) \/ ShareRow(c) \/ Insert(c)

LEMMA StepKinds ==
    ASSUME [Next]_vars
    PROVE  UNCHANGED vars \/ \E c \in Clients : ClientStep(c)
BY DEF Next, Step, CorrectionMissing, InsertConflict, ContributionNotFound, UpdateProtected,
       FinalizeExisting, FinalizeDrifted, DetectDeadlock, Abort, ClientStep, StartStep, QuietStep,
       CommitStep

LEMMA QuietWrites ==
    ASSUME NEW c, StartStep(c) \/ QuietStep(c)
    PROVE  UNCHANGED <<tables, locks, seen>>
BY DEF StartStep, QuietStep, CallAppend, CallUpdate, CallFinalize, Start, CloseCorrections,
       UpdateUnprotected, FinalizeNew, InsertReview

(* The end of a transaction releases what it holds, and nothing else.      *)
LEMMA Ended ==
    ASSUME TypeOK, NEW c \in Clients, End(c)
    PROVE  /\ pc'[c] = "idle"
           /\ \A k \in Keys : fresh'[k] # c
           /\ \A x \in Contributions : rowLock'[x] # c /\ c \notin rowShare'[x]
           /\ \A d \in Clients \ {c} :
                 /\ pc'[d] = pc[d] /\ call'[d] = call[d] /\ todo'[d] = todo[d] /\ seen'[d] = seen[d]
                 /\ \A k \in Keys : fresh'[k] = d <=> fresh[k] = d
                 /\ \A x \in Contributions : rowLock'[x] = d <=> rowLock[x] = d
                 /\ \A x \in Contributions : d \in rowShare'[x] <=> d \in rowShare[x]
                 /\ worldLock' = d <=> worldLock = d
<1>1. None \notin Clients
  BY LedgerAssumption
<1>2. /\ \A k \in Keys : fresh'[k] = IF fresh[k] = c THEN None ELSE fresh[k]
      /\ \A x \in Contributions : rowLock'[x] = IF rowLock[x] = c THEN None ELSE rowLock[x]
      /\ \A x \in Contributions : rowShare'[x] = rowShare[x] \ {c}
      /\ worldLock' = IF worldLock = c THEN None ELSE worldLock
  BY DEF End
<1>3. /\ pc'[c] = "idle"
      /\ \A d \in Clients \ {c} :
            pc'[d] = pc[d] /\ call'[d] = call[d] /\ todo'[d] = todo[d] /\ seen'[d] = seen[d]
  BY DEF End, TypeOK
<1> QED BY <1>1, <1>2, <1>3

(* A step of one client leaves the requests and the locks of the others.   *)
Undisturbed(d) ==
    /\ pc'[d] = pc[d] /\ call'[d] = call[d] /\ todo'[d] = todo[d] /\ seen'[d] = seen[d]
    /\ \A k \in Keys : fresh'[k] = d <=> fresh[k] = d
    /\ \A x \in Contributions : rowLock'[x] = d <=> rowLock[x] = d
    /\ \A x \in Contributions : d \in rowShare'[x] <=> d \in rowShare[x]
    /\ worldLock' = d <=> worldLock = d

LEMMA OthersUndisturbed ==
    ASSUME TypeOK, NEW c \in Clients, ClientStep(c), NEW d \in Clients, d # c
    PROVE  Undisturbed(d)
<1>0. d # None
  BY LedgerAssumption
<1>1. CASE End(c)
  BY <1>1, Ended DEF Undisturbed
<1>2. CASE StartStep(c) \/ QuietStep(c)
  <2>1. UNCHANGED <<locks, seen>>
    BY <1>2, QuietWrites
  <2>2. pc'[d] = pc[d] /\ call'[d] = call[d] /\ todo'[d] = todo[d]
    BY <1>2 DEF StartStep, QuietStep, CallAppend, CallUpdate, CallFinalize, Start,
       CloseCorrections,
       UpdateUnprotected, FinalizeNew, InsertReview, TypeOK
  <2> QED BY <2>1, <2>2 DEF Undisturbed, locks
<1>3. CASE LockRow(c)
  <2>1. /\ UNCHANGED <<fresh, worldLock, rowShare, call, todo>>
        /\ rowLock[call[c].id] = None
        /\ rowLock' = [rowLock EXCEPT ![call[c].id] = c]
        /\ pc'[d] = pc[d] /\ seen'[d] = seen[d]
    BY <1>3 DEF LockRow, TakeRow, TypeOK
  <2> QED BY <1>0, <2>1 DEF Undisturbed, TypeOK
<1>4. CASE LockWorld(c)
  BY <1>0, <1>4 DEF LockWorld, Undisturbed, TypeOK
<1>5. CASE ShareRow(c)
  <2>1. /\ UNCHANGED <<fresh, worldLock, rowLock, pc, call, seen>>
        /\ rowShare' = [rowShare EXCEPT ![Head(todo[c])] = @ \cup {c}]
        /\ todo'[d] = todo[d]
    BY <1>5 DEF ShareRow, TypeOK
  <2> QED BY <2>1 DEF Undisturbed, TypeOK
<1>6. CASE Insert(c)
  <2>1. /\ UNCHANGED <<worldLock, rowLock, rowShare, pc, call, seen>>
        /\ fresh[Head(todo[c])] \in {None, c}
        /\ fresh' = fresh \/ fresh' = [fresh EXCEPT ![Head(todo[c])] = c]
        /\ todo'[d] = todo[d]
    BY <1>6 DEF Insert, InsertKey, TypeOK
  <2> QED BY <1>0, <2>1 DEF Undisturbed, TypeOK
<1> QED BY <1>1, <1>2, <1>3, <1>4, <1>5, <1>6
        DEF ClientStep, Refuse, CommitStep, UpdateCommit, AppendCommit, FinalizeCommit

-----------------------------------------------------------------------------
(* What the steps store.                                                   *)
LEMMA CommitWrites ==
    ASSUME TypeOK, FreshOwned, NEW c \in Clients, CommitStep(c)
    PROVE  /\ pc[c] \in {"inserting", "referring"} /\ todo[c] = <<>>
           /\ call[c] \in AppendCall \cup FinalizeCall
           /\ End(c)
           /\ rows' = RowsAtCommit(c) /\ evidence' = EvidenceAtCommit(c)
           /\ \A x \in Contributions :
                 rows'[x] = IF fresh[x] = c THEN Submitted(c, x) ELSE rows[x]
           /\ \A x \in Contributions : fresh[x] = c => rows[x] = None /\ Puts(c, x)
           /\ evidence' = evidence \cup {e \in Evidence : fresh[e] = c}
           /\ \/ reviews' = reviews
              \/ FinalizeCommit(c) /\ reviews' = reviews \cup {call[c].review}
<1>1. /\ pc[c] \in {"inserting", "referring"} /\ todo[c] = <<>>
      /\ End(c) /\ rows' = RowsAtCommit(c) /\ evidence' = EvidenceAtCommit(c)
      /\ \/ reviews' = reviews
         \/ FinalizeCommit(c) /\ reviews' = reviews \cup {call[c].review}
  BY DEF CommitStep, AppendCommit, FinalizeCommit
<1>2. call[c] \in AppendCall \cup FinalizeCall
  BY <1>1 DEF TypeOK
<1>3. \A x \in Contributions : fresh[x] = c => rows[x] = None /\ Puts(c, x)
  BY LedgerAssumption DEF FreshOwned, Keys, Stored
<1>4. /\ \A x \in Contributions :
            rows'[x] = IF fresh[x] = c THEN Submitted(c, x) ELSE rows[x]
      /\ evidence' = evidence \cup {e \in Evidence : fresh[e] = c}
  BY <1>1 DEF RowsAtCommit, EvidenceAtCommit, Inserted
<1> QED BY <1>1, <1>2, <1>3, <1>4

LEMMA UpdateWrites ==
    ASSUME TypeOK, NEW c \in Clients, UpdateHeld(c), UpdateCommit(c)
    PROVE  /\ call[c].id \in Contributions /\ pc[c] = "writing" /\ End(c)
           /\ UNCHANGED <<evidence, reviews>>
           /\ rowLock[call[c].id] = c /\ rows[call[c].id] # None /\ ~Protected(call[c].id)
           /\ rows'[call[c].id] \in Row
           /\ rows'[call[c].id].body = rows[call[c].id].body
           /\ rows[call[c].id].by # None => rows'[call[c].id].by # None
           /\ \A x \in Contributions : x # call[c].id => rows'[x] = rows[x]
           /\ rows' \in [Contributions -> Row \cup {None}]
<1>1. /\ pc[c] = "writing" /\ End(c) /\ UNCHANGED <<evidence, reviews>>
      /\ rows' = [rows EXCEPT ![call[c].id] =
             [body |-> seen[c].body, status |-> call[c].status,
              by |-> IF call[c].by = None THEN seen[c].by ELSE call[c].by]]
  BY DEF UpdateCommit
<1>2. /\ call[c].id \in Contributions /\ call[c].status \in Statuses
      /\ call[c].by \in Contributions \cup {None}
  BY <1>1, CallFields DEF TypeOK
<1>3. /\ rowLock[call[c].id] = c /\ rows[call[c].id] # None /\ ~Protected(call[c].id)
      /\ seen[c] = rows[call[c].id]
  BY <1>1 DEF UpdateHeld
<1>4. PICK x \in Contributions : x = call[c].id
  BY <1>2
<1>5. PICK old \in Row : old = rows[x] /\ old = seen[c]
  BY <1>3, <1>4 DEF TypeOK
<1>6. PICK new \in Row :
          new = [body |-> old.body, status |-> call[c].status,
                 by |-> IF call[c].by = None THEN old.by ELSE call[c].by]
  BY <1>2, <1>5 DEF Row
<1>7. new.body = old.body /\ (old.by # None => new.by # None)
  BY <1>6
<1>8. rows' = [rows EXCEPT ![x] = new]
  BY <1>1, <1>4, <1>5, <1>6
<1>9. /\ rows'[x] = new /\ \A y \in Contributions : y # x => rows'[y] = rows[y]
      /\ rows' \in [Contributions -> Row \cup {None}]
  BY <1>8 DEF TypeOK
<1> QED BY <1>1, <1>2, <1>3, <1>4, <1>5, <1>7, <1>9

LEMMA TablesKept ==
    ASSUME NEW c, ClientStep(c), ~CommitStep(c), ~UpdateCommit(c)
    PROVE  UNCHANGED tables
BY QuietWrites DEF ClientStep, Refuse, LockRow, LockWorld, ShareRow, Insert

(* Nothing is forgotten: a row keeps its content, and stays as it is       *)
(* unless the holder of its lock updates it.                               *)
LEMMA StoredStays ==
    ASSUME IInv, NEW c \in Clients, ClientStep(c)
    PROVE  /\ evidence \subseteq evidence' /\ reviews \subseteq reviews'
           /\ \A x \in Contributions : rows[x] # None =>
                 \/ rows'[x] = rows[x]
                 \/ UpdateCommit(c) /\ x = call[c].id
<1>1. CASE CommitStep(c)
  BY <1>1, CommitWrites DEF IInv
<1>2. CASE UpdateCommit(c)
  BY <1>2, UpdateWrites DEF IInv
<1>3. CASE ~CommitStep(c) /\ ~UpdateCommit(c)
  BY <1>3, TablesKept DEF tables
<1> QED BY <1>1, <1>2, <1>3

(* A finalization that commits shares its rows, and nobody has them locked.*)
LEMMA FinalizeShares ==
    ASSUME IInv, NEW c \in Clients, FinalizeCommit(c)
    PROVE  /\ call[c] \in FinalizeCall /\ pc[c] = "referring"
           /\ rowLock[call[c].review.candidate] = None
           /\ rowLock[call[c].review.reviewed] = None
           /\ \A e \in Evidence : Cites(c, e) => e \in evidence'
           /\ worldLock = c /\ ~\E r \in reviews : SameOperationOrPlan(r, call[c].review)
<1>1. pc[c] = "referring" /\ todo[c] = <<>> /\ call[c] \in FinalizeCall
  BY DEF FinalizeCommit, IInv, TypeOK
<1>2. ToSet(todo[c]) = {}
  BY <1>1 DEF ToSet
<1>3. \A x \in {call[c].review.candidate, call[c].review.reviewed} : c \in rowShare[x]
  BY <1>1, <1>2 DEF IInv, ReviewHeld
<1>4. call[c].review.candidate \in Contributions /\ call[c].review.reviewed \in Contributions
  BY <1>1, CallFields, ReviewFields
<1>5. \A e \in Evidence : Cites(c, e) => e \in evidence'
  BY <1>1 DEF IInv, ReviewHeld, FinalizeCommit, EvidenceAtCommit, Inserted
<1> QED BY <1>1, <1>3, <1>4, <1>5 DEF IInv, LockOrShare, WorldHeld

-----------------------------------------------------------------------------
(* Types.                                                                  *)
LEMMA TypeInit == Init => TypeOK
<1>1. <<>> \in Seq(Keys)
  OBVIOUS
<1> QED BY <1>1 DEF Init, TypeOK, Stages

StageFits(c) ==
    /\ pc[c] \in Stages
    /\ todo[c] \in Seq(Keys)
    /\ pc[c] = "closing" => call[c] \in AppendCall
    /\ pc[c] = "inserting" => call[c] \in AppendCall \cup FinalizeCall
    /\ pc[c] \in {"updating", "checking", "writing"} => call[c] \in UpdateCall
    /\ pc[c] \in {"finalizing", "looking", "referring"} => call[c] \in FinalizeCall

(* What a call begins with.                                                *)
LEMMA Started ==
    ASSUME TypeOK, NEW c \in Clients, StartStep(c)
    PROVE  /\ UNCHANGED <<tables, locks, seen>>
           /\ \/ \E a \in Appends :
                    /\ pc'[c] = "closing" /\ call'[c] = [kind |-> "append", put |-> {a}]
                    /\ todo'[c] = KeysOf(a.id) /\ a.id \in Contributions
              \/ /\ pc'[c] = "updating" /\ call'[c] \in UpdateCall
                 /\ todo'[c] = <<>>
              \/ \E r \in Reviews :
                    /\ pc'[c] = "finalizing"
                    /\ call'[c] = [kind |-> "finalize", review |-> r, put |-> PutOf(r)]
                    /\ todo'[c] = KeysOf(r.candidate) \o KeysOf(r.reviewed)
<1>0. DOMAIN pc = Clients /\ DOMAIN call = Clients /\ DOMAIN todo = Clients
  BY DEF TypeOK
<1>1. UNCHANGED <<tables, locks, seen>>
  BY QuietWrites
<1>2. CASE CallAppend(c)
  <2>1. PICK a \in Appends : Start(c, [kind |-> "append", put |-> {a}], "closing", KeysOf(a.id))
    BY <1>2 DEF CallAppend
  <2>2. a.id \in Contributions
    BY LedgerAssumption
  <2> QED BY <1>0, <1>1, <2>1, <2>2 DEF Start
<1>3. CASE CallUpdate(c)
  <2>1. PICK u \in Updates :
          Start(c, [kind |-> "update", id |-> u.id, status |-> u.status, by |-> u.by],
                "updating", <<>>)
    BY <1>3 DEF CallUpdate
  <2>2. u.id \in Contributions /\ u.status \in Statuses /\ u.by \in Contributions \cup {None}
    BY LedgerAssumption
  <2>3. [kind |-> "update", id |-> u.id, status |-> u.status, by |-> u.by] \in UpdateCall
    BY <2>2 DEF UpdateCall
  <2> QED BY <1>0, <1>1, <2>1, <2>3 DEF Start
<1>4. CASE CallFinalize(c)
  <2>1. PICK r \in Reviews :
          Start(c, [kind |-> "finalize", review |-> r, put |-> PutOf(r)],
                "finalizing", KeysOf(r.candidate) \o KeysOf(r.reviewed))
    BY <1>4 DEF CallFinalize, PutOf
  <2> QED BY <1>0, <1>1, <2>1 DEF Start
<1> QED BY <1>2, <1>3, <1>4 DEF StartStep

LEMMA StageStep ==
    ASSUME TypeOK, NEW c \in Clients, ClientStep(c)
    PROVE  StageFits(c)'
<1>0. StageFits(c) /\ <<>> \in Seq(Keys)
      /\ DOMAIN pc = Clients /\ DOMAIN call = Clients /\ DOMAIN todo = Clients
  BY DEF TypeOK, StageFits
<1>1. CASE End(c)
  <2>1. pc'[c] = "idle" /\ todo'[c] = <<>>
    BY <1>0, <1>1 DEF End
  <2> QED BY <1>0, <2>1 DEF StageFits, Stages
<1>2. CASE StartStep(c)
  <2>1. ASSUME NEW a \in Appends, a.id \in Contributions,
               pc'[c] = "closing", call'[c] = [kind |-> "append", put |-> {a}],
               todo'[c] = KeysOf(a.id)
        PROVE  StageFits(c)'
    <3>1. call'[c] \in AppendCall
      BY <2>1 DEF AppendCall
    <3>2. todo'[c] \in Seq(Keys)
      BY <2>1, EvidenceItems
    <3> QED BY <2>1, <3>1, <3>2 DEF StageFits, Stages
  <2>2. CASE pc'[c] = "updating" /\ call'[c] \in UpdateCall /\ todo'[c] = <<>>
    BY <1>0, <2>2 DEF StageFits, Stages
  <2>3. ASSUME NEW r \in Reviews, pc'[c] = "finalizing",
               call'[c] = [kind |-> "finalize", review |-> r, put |-> PutOf(r)],
               todo'[c] = KeysOf(r.candidate) \o KeysOf(r.reviewed)
        PROVE  StageFits(c)'
    <3>1. call'[c] \in FinalizeCall
      BY <2>3 DEF FinalizeCall
    <3>2. PICK s \in Seq(Keys), t \in Seq(Keys) : s = KeysOf(r.candidate) /\ t = KeysOf(r.reviewed)
      BY ReviewFields, EvidenceItems
    <3>3. s \o t \in Seq(Keys)
      OBVIOUS
    <3> QED BY <2>3, <3>1, <3>2, <3>3 DEF StageFits, Stages
  <2> QED BY <1>2, <2>1, <2>2, <2>3, Started
<1>3. CASE QuietStep(c)
  <2>1. CASE CloseCorrections(c) \/ UpdateUnprotected(c) \/ FinalizeNew(c)
    <3>1. /\ call'[c] = call[c] /\ todo'[c] = todo[c]
          /\ \/ pc[c] = "closing" /\ pc'[c] = "inserting"
             \/ pc[c] = "checking" /\ pc'[c] = "writing"
             \/ pc[c] = "looking" /\ pc'[c] = "inserting"
      BY <1>0, <2>1 DEF CloseCorrections, UpdateUnprotected, FinalizeNew
    <3> QED BY <1>0, <3>1 DEF StageFits, Stages
  <2>2. CASE InsertReview(c)
    <3>1. /\ call'[c] = call[c] /\ pc[c] = "inserting" /\ pc'[c] = "referring"
          /\ call[c].kind = "finalize"
          /\ todo'[c] = <<call[c].review.candidate, call[c].review.reviewed>>
      BY <1>0, <2>2 DEF InsertReview
    <3>2. call[c] \in FinalizeCall
      BY <1>0, <3>1, CallFields DEF StageFits
    <3>3. PICK x \in Keys, y \in Keys : x = call[c].review.candidate /\ y = call[c].review.reviewed
      BY <3>2, CallFields, ReviewFields DEF Keys
    <3>4. <<x, y>> \in Seq(Keys)
      BY PairItems
    <3> QED BY <1>0, <3>1, <3>2, <3>3, <3>4 DEF StageFits, Stages
  <2> QED BY <1>3, <2>1, <2>2 DEF QuietStep
<1>4. CASE LockRow(c) \/ LockWorld(c)
  <2>1. /\ call'[c] = call[c] /\ todo'[c] = todo[c]
        /\ \/ pc[c] = "updating" /\ pc'[c] = "checking"
           \/ pc[c] = "finalizing" /\ pc'[c] = "looking"
    BY <1>0, <1>4 DEF LockRow, LockWorld
  <2> QED BY <1>0, <2>1 DEF StageFits, Stages
<1>5. CASE ShareRow(c) \/ Insert(c)
  <2>1. PICK s \in Seq(Keys) : s = todo[c]
    BY <1>0 DEF StageFits
  <2>2. call'[c] = call[c] /\ pc'[c] = pc[c] /\ s # <<>> /\ todo'[c] = Tail(s)
    BY <1>0, <1>5, <2>1 DEF ShareRow, Insert
  <2>3. Tail(s) \in Seq(Keys)
    BY <2>2, Shorten
  <2> QED BY <1>0, <2>2, <2>3 DEF StageFits
<1> QED BY <1>1, <1>2, <1>3, <1>4, <1>5
        DEF ClientStep, Refuse, CommitStep, UpdateCommit, AppendCommit, FinalizeCommit

LEMMA TableTypes ==
    ASSUME IInv, NEW c \in Clients, ClientStep(c)
    PROVE  /\ rows' \in [Contributions -> Row \cup {None}]
           /\ evidence' \subseteq Evidence /\ reviews' \subseteq Reviews
<1>0. TypeOK /\ FreshOwned
  BY DEF IInv
<1>1. CASE CommitStep(c)
  <2>1. \A x \in Contributions : fresh[x] = c => Submitted(c, x) \in Row
    BY <1>0, <1>1, CommitWrites, PutFields
  <2>2. rows' = [x \in Contributions |-> IF fresh[x] = c THEN Submitted(c, x) ELSE rows[x]]
    BY <1>0, <1>1, CommitWrites DEF RowsAtCommit, Inserted
  <2>3. rows' \in [Contributions -> Row \cup {None}]
    BY <1>0, <2>1, <2>2 DEF TypeOK
  <2>4. reviews' \subseteq Reviews
    <3>1. CASE FinalizeCommit(c)
      <4>1. call[c].review \in Reviews
        BY <3>1, FinalizeShares, CallFields
      <4>2. reviews' = reviews \/ reviews' = reviews \cup {call[c].review}
        BY <1>0, <1>1, CommitWrites
      <4>3. reviews \subseteq Reviews
        BY <1>0 DEF TypeOK
      <4> QED BY <4>1, <4>2, <4>3
    <3>2. CASE ~FinalizeCommit(c)
      BY <1>0, <1>1, <3>2, CommitWrites DEF TypeOK
    <3> QED BY <3>1, <3>2
  <2> QED BY <1>0, <1>1, <2>3, <2>4, CommitWrites DEF TypeOK
<1>2. CASE UpdateCommit(c)
  BY <1>0, <1>2, UpdateWrites DEF IInv, TypeOK
<1>3. CASE ~CommitStep(c) /\ ~UpdateCommit(c)
  BY <1>0, <1>3, TablesKept DEF tables, TypeOK
<1> QED BY <1>1, <1>2, <1>3

LEMMA LockTypes ==
    ASSUME TypeOK, NEW c \in Clients, ClientStep(c)
    PROVE  /\ fresh' \in [Keys -> Clients \cup {None}]
           /\ rowLock' \in [Contributions -> Clients \cup {None}]
           /\ rowShare' \in [Contributions -> SUBSET Clients]
           /\ DOMAIN pc' = Clients /\ DOMAIN call' = Clients /\ DOMAIN seen' = Clients
           /\ DOMAIN todo' = Clients
           /\ pc' = [d \in Clients |-> pc'[d]] /\ todo' = [d \in Clients |-> todo'[d]]
<1> USE DEF TypeOK
<1>1. CASE End(c)
  BY <1>1 DEF End
<1>2. CASE StartStep(c)
  BY <1>2 DEF StartStep, CallAppend, CallUpdate, CallFinalize, Start, locks
<1>3. CASE QuietStep(c)
  BY <1>3 DEF QuietStep, CloseCorrections, UpdateUnprotected, FinalizeNew, InsertReview, locks
<1>4. CASE LockRow(c)
  <2>1. /\ UNCHANGED <<fresh, rowShare, call, todo>>
        /\ rowLock' = [rowLock EXCEPT ![call[c].id] = c]
        /\ pc' = [pc EXCEPT ![c] = "checking"] /\ seen' = [seen EXCEPT ![c] = rows[call[c].id]]
    BY <1>4 DEF LockRow, TakeRow
  <2> QED BY <2>1
<1>5. CASE LockWorld(c)
  BY <1>5 DEF LockWorld
<1>6. CASE ShareRow(c)
  <2>1. /\ UNCHANGED <<fresh, rowLock, pc, call, seen>>
        /\ rowShare' = [rowShare EXCEPT ![Head(todo[c])] = @ \cup {c}]
        /\ todo' = [todo EXCEPT ![c] = Tail(@)]
    BY <1>6 DEF ShareRow
  <2> QED BY <2>1
<1>7. CASE Insert(c)
  <2>1. /\ UNCHANGED <<rowLock, rowShare, pc, call, seen>>
        /\ fresh' = fresh \/ fresh' = [fresh EXCEPT ![Head(todo[c])] = c]
        /\ todo' = [todo EXCEPT ![c] = Tail(@)]
    BY <1>7 DEF Insert, InsertKey
  <2> QED BY <2>1
<1> QED BY <1>1, <1>2, <1>3, <1>4, <1>5, <1>6, <1>7
        DEF ClientStep, Refuse, CommitStep, UpdateCommit, AppendCommit, FinalizeCommit

LEMMA TypeStep ==
    ASSUME IInv, NEW c \in Clients, ClientStep(c)
    PROVE  TypeOK'
<1>0. TypeOK
  BY DEF IInv
<1>1. \A d \in Clients : StageFits(d)'
  <2>1. \A d \in Clients : StageFits(d)
    BY <1>0 DEF TypeOK, StageFits
  <2>2. ASSUME NEW d \in Clients, d # c
        PROVE  StageFits(d)'
    BY <1>0, <2>1, <2>2, OthersUndisturbed DEF StageFits, Undisturbed
  <2> QED BY <1>0, <2>2, StageStep
<1>2. pc' \in [Clients -> Stages] /\ todo' \in [Clients -> Seq(Keys)]
  BY <1>0, <1>1, LockTypes DEF StageFits
<1> QED BY <1>0, <1>1, <1>2, TableTypes, LockTypes DEF TypeOK, StageFits

-----------------------------------------------------------------------------
(* What a step of one client leaves true of another.                       *)
LEMMA ReviewsChange ==
    ASSUME IInv, NEW c \in Clients, ClientStep(c)
    PROVE  \/ reviews' = reviews
           \/ FinalizeCommit(c) /\ reviews' = reviews \cup {call[c].review}
<1>1. CASE CommitStep(c)
  BY <1>1, CommitWrites DEF IInv
<1>2. CASE UpdateCommit(c)
  BY <1>2 DEF UpdateCommit
<1>3. CASE ~CommitStep(c) /\ ~UpdateCommit(c)
  BY <1>3, TablesKept DEF tables
<1> QED BY <1>1, <1>2, <1>3

(* A row locked by another client is not written.                          *)
LEMMA LockedRowStays ==
    ASSUME IInv, NEW c \in Clients, ClientStep(c),
           NEW x \in Contributions, rowLock[x] # c, rows[x] # None
    PROVE  rows'[x] = rows[x]
<1>1. ~(UpdateCommit(c) /\ x = call[c].id)
  BY UpdateWrites DEF IInv
<1> QED BY <1>1, StoredStays

LEMMA OthersStep ==
    ASSUME IInv, NEW c \in Clients, ClientStep(c), NEW d \in Clients, d # c
    PROVE  TodoCovers(d)' /\ UpdateHeld(d)' /\ ReviewHeld(d)' /\ WorldHeld(d)'
<1>0. TypeOK /\ TodoCovers(d) /\ UpdateHeld(d) /\ ReviewHeld(d) /\ WorldHeld(d)
  BY DEF IInv
<1>1. Undisturbed(d)
  BY <1>0, OthersUndisturbed
<1>2. /\ pc'[d] = pc[d] /\ call'[d] = call[d] /\ todo'[d] = todo[d] /\ seen'[d] = seen[d]
      /\ \A e \in Evidence : fresh'[e] = d <=> fresh[e] = d
      /\ \A x \in Contributions : rowLock'[x] = d <=> rowLock[x] = d
      /\ \A x \in Contributions : d \in rowShare'[x] <=> d \in rowShare[x]
      /\ worldLock' = d <=> worldLock = d
  BY <1>1 DEF Undisturbed, Keys
<1>3. evidence \subseteq evidence' /\ d # None
  BY StoredStays, LedgerAssumption
<1>4. TodoCovers(d)'
  BY <1>0, <1>2, <1>3 DEF TodoCovers, Puts, Cites
<1>5. ReviewHeld(d)'
  <2>1. SUFFICES ASSUME pc[d] = "referring"
                 PROVE  /\ \A x \in {call[d].review.candidate, call[d].review.reviewed} :
                              x \in ToSet(todo[d]) \/ d \in rowShare'[x]
                        /\ \A e \in Evidence :
                              Cites(d, e) => e \in evidence' \/ fresh'[e] = d
    BY <1>2 DEF ReviewHeld, Cites
  <2>2. \A x \in {call[d].review.candidate, call[d].review.reviewed} : x \in Contributions
    BY <1>0, <2>1, CallFields, ReviewFields DEF TypeOK
  <2> QED BY <1>0, <1>2, <1>3, <2>1, <2>2 DEF ReviewHeld
<1>6. UpdateHeld(d)'
  <2>1. SUFFICES ASSUME pc[d] \in {"checking", "writing"}
                 PROVE  /\ rowLock'[call[d].id] = d
                        /\ seen[d] = rows'[call[d].id] /\ seen[d] # None
                        /\ pc[d] = "writing" =>
                              ~\E r \in reviews' : call[d].id \in {r.candidate, r.reviewed}
    BY <1>2 DEF UpdateHeld, Protected
  <2>2. PICK x \in Contributions : x = call[d].id
    BY <1>0, <2>1, CallFields DEF TypeOK
  <2>3. /\ rowLock[x] = d /\ seen[d] = rows[x] /\ rows[x] # None
        /\ pc[d] = "writing" => ~\E r \in reviews : x \in {r.candidate, r.reviewed}
    BY <1>0, <2>1, <2>2 DEF UpdateHeld, Protected
  <2>4. rowLock'[x] = d /\ rows'[x] = rows[x]
    BY <1>2, <2>3, LockedRowStays
  <2>5. FinalizeCommit(c) => x \notin {call[c].review.candidate, call[c].review.reviewed}
    BY <1>3, <2>3, FinalizeShares
  <2> QED BY <2>2, <2>3, <2>4, <2>5, ReviewsChange
<1>7. WorldHeld(d)'
  <2>1. worldLock = d => reviews' = reviews
    BY ReviewsChange, FinalizeShares
  <2> QED BY <1>0, <1>2, <2>1 DEF WorldHeld, SameOperationOrPlan
<1> QED BY <1>4, <1>5, <1>6, <1>7

-----------------------------------------------------------------------------
(* What its own step leaves true of a client.                              *)
LEMMA StepTodoCovers ==
    ASSUME IInv, NEW c \in Clients, ClientStep(c)
    PROVE  TodoCovers(c)'
<1>0. /\ TypeOK /\ TodoCovers(c) /\ \A e \in Evidence : e \notin Contributions
      /\ DOMAIN pc = Clients /\ DOMAIN todo = Clients
  BY LedgerAssumption DEF IInv, TypeOK
<1>1. CASE pc'[c] \notin Preparing
  BY <1>1 DEF TodoCovers
<1>2. CASE StartStep(c)
  <2>1. ASSUME NEW a \in Appends, a.id \in Contributions,
               call'[c] = [kind |-> "append", put |-> {a}], todo'[c] = KeysOf(a.id)
        PROVE  TodoCovers(c)'
    <3>1. /\ ToSet(todo'[c]) = ToSet(EvidenceOf[a.id]) \cup {a.id}
          /\ ToSet(EvidenceOf[a.id]) \subseteq Evidence
      BY <2>1, EvidenceItems
    <3>2. call'[c].put = {a}
      BY <2>1
    <3> QED BY <1>0, <3>1, <3>2 DEF TodoCovers, Puts, Cites
  <2>2. CASE pc'[c] = "updating"
    BY <2>2 DEF TodoCovers, Preparing
  <2>3. ASSUME NEW r \in Reviews,
               call'[c] = [kind |-> "finalize", review |-> r, put |-> PutOf(r)],
               todo'[c] = KeysOf(r.candidate) \o KeysOf(r.reviewed)
        PROVE  TodoCovers(c)'
    <3>1. r.candidate \in Contributions /\ r.reviewed \in Contributions
      BY ReviewFields
    <3>2. PICK s \in Seq(Keys), t \in Seq(Keys) : s = KeysOf(r.candidate) /\ t = KeysOf(r.reviewed)
      BY <3>1, EvidenceItems
    <3>3. \A k \in Keys : ToSet(s \o t) = ToSet(s) \cup ToSet(t)
      BY ListItems
    <3>4. /\ ToSet(s) = ToSet(EvidenceOf[r.candidate]) \cup {r.candidate}
          /\ ToSet(t) = ToSet(EvidenceOf[r.reviewed]) \cup {r.reviewed}
          /\ ToSet(EvidenceOf[r.candidate]) \subseteq Evidence
          /\ ToSet(EvidenceOf[r.reviewed]) \subseteq Evidence
      BY <3>1, <3>2, EvidenceItems
    <3>5. ToSet(todo'[c]) = ToSet(s) \cup ToSet(t)
      BY <2>3, <3>1, <3>2, <3>3 DEF Keys
    <3>6. PICK a, b : /\ a = [id |-> r.candidate, row |-> CandidateRow(r)]
                      /\ b = [id |-> r.reviewed, row |-> ReviewedRow(r)]
      OBVIOUS
    <3>7. call'[c].put = {a, b} /\ a.id = r.candidate /\ b.id = r.reviewed
      BY <2>3, <3>6 DEF PutOf
    <3>8. ASSUME NEW x \in Contributions, x \in ToSet(todo'[c])
          PROVE  Puts(c, x)'
      <4>1. x = r.candidate \/ x = r.reviewed
        BY <1>0, <3>4, <3>5, <3>8
      <4> QED BY <3>7, <4>1 DEF Puts
    <3>9. ASSUME NEW e \in Evidence, Cites(c, e)'
          PROVE  e \in ToSet(todo'[c])
      <4>1. e \in ToSet(EvidenceOf[r.candidate]) \/ e \in ToSet(EvidenceOf[r.reviewed])
        BY <3>7, <3>9 DEF Cites
      <4> QED BY <3>4, <3>5, <4>1
    <3> QED BY <3>8, <3>9 DEF TodoCovers
  <2>4. CASE \E a \in Appends :
               /\ pc'[c] = "closing" /\ call'[c] = [kind |-> "append", put |-> {a}]
               /\ todo'[c] = KeysOf(a.id) /\ a.id \in Contributions
    BY <2>1, <2>4
  <2>5. CASE \E r \in Reviews :
               /\ pc'[c] = "finalizing"
               /\ call'[c] = [kind |-> "finalize", review |-> r, put |-> PutOf(r)]
               /\ todo'[c] = KeysOf(r.candidate) \o KeysOf(r.reviewed)
    BY <2>3, <2>5
  <2> QED BY <1>0, <1>2, <2>2, <2>4, <2>5, Started
<1>3. CASE CloseCorrections(c) \/ FinalizeNew(c) \/ LockWorld(c)
  <2>1. pc[c] \in Preparing /\ UNCHANGED <<evidence, fresh, call, todo>>
    BY <1>3 DEF CloseCorrections, FinalizeNew, LockWorld, Preparing, tables, locks
  <2> QED BY <1>0, <2>1 DEF TodoCovers, Puts, Cites
<1>4. CASE Insert(c)
  <2>1. PICK s \in Seq(Keys) : s = todo[c]
    BY <1>0 DEF TypeOK
  <2>2. /\ pc[c] = "inserting" /\ s # <<>> /\ todo'[c] = Tail(s)
        /\ UNCHANGED <<tables, call, pc>>
        /\ fresh' = IF Stored(Head(s)) THEN fresh ELSE [fresh EXCEPT ![Head(s)] = c]
    BY <1>0, <1>4, <2>1 DEF Insert, InsertKey
  <2>3. /\ ToSet(Tail(s)) \subseteq ToSet(s) /\ Head(s) \in Keys
        /\ ToSet(s) \subseteq ToSet(Tail(s)) \cup {Head(s)}
    BY <2>2, Shorten
  <2>4. \A e \in Evidence :
           /\ e = Head(s) => e \in evidence \/ fresh'[e] = c
           /\ fresh[e] = c => fresh'[e] = c
    BY <1>0, <2>2, <2>3 DEF Stored, TypeOK, Keys
  <2> QED BY <1>0, <2>1, <2>2, <2>3, <2>4 DEF TodoCovers, Puts, Cites, tables, Preparing
<1>5. CASE End(c) \/ UpdateUnprotected(c) \/ InsertReview(c) \/ LockRow(c) \/ ShareRow(c)
  <2>1. pc'[c] \in {"idle", "writing", "referring", "checking"}
    BY <1>0, <1>5 DEF End, UpdateUnprotected, InsertReview, LockRow, ShareRow
  <2> QED BY <1>1, <2>1 DEF Preparing
<1> QED BY <1>2, <1>3, <1>4, <1>5
        DEF ClientStep, QuietStep, Refuse, CommitStep, UpdateCommit, AppendCommit, FinalizeCommit

LEMMA StepUpdateHeld ==
    ASSUME IInv, NEW c \in Clients, ClientStep(c)
    PROVE  UpdateHeld(c)'
<1>0. /\ TypeOK /\ UpdateHeld(c) /\ DOMAIN pc = Clients /\ DOMAIN seen = Clients
  BY DEF IInv, TypeOK
<1>1. CASE pc'[c] \notin {"checking", "writing"}
  BY <1>1 DEF UpdateHeld
<1>2. CASE LockRow(c)
  <2>1. PICK x \in Contributions : x = call[c].id
    BY <1>0, <1>2, CallFields DEF LockRow, TypeOK
  <2>2. /\ rows[x] # None /\ rowLock' = [rowLock EXCEPT ![x] = c]
        /\ seen'[c] = rows[x] /\ pc'[c] = "checking" /\ UNCHANGED <<tables, call>>
    BY <1>0, <1>2, <2>1 DEF LockRow, TakeRow
  <2>3. rowLock'[x] = c
    BY <1>0, <2>2 DEF TypeOK
  <2> QED BY <2>1, <2>2, <2>3 DEF UpdateHeld, tables
<1>3. CASE UpdateUnprotected(c)
  BY <1>0, <1>3 DEF UpdateUnprotected, UpdateHeld, Protected, tables, locks
<1>4. CASE StartStep(c)
  <2>1. pc'[c] \in {"closing", "updating", "finalizing"}
    BY <1>0, <1>4, Started
  <2> QED BY <1>1, <2>1
<1>5. CASE End(c) \/ CloseCorrections(c) \/ FinalizeNew(c) \/ InsertReview(c) \/ LockWorld(c)
           \/ ShareRow(c) \/ Insert(c)
  <2>1. pc'[c] \in {"idle", "inserting", "referring", "looking"}
    BY <1>0, <1>5 DEF End, CloseCorrections, FinalizeNew, InsertReview, LockWorld, ShareRow,
       Insert
  <2> QED BY <1>1, <2>1
<1> QED BY <1>2, <1>3, <1>4, <1>5
        DEF ClientStep, QuietStep, Refuse, CommitStep, UpdateCommit, AppendCommit, FinalizeCommit

LEMMA StepReviewHeld ==
    ASSUME IInv, NEW c \in Clients, ClientStep(c)
    PROVE  ReviewHeld(c)'
<1>0. /\ TypeOK /\ TodoCovers(c) /\ ReviewHeld(c) /\ DOMAIN pc = Clients /\ DOMAIN todo = Clients
  BY DEF IInv, TypeOK
<1>1. CASE pc'[c] # "referring"
  BY <1>1 DEF ReviewHeld
<1>2. CASE InsertReview(c)
  <2>1. /\ pc[c] = "inserting" /\ todo[c] = <<>> /\ call[c].kind = "finalize"
        /\ todo'[c] = <<call[c].review.candidate, call[c].review.reviewed>>
        /\ UNCHANGED <<tables, locks, call>>
    BY <1>0, <1>2 DEF InsertReview
  <2>2. ToSet(todo[c]) = {}
    BY <2>1 DEF ToSet
  <2>3. \A e \in Evidence : Cites(c, e) => e \in evidence \/ fresh[e] = c
    BY <1>0, <2>1, <2>2 DEF TodoCovers, Preparing
  <2>4. call[c] \in FinalizeCall
    BY <1>0, <2>1, CallFields DEF TypeOK
  <2>5. ToSet(todo'[c]) = {call[c].review.candidate, call[c].review.reviewed}
    BY <2>1, <2>4, CallFields, ReviewFields, PairItems
  <2> QED BY <2>1, <2>3, <2>5 DEF ReviewHeld, Cites, tables, locks
<1>3. CASE ShareRow(c)
  <2>1. PICK s \in Seq(Keys) : s = todo[c]
    BY <1>0 DEF TypeOK
  <2>2. /\ pc[c] = "referring" /\ s # <<>> /\ todo'[c] = Tail(s)
        /\ UNCHANGED <<tables, fresh, call, pc>>
        /\ rowShare' = [rowShare EXCEPT ![Head(s)] = @ \cup {c}]
    BY <1>0, <1>3, <2>1 DEF ShareRow
  <2>3. ToSet(s) \subseteq ToSet(Tail(s)) \cup {Head(s)}
    BY <2>2, Shorten
  <2>4. \A x \in {call[c].review.candidate, call[c].review.reviewed} : x \in Contributions
    BY <1>0, <2>2, CallFields, ReviewFields DEF TypeOK
  <2>5. \A x \in Contributions : x = Head(s) \/ c \in rowShare[x] => c \in rowShare'[x]
    BY <1>0, <2>2 DEF TypeOK
  <2>6. \A x \in {call[c].review.candidate, call[c].review.reviewed} :
           x \in ToSet(Tail(s)) \/ c \in rowShare'[x]
    BY <1>0, <2>1, <2>2, <2>3, <2>4, <2>5 DEF ReviewHeld
  <2> QED BY <1>0, <2>2, <2>6 DEF ReviewHeld, Cites, tables
<1>4. CASE StartStep(c)
  <2>1. pc'[c] \in {"closing", "updating", "finalizing"}
    BY <1>0, <1>4, Started
  <2> QED BY <1>1, <2>1
<1>5. CASE End(c) \/ CloseCorrections(c) \/ FinalizeNew(c) \/ UpdateUnprotected(c) \/ LockWorld(c)
           \/ LockRow(c) \/ Insert(c)
  <2>1. pc'[c] \in {"idle", "inserting", "writing", "checking", "looking"}
    BY <1>0, <1>5 DEF End, CloseCorrections, FinalizeNew, UpdateUnprotected, LockWorld, LockRow,
       Insert
  <2> QED BY <1>1, <2>1
<1> QED BY <1>2, <1>3, <1>4, <1>5
        DEF ClientStep, QuietStep, Refuse, CommitStep, UpdateCommit, AppendCommit, FinalizeCommit

LEMMA StepWorldHeld ==
    ASSUME IInv, NEW c \in Clients, ClientStep(c)
    PROVE  WorldHeld(c)'
<1>0. /\ TypeOK /\ WorldHeld(c) /\ DOMAIN pc = Clients /\ DOMAIN call = Clients
  BY DEF IInv, TypeOK
<1>1. CASE pc'[c] \notin {"looking", "referring", "inserting"}
  BY <1>1 DEF WorldHeld
<1>2. CASE LockWorld(c)
  BY <1>0, <1>2 DEF LockWorld, WorldHeld
<1>3. CASE FinalizeNew(c)
  BY <1>0, <1>3 DEF FinalizeNew, WorldHeld, tables, locks
<1>4. CASE CloseCorrections(c)
  <2>1. call'[c].kind = "append" /\ pc'[c] = "inserting"
    BY <1>0, <1>4, CallFields DEF CloseCorrections, TypeOK
  <2> QED BY <2>1 DEF WorldHeld
<1>5. CASE InsertReview(c)
  BY <1>0, <1>5 DEF InsertReview, WorldHeld, tables, locks
<1>6. CASE ShareRow(c) \/ Insert(c)
  <2>1. /\ pc[c] \in {"referring", "inserting"}
        /\ UNCHANGED <<tables, worldLock, pc, call>>
    BY <1>6 DEF ShareRow, Insert
  <2> QED BY <1>0, <2>1 DEF WorldHeld, tables
<1>7. CASE StartStep(c)
  <2>1. pc'[c] \in {"closing", "updating", "finalizing"}
    BY <1>0, <1>7, Started
  <2> QED BY <1>1, <2>1
<1>8. CASE End(c) \/ UpdateUnprotected(c) \/ LockRow(c)
  <2>1. pc'[c] \in {"idle", "writing", "checking"}
    BY <1>0, <1>8 DEF End, UpdateUnprotected, LockRow
  <2> QED BY <1>1, <2>1
<1> QED BY <1>2, <1>3, <1>4, <1>5, <1>6, <1>7, <1>8
        DEF ClientStep, QuietStep, Refuse, CommitStep, UpdateCommit, AppendCommit, FinalizeCommit

-----------------------------------------------------------------------------
(* The parts about shared state.                                           *)
LEMMA StepFreshOwned ==
    ASSUME IInv, NEW c \in Clients, ClientStep(c)
    PROVE  FreshOwned'
<1>0. TypeOK /\ FreshOwned /\ TodoCovers(c) /\ DOMAIN pc = Clients /\ None \notin Clients
  BY LedgerAssumption DEF IInv, TypeOK
<1> SUFFICES ASSUME NEW k \in Keys, NEW o, o = fresh'[k], o # None
             PROVE  /\ pc'[o] \in {"inserting", "referring"}
                    /\ ~(IF k \in Evidence THEN k \in evidence' ELSE rows'[k] # None)
                    /\ k \in Contributions => Puts(o, k)'
  BY DEF FreshOwned, Stored, Puts
<1>1. o \in Clients
  BY <1>0, LockTypes
<1>2. k \in Evidence <=> k \notin Contributions
  BY LedgerAssumption DEF Keys
<1>3. CASE o # c
  <2>1. pc'[o] = pc[o] /\ call'[o] = call[o] /\ fresh[k] = o
    BY <1>0, <1>1, <1>3, OthersUndisturbed DEF Undisturbed
  <2>2. pc[o] \in {"inserting", "referring"} /\ ~Stored(k) /\ (k \in Contributions => Puts(o, k))
    BY <1>0, <2>1 DEF FreshOwned
  <2>3. ~(IF k \in Evidence THEN k \in evidence' ELSE rows'[k] # None)
    <3>1. CASE CommitStep(c)
      BY <1>0, <1>2, <1>3, <2>1, <2>2, <3>1, CommitWrites DEF Stored, Keys
    <3>2. CASE UpdateCommit(c)
      BY <1>0, <1>2, <2>2, <3>2, UpdateWrites DEF Stored, Keys, IInv
    <3>3. CASE ~CommitStep(c) /\ ~UpdateCommit(c)
      BY <2>2, <3>3, TablesKept DEF tables, Stored
    <3> QED BY <3>1, <3>2, <3>3
  <2> QED BY <2>1, <2>2, <2>3 DEF Puts
<1>4. CASE o = c
  <2>1. ~End(c)
    <3>1. ASSUME End(c)
          PROVE  fresh'[k] # c
      BY <1>0, <3>1, Ended
    <3> QED BY <1>4, <3>1
  <2>2. UNCHANGED tables
    BY <2>1, TablesKept DEF CommitStep, AppendCommit, FinalizeCommit, UpdateCommit
  <2>3. CASE fresh[k] = c
    <3>1. pc[c] \in {"inserting", "referring"} /\ ~Stored(k) /\ (k \in Contributions => Puts(c, k))
      BY <1>0, <2>3 DEF FreshOwned
    <3>2. call'[c] = call[c] /\ pc'[c] \in {"inserting", "referring"}
      BY <1>0, <2>1, <3>1 DEF ClientStep, StartStep, CallAppend, CallUpdate, CallFinalize, Start,
         QuietStep, CloseCorrections, UpdateUnprotected, FinalizeNew, InsertReview, Refuse, CommitStep,
         AppendCommit, FinalizeCommit, UpdateCommit, LockRow, LockWorld, ShareRow, Insert
    <3> QED BY <1>4, <2>2, <3>1, <3>2 DEF Puts, Stored, tables
  <2>4. CASE fresh[k] # c
    <3>1. Insert(c)
      BY <1>4, <2>1, <2>4, QuietWrites DEF ClientStep, Refuse, CommitStep,
         AppendCommit, FinalizeCommit, UpdateCommit, LockRow, LockWorld, ShareRow, locks
    <3>2. PICK s \in Seq(Keys) : s = todo[c]
      BY <1>0 DEF TypeOK
    <3>3. /\ pc[c] = "inserting" /\ s # <<>> /\ UNCHANGED <<call, pc>>
          /\ fresh' = IF Stored(Head(s)) THEN fresh ELSE [fresh EXCEPT ![Head(s)] = c]
      BY <3>1, <3>2 DEF Insert, InsertKey
    <3>4. k = Head(s) /\ ~Stored(k)
      BY <1>0, <1>4, <2>4, <3>3 DEF TypeOK
    <3>5. k \in Contributions => Puts(c, k)
      BY <1>0, <3>2, <3>3, <3>4, Shorten DEF TodoCovers, Preparing
    <3> QED BY <1>4, <2>2, <3>3, <3>4, <3>5 DEF Puts, Stored, tables
  <2> QED BY <2>3, <2>4
<1> QED BY <1>3, <1>4

LEMMA StepLockOrShare ==
    ASSUME IInv, NEW c \in Clients, ClientStep(c)
    PROVE  LockOrShare'
<1>0. TypeOK /\ LockOrShare
  BY DEF IInv
<1>1. CASE End(c)
  BY <1>0, <1>1 DEF End, LockOrShare
<1>2. CASE StartStep(c) \/ QuietStep(c)
  BY <1>0, <1>2, QuietWrites DEF LockOrShare, locks
<1>3. CASE LockRow(c)
  <2>1. /\ rowShare[call[c].id] = {} /\ rowShare' = rowShare
        /\ rowLock' = [rowLock EXCEPT ![call[c].id] = c]
    BY <1>3 DEF LockRow, TakeRow
  <2> QED BY <1>0, <2>1 DEF LockOrShare, TypeOK
<1>4. CASE ShareRow(c)
  <2>1. /\ rowLock[Head(todo[c])] = None /\ rowLock' = rowLock
        /\ rowShare' = [rowShare EXCEPT ![Head(todo[c])] = @ \cup {c}]
    BY <1>4 DEF ShareRow
  <2> QED BY <1>0, <2>1 DEF LockOrShare, TypeOK
<1>5. CASE LockWorld(c) \/ Insert(c)
  BY <1>0, <1>5 DEF LockWorld, Insert, LockOrShare
<1> QED BY <1>1, <1>2, <1>3, <1>4, <1>5
        DEF ClientStep, Refuse, CommitStep, UpdateCommit, AppendCommit, FinalizeCommit

(* A stored review stays readable because no update writes over the rows   *)
(* it protects; a new one is, because finalize reads both rows again while *)
(* it shares them.                                                         *)
LEMMA StepReviewsReload ==
    ASSUME IInv, NEW c \in Clients, ClientStep(c)
    PROVE  ReviewsReload'
<1>0. TypeOK /\ FreshOwned /\ ReviewsReload
  BY DEF IInv
<1> SUFFICES ASSUME NEW r \in reviews'
             PROVE  /\ rows'[r.candidate] = CandidateRow(r)
                    /\ rows'[r.reviewed] = ReviewedRow(r)
                    /\ ToSet(EvidenceOf[r.candidate]) \cup ToSet(EvidenceOf[r.reviewed]) \subseteq evidence'
  BY DEF ReviewsReload, CandidateRow, ReviewedRow
<1>1. r \in Reviews
  BY TableTypes
<1>2. /\ r.candidate \in Contributions /\ r.reviewed \in Contributions
      /\ CandidateRow(r) # None /\ ReviewedRow(r) # None
      /\ ToSet(EvidenceOf[r.candidate]) \cup ToSet(EvidenceOf[r.reviewed]) \subseteq Evidence
  BY <1>1, ReviewFields, EvidenceItems
<1>3. CASE r \in reviews
  <2>1. /\ rows[r.candidate] = CandidateRow(r) /\ rows[r.reviewed] = ReviewedRow(r)
        /\ ToSet(EvidenceOf[r.candidate]) \cup ToSet(EvidenceOf[r.reviewed]) \subseteq evidence
    BY <1>0, <1>3 DEF ReviewsReload, CandidateRow, ReviewedRow
  <2>2. UpdateCommit(c) => call[c].id \notin {r.candidate, r.reviewed}
    BY <1>0, <1>3, UpdateWrites DEF IInv, Protected
  <2> QED BY <1>2, <2>1, <2>2, StoredStays
<1>4. CASE r \notin reviews
  <2>1. FinalizeCommit(c) /\ r = call[c].review
    BY <1>4, ReviewsChange
  <2>2. rows'[r.candidate] = CandidateRow(r) /\ rows'[r.reviewed] = ReviewedRow(r)
    BY <2>1 DEF FinalizeCommit, ReviewState
  <2>3. ASSUME NEW e \in ToSet(EvidenceOf[r.candidate]) \cup ToSet(EvidenceOf[r.reviewed])
        PROVE  e \in evidence'
    <3>1. PICK a, b : /\ a = [id |-> r.candidate, row |-> CandidateRow(r)]
                      /\ b = [id |-> r.reviewed, row |-> ReviewedRow(r)]
      OBVIOUS
    <3>2. call[c].put = {a, b} /\ a.id = r.candidate /\ b.id = r.reviewed
      BY <2>1, <3>1, FinalizeShares, CallFields DEF PutOf
    <3>3. Cites(c, e)
      BY <2>3, <3>2 DEF Cites
    <3> QED BY <1>2, <2>1, <3>3, FinalizeShares
  <2> QED BY <2>2, <2>3
<1> QED BY <1>3, <1>4

LEMMA StepReviewedOnce ==
    ASSUME IInv, NEW c \in Clients, ClientStep(c)
    PROVE  ReviewedOnce'
<1>1. ReviewedOnce
  BY DEF IInv
<1>2. CASE reviews' = reviews
  BY <1>1, <1>2 DEF ReviewedOnce
<1>3. CASE FinalizeCommit(c) /\ reviews' = reviews \cup {call[c].review}
  BY <1>1, <1>3, FinalizeShares DEF ReviewedOnce, SameOperationOrPlan
<1> QED BY <1>2, <1>3, ReviewsChange

-----------------------------------------------------------------------------
LEMMA InvInit == Init => IInv
<1> SUFFICES ASSUME Init
             PROVE  IInv
  OBVIOUS
<1>1. TypeOK
  BY TypeInit
<1>2. FreshOwned /\ LockOrShare /\ ReviewsReload /\ ReviewedOnce
  BY DEF Init, FreshOwned, LockOrShare, ReviewsReload, ReviewedOnce
<1>3. \A c \in Clients : TodoCovers(c) /\ UpdateHeld(c) /\ ReviewHeld(c) /\ WorldHeld(c)
  BY DEF Init, TodoCovers, Preparing, UpdateHeld, ReviewHeld, WorldHeld
<1> QED BY <1>1, <1>2, <1>3 DEF IInv

LEMMA InvStep == IInv /\ [Next]_vars => IInv'
<1> SUFFICES ASSUME IInv, [Next]_vars
             PROVE  IInv'
  OBVIOUS
<1>1. CASE UNCHANGED vars
  BY <1>1 DEF vars, tables, locks, session, IInv, TypeOK, FreshOwned, LockOrShare, TodoCovers,
     Puts,
     Cites, UpdateHeld, Protected, ReviewHeld, WorldHeld, ReviewsReload, ReviewedOnce, Stored
<1>2. ASSUME NEW c \in Clients, ClientStep(c)
      PROVE  IInv'
  <2>1. TypeOK'
    BY <1>2, TypeStep
  <2>2. \A d \in Clients : TodoCovers(d)' /\ UpdateHeld(d)' /\ ReviewHeld(d)' /\ WorldHeld(d)'
    BY <1>2, OthersStep, StepTodoCovers, StepUpdateHeld, StepReviewHeld, StepWorldHeld
  <2>3. FreshOwned' /\ LockOrShare' /\ ReviewsReload' /\ ReviewedOnce'
    BY <1>2, StepFreshOwned, StepLockOrShare, StepReviewsReload, StepReviewedOnce
  <2> QED BY <2>1, <2>2, <2>3 DEF IInv
<1> QED BY <1>1, <1>2, StepKinds

LEMMA Inductive == Spec => []IInv
BY InvInit, InvStep, PTL DEF Spec

(* Every variable keeps its type, and each stage of a transaction serves a *)
(* request of its own kind.                                                *)
THEOREM TypeCorrect == Spec => []TypeOK
<1>1. IInv => TypeOK
  BY DEF IInv
<1> QED BY <1>1, Inductive, PTL

(* A finalized review can always be read back: whatever status updates     *)
(* race with it, its two contributions are as reviewed and their evidence  *)
(* is stored.                                                              *)
THEOREM ReviewsAlwaysReload == Spec => []ReviewsReload
<1>1. IInv => ReviewsReload
  BY DEF IInv
<1> QED BY <1>1, Inductive, PTL

(* One review operation, and one plan, never has two stored reviews: a     *)
(* finalization that retries or races another finds the first.             *)
THEOREM OneReviewPerOperationAndPlan == Spec => []ReviewedOnce
<1>1. IInv => ReviewedOnce
  BY DEF IInv
<1> QED BY <1>1, Inductive, PTL

(* No step, of any transaction, takes a stored contribution away, changes  *)
(* its content or loses the pointer to its successor.                      *)
THEOREM ForwardPointersKept == Spec => ForwardPointerKept
<1> DEFINE Kept == \A x \in Contributions : rows[x] # None =>
                      /\ rows'[x] # None
                      /\ rows'[x].body = rows[x].body
                      /\ rows[x].by # None => rows'[x].by # None
<1>1. ASSUME IInv, [Next]_vars
      PROVE  [Kept]_vars
  <2>1. ASSUME NEW c \in Clients, ClientStep(c), NEW x \in Contributions, rows[x] # None
        PROVE  /\ rows'[x] # None
               /\ rows'[x].body = rows[x].body
               /\ rows[x].by # None => rows'[x].by # None
    <3>1. CASE rows'[x] = rows[x]
      BY <2>1, <3>1
    <3>2. CASE UpdateCommit(c) /\ x = call[c].id
      <4>1. UpdateHeld(c) /\ TypeOK
        BY <1>1, <2>1 DEF IInv
      <4>2. None \notin Row
        BY LedgerAssumption
      <4> QED BY <2>1, <3>2, <4>1, <4>2, UpdateWrites
    <3> QED BY <1>1, <2>1, <3>1, <3>2, StoredStays
  <2> QED BY <1>1, <2>1, StepKinds
<1> QED BY <1>1, Inductive, PTL DEF Spec, ForwardPointerKept

(***************************************************************************)
(* The graphs that reviews publish.  What a graph says is a set of facts;  *)
(* Explained(g, h, more) compares h with the graph g it comes of, object   *)
(* by object and link by link, and each assertion of a review, applied     *)
(* alone, explains what it adds by MaySay.  The two loops over assertions  *)
(* and corrections are recursive functions: that they have their values,   *)
(* and that what each round keeps holds at the end, is shown by the least  *)
(* counterexample.                                                         *)
(***************************************************************************)
(* What a graph says, object by object and link by link.                   *)
LinkFact(l) == <<"link", l.subject, l.predicate, l.object>>

LEMMA FactIn ==
    ASSUME NEW g, NEW f
    PROVE  f \in FactsOf(g) <=> \/ \E x \in DOMAIN g.objects : f \in FactsOn(x, g.objects[x])
                                \/ \E k \in DOMAIN g.links : f = LinkFact(g.links[k])
<1>1. f \in UNION {FactsOn(x, g.objects[x]) : x \in DOMAIN g.objects}
      <=> \E x \in DOMAIN g.objects : f \in FactsOn(x, g.objects[x])
    OBVIOUS
<1>2. f \in {<<"link", k.subject, k.predicate, k.object>> : k \in ToLinks(g)}
      <=> \E k \in DOMAIN g.links : f = LinkFact(g.links[k])
    BY DEF ToLinks, LinkFact
<1> QED BY <1>1, <1>2, Zenon DEF FactsOf

(* Of an object p that comes of o, all that o did not say is among more.   *)
Gains(x, o, p, more) ==
    /\ p.kind = o.kind \/ <<"kind", x, p.kind>> \in more
    /\ p.label = o.label \/ <<"label", x, p.label>> \in more
    /\ \A f \in p.aliases : f \in o.aliases \/ <<"alias", x, f.text.fold>> \in more
    /\ \A f \in p.summary : f \in o.summary \/ <<"summary", x, f.text>> \in more
    /\ \A f \in p.properties : f \in o.properties \/ <<"property", x, f.term, f.literal>> \in more
    /\ \A f \in p.aspects : f \in o.aspects
    /\ \A e \in p.evidence : e \in o.evidence \/ <<"support", x, e>> \in more

LEMMA GainsSay ==
    ASSUME NEW x, NEW o, NEW p, NEW more, Gains(x, o, p, more)
    PROVE  FactsOn(x, p) \subseteq FactsOn(x, o) \cup more
<1>1. {<<"alias", x, f.text.fold>> : f \in p.aliases}
      \subseteq {<<"alias", x, f.text.fold>> : f \in o.aliases} \cup more
    BY DEF Gains
<1>2. {<<"summary", x, f.text>> : f \in p.summary}
      \subseteq {<<"summary", x, f.text>> : f \in o.summary} \cup more
    BY DEF Gains
<1>3. {<<"property", x, f.term, f.literal>> : f \in p.properties}
      \subseteq {<<"property", x, f.term, f.literal>> : f \in o.properties} \cup more
    BY DEF Gains
<1>4. {<<"aspect", x, f.kind>> : f \in p.aspects} \subseteq {<<"aspect", x, f.kind>> : f \in o.aspects}
    BY DEF Gains
<1>5. {<<"support", x, e>> : e \in p.evidence}
      \subseteq {<<"support", x, e>> : e \in o.evidence} \cup more
    BY DEF Gains
<1>6. {<<"object", x>>, <<"kind", x, p.kind>>, <<"label", x, p.label>>}
      \subseteq {<<"object", x>>, <<"kind", x, o.kind>>, <<"label", x, o.label>>} \cup more
    BY DEF Gains
<1> HIDE DEF Gains
<1> QED BY <1>1, <1>2, <1>3, <1>4, <1>5, <1>6, Zenon DEF FactsOn

(* An object all of which is among more.                                   *)
Brings(x, p, more) ==
    /\ {<<"object", x>>, <<"kind", x, p.kind>>, <<"label", x, p.label>>} \subseteq more
    /\ \A f \in p.aliases : <<"alias", x, f.text.fold>> \in more
    /\ \A f \in p.summary : <<"summary", x, f.text>> \in more
    /\ p.properties = {} /\ p.aspects = {}
    /\ \A e \in p.evidence : <<"support", x, e>> \in more

LEMMA BringsSay ==
    ASSUME NEW x, NEW p, NEW more, Brings(x, p, more)
    PROVE  FactsOn(x, p) \subseteq more
<1>1. {<<"alias", x, f.text.fold>> : f \in p.aliases} \subseteq more
    BY DEF Brings
<1>2. {<<"summary", x, f.text>> : f \in p.summary} \subseteq more
    BY DEF Brings
<1>3. {<<"property", x, f.term, f.literal>> : f \in p.properties} = {}
    BY DEF Brings
<1>4. {<<"aspect", x, f.kind>> : f \in p.aspects} = {}
    BY DEF Brings
<1>5. {<<"support", x, e>> : e \in p.evidence} \subseteq more
    BY DEF Brings
<1>6. {<<"object", x>>, <<"kind", x, p.kind>>, <<"label", x, p.label>>} \subseteq more
    BY DEF Brings
<1> QED BY <1>1, <1>2, <1>3, <1>4, <1>5, <1>6, Zenon DEF FactsOn

(* A graph h that comes of g and says no more than it and more.            *)
Explained(g, h, more) ==
    /\ \A x \in DOMAIN h.objects :
         \/ x \in DOMAIN g.objects /\ Gains(x, g.objects[x], h.objects[x], more)
         \/ Brings(x, h.objects[x], more)
    /\ \A k \in DOMAIN h.links :
         \/ LinkFact(h.links[k]) \in more
         \/ k \in DOMAIN g.links /\ LinkFact(h.links[k]) = LinkFact(g.links[k])

LEMMA ExplainedSays ==
    ASSUME NEW g, NEW h, NEW more, Explained(g, h, more)
    PROVE  FactsOf(h) \subseteq FactsOf(g) \cup more
<1> SUFFICES ASSUME NEW f \in FactsOf(h) PROVE f \in FactsOf(g) \cup more
    OBVIOUS
<1>1. CASE \E x \in DOMAIN h.objects : f \in FactsOn(x, h.objects[x])
    <2>1. PICK x \in DOMAIN h.objects : f \in FactsOn(x, h.objects[x])
        BY <1>1
    <2>2. CASE x \in DOMAIN g.objects /\ Gains(x, g.objects[x], h.objects[x], more)
        <3>1. f \in FactsOn(x, g.objects[x]) \cup more
            BY <2>1, <2>2, GainsSay
        <3> QED BY <2>2, <3>1, FactIn
    <2>3. CASE Brings(x, h.objects[x], more)
        BY <2>1, <2>3, BringsSay
    <2> QED BY <2>2, <2>3 DEF Explained
<1>2. CASE \E k \in DOMAIN h.links : f = LinkFact(h.links[k])
    <2>1. PICK k \in DOMAIN h.links : f = LinkFact(h.links[k])
        BY <1>2
    <2> QED BY <2>1, FactIn DEF Explained
<1> QED BY <1>1, <1>2, FactIn

LEMMA GainsNothing == ASSUME NEW x, NEW o, NEW more PROVE Gains(x, o, o, more)
BY DEF Gains

(* One object is put in the place of another, and the rest is left.        *)
LEMMA ExplainedByObject ==
    ASSUME NEW g, NEW h, NEW x, NEW o, NEW more,
           h.objects = Put(g.objects, x, o), h.links = g.links,
           \/ x \in DOMAIN g.objects /\ Gains(x, g.objects[x], o, more)
           \/ Brings(x, o, more)
    PROVE  Explained(g, h, more)
BY GainsNothing DEF Explained, Put

-----------------------------------------------------------------------------
(* The assertions of version 2 and later, one by one.                      *)
EvidenceIds(s, a) == IdsIn(a.evidence) \cup {"evidence:" \o s.reviewed.id \o ":" \o a.subject}

LEMMA EvidenceGiven ==
    ASSUME NEW s, NEW a, \A e \in a.evidence : "id" \in DOMAIN e
    PROVE  IdsIn(AssertionEvidence(s, a, a.subject)) \subseteq EvidenceIds(s, a)
<1>1. CASE a.evidence # {}
    <2>1. IdsIn(Lifted(s.record.version, a)) = IdsIn(a.evidence)
        <3>1. CASE s.record.version = 2
            <4>1. \A e \in a.evidence :
                     [e EXCEPT !.key = SourceArtifacts[e.artifact].key].id = e.id
                OBVIOUS
            <4>2. Lifted(s.record.version, a)
                    = {[e EXCEPT !.key = SourceArtifacts[e.artifact].key] : e \in a.evidence}
                BY <3>1 DEF Lifted
            <4> DEFINE lifted == {[e EXCEPT !.key = SourceArtifacts[e.artifact].key] : e \in a.evidence}
            <4>3. \A f \in lifted : \E e \in a.evidence : f.id = e.id
                BY <4>1
            <4>4. \A e \in a.evidence : \E f \in lifted : f.id = e.id
                BY <4>1
            <4> HIDE DEF lifted
            <4>5. \A i : i \in {f.id : f \in lifted} <=> i \in {e.id : e \in a.evidence}
                BY <4>3, <4>4
            <4> QED BY <4>2, <4>5, Zenon DEF IdsIn, lifted
        <3>2. CASE s.record.version # 2
            BY <3>2 DEF Lifted
        <3> QED BY <3>1, <3>2
    <2> QED BY <1>1, <2>1 DEF AssertionEvidence, EvidenceIds
<1>2. CASE a.evidence = {}
    <2>1. Fallback(s.reviewed, a, a.subject).id = "evidence:" \o s.reviewed.id \o ":" \o a.subject
        BY DEF Fallback
    <2> QED BY <1>2, <2>1 DEF AssertionEvidence, EvidenceIds, IdsIn
<1> QED BY <1>1, <1>2

IsAssertion(a) ==
    /\ {"id", "state", "outcome"} \subseteq DOMAIN a
    /\ \A e \in a.evidence : "id" \in DOMAIN e

IsWorkspace(w) == IsGraph(w) /\ "ok" \in DOMAIN w

LEMMA SupportsMay ==
    ASSUME NEW s, s.reviewed.id = s.record.reviewed, NEW a, a.kind \in {"node", "alias"},
           NEW e \in EvidenceIds(s, a)
    PROVE  <<"support", a.subject, e>> \in MaySay(s, a)
<1>1. CASE e \in IdsIn(a.evidence)
    <2>1. <<"support", a.subject, e>> \in Supports(a)
        BY <1>1 DEF IdsIn, Supports
    <2> QED BY <2>1, Zenon DEF MaySay
<1>2. CASE e = "evidence:" \o s.reviewed.id \o ":" \o a.subject
    <2>1. <<"support", a.subject, e>>
           \in {<<"support", a.subject, "evidence:" \o s.record.reviewed \o ":" \o a.subject>>}
        BY <1>2
    <2> QED BY <2>1, Zenon DEF MaySay
<1> QED BY <1>1, <1>2 DEF EvidenceIds

LEMMA SaysMay == ASSUME NEW s, NEW a PROVE Says(a) \subseteq MaySay(s, a)
BY Zenon DEF MaySay

(* A node that is made, and one that is added to.                          *)
LEMMA NodeMay ==
    ASSUME NEW s, s.reviewed.id = s.record.reviewed, NEW a, a.kind = "node"
    PROVE  /\ <<"object", a.subject>> \in MaySay(s, a)
           /\ <<"kind", a.subject, a.dmKind>> \in MaySay(s, a)
           /\ <<"label", a.subject, LabelOf(a)>> \in MaySay(s, a)
           /\ <<"alias", a.subject, LabelOf(a).fold>> \in MaySay(s, a)
           /\ \A i \in DOMAIN a.aliases : <<"alias", a.subject, a.aliases[i].fold>> \in MaySay(s, a)
<1>1. {<<"kind", a.subject, a.dmKind>>, <<"label", a.subject, LabelOf(a)>>,
       <<"alias", a.subject, LabelOf(a).fold>>} \subseteq MaySay(s, a)
    BY Zenon DEF MaySay
<1>2. Says(a) = {<<"object", a.subject>>} \cup Supports(a)
           \cup {<<"alias", a.subject, a.aliases[i].fold>> : i \in DOMAIN a.aliases}
           \cup (IF a.outcome = "created_new"
                 THEN {<<"kind", a.subject, a.dmKind>>} ELSE {})
    BY DEF Says
<1>3. <<"object", a.subject>> \in Says(a)
    BY <1>2, Zenon
<1>4. \A i \in DOMAIN a.aliases : <<"alias", a.subject, a.aliases[i].fold>> \in Says(a)
    BY <1>2, Zenon
<1> QED BY <1>1, <1>3, <1>4, SaysMay, Zenon

LEMMA FirstTextsAre ==
    ASSUME NEW texts, NEW t \in FirstTexts(texts)
    PROVE  \E i \in DOMAIN texts : t = texts[i]
BY DEF FirstTexts

LEMMA ApplyNodeMay ==
    ASSUME NEW s, s.reviewed.id = s.record.reviewed, NEW w, IsWorkspace(w),
           NEW a, IsAssertion(a), a.kind = "node"
    PROVE  IsWorkspace(ApplyNode(s, w, a)) /\ Explained(w, ApplyNode(s, w, a), MaySay(s, a))
<1> DEFINE u == ApplyNode(s, w, a)
           x == a.subject
           records == AssertionEvidence(s, a, x)
           ids == IdsIn(records)
           o == IF x \in DOMAIN w.objects THEN MergeNode(w.objects[x], a, ids) ELSE NodeV6(a, ids)
           reg == Register(w, records)
<1>1. \A e \in ids : <<"support", x, e>> \in MaySay(s, a)
    BY EvidenceGiven, SupportsMay DEF IsAssertion
<1>2. u = Fail(w) \/ u = [reg EXCEPT !.objects = Put(@, x, o)]
    <2>1. reg.objects = w.objects
        BY DEF Register, IsWorkspace, IsGraph, Fields
    <2>2. \/ u = Fail(w)
          \/ u = [reg EXCEPT !.objects = Put(reg.objects, x,
                    IF x \in DOMAIN w.objects THEN MergeNode(reg.objects[x], a, ids) ELSE NodeV6(a, ids))]
        BY DEF ApplyNode
    <2> QED BY <2>1, <2>2
<1>3. x \in DOMAIN w.objects =>
        Gains(x, w.objects[x], o, MaySay(s, a)) /\ DOMAIN o = DOMAIN w.objects[x]
    <2> SUFFICES ASSUME x \in DOMAIN w.objects
                 PROVE  Gains(x, w.objects[x], o, MaySay(s, a)) /\ DOMAIN o = DOMAIN w.objects[x]
        OBVIOUS
    <2> DEFINE q == w.objects[x]
               new == NewAliases(a, {t \in FirstTexts(a.aliases) : t.fold \notin Folds(q)}, ids)
    <2>1. o = [q EXCEPT !.aliases = @ \cup new, !.evidence = @ \cup ids]
        BY DEF MergeNode
    <2>2. Fields \subseteq DOMAIN q
        BY DEF IsWorkspace, IsGraph, Fields
    <2>3. \A f \in new : <<"alias", x, f.text.fold>> \in MaySay(s, a)
        <3>1. \A t \in FirstTexts(a.aliases) : <<"alias", x, t.fold>> \in MaySay(s, a)
            BY FirstTextsAre, NodeMay
        <3> QED BY <3>1 DEF NewAliases
    <2> HIDE DEF new, q, ids
    <2>4. /\ o.kind = q.kind /\ o.label = q.label /\ o.summary = q.summary
          /\ o.properties = q.properties /\ o.aspects = q.aspects
          /\ o.aliases = q.aliases \cup new /\ o.evidence = q.evidence \cup ids
          /\ DOMAIN o = DOMAIN q
        BY <2>1, <2>2 DEF Fields
    <2>5. Gains(x, q, o, MaySay(s, a))
        BY <1>1, <2>3, <2>4 DEF Gains
    <2> QED BY <2>4, <2>5 DEF q
<1>4. x \notin DOMAIN w.objects => Brings(x, o, MaySay(s, a))
    <2> SUFFICES ASSUME x \notin DOMAIN w.objects PROVE Brings(x, o, MaySay(s, a))
        OBVIOUS
    <2>1. o = NodeV6(a, ids)
        OBVIOUS
    <2> DEFINE new == NewAliases(a, FirstTexts(IF a.aliases = <<>> THEN <<LabelOf(a)>> ELSE a.aliases), ids)
    <2>2. /\ o.kind = a.dmKind /\ o.label = LabelOf(a) /\ o.evidence = ids /\ o.aliases = new
          /\ o.summary = {} /\ o.properties = {} /\ o.aspects = {}
        BY <2>1 DEF NodeV6
    <2>3. \A f \in new : <<"alias", x, f.text.fold>> \in MaySay(s, a)
        <3>1. CASE a.aliases = <<>>
            <4>1. \A t \in FirstTexts(<<LabelOf(a)>>) : t = LabelOf(a)
                BY FirstTextsAre
            <4>2. <<"alias", x, LabelOf(a).fold>> \in MaySay(s, a)
                BY NodeMay
            <4> QED BY <3>1, <4>1, <4>2 DEF NewAliases
        <3>2. CASE a.aliases # <<>>
            <4>1. \A t \in FirstTexts(a.aliases) : <<"alias", x, t.fold>> \in MaySay(s, a)
                BY FirstTextsAre, NodeMay
            <4> QED BY <3>2, <4>1 DEF NewAliases
        <3> QED BY <3>1, <3>2
    <2> HIDE DEF new, ids, o
    <2> QED BY <1>1, <2>2, <2>3, NodeMay DEF Brings
<1>5. x \notin DOMAIN w.objects =>
        Fields \subseteq DOMAIN o
    BY DEF NodeV6, Fields
<1> HIDE DEF o, ids, u
<1>6. CASE u = Fail(w)
    <2>1. u.objects = w.objects /\ u.links = w.links /\ DOMAIN u = DOMAIN w
        BY <1>6 DEF Fail, IsWorkspace, IsGraph, Fields
    <2> QED BY <2>1, GainsNothing DEF Explained, IsWorkspace, IsGraph, Fields, u
<1>7. CASE u = [reg EXCEPT !.objects = Put(@, x, o)]
    <2>1. u.objects = Put(w.objects, x, o) /\ u.links = w.links /\ DOMAIN u = DOMAIN w
        BY <1>7 DEF Register, IsWorkspace, IsGraph, Fields
    <2>2. Explained(w, u, MaySay(s, a))
        BY <1>3, <1>4, <2>1, ExplainedByObject
    <2>3. IsWorkspace(u)
        BY <1>3, <1>5, <2>1 DEF IsWorkspace, IsGraph, Fields, Put
    <2> QED BY <2>2, <2>3 DEF u
<1> QED BY <1>2, <1>6, <1>7

(* Steps that change nothing of what a graph says.                         *)
LEMMA NothingSaid ==
    ASSUME NEW w, IsWorkspace(w), NEW u, NEW more,
           u.objects = w.objects, u.links = w.links, DOMAIN u = DOMAIN w
    PROVE  IsWorkspace(u) /\ Explained(w, u, more)
BY GainsNothing DEF Explained, IsWorkspace, IsGraph, Fields

LEMMA FailKeeps ==
    ASSUME NEW w, IsWorkspace(w)
    PROVE  LET u == Fail(w) IN u.objects = w.objects /\ u.links = w.links /\ DOMAIN u = DOMAIN w
BY DEF Fail, IsWorkspace, IsGraph, Fields

LEMMA RegisterKeeps ==
    ASSUME NEW w, IsWorkspace(w), NEW records
    PROVE  LET u == Register(w, records) IN
           u.objects = w.objects /\ u.links = w.links /\ DOMAIN u = DOMAIN w
BY DEF Register, IsWorkspace, IsGraph, Fields

LEMMA ApplyEdgeMay ==
    ASSUME NEW s, NEW w, IsWorkspace(w), NEW a, a.kind = "edge"
    PROVE  IsWorkspace(ApplyEdge(s, w, a)) /\ Explained(w, ApplyEdge(s, w, a), MaySay(s, a))
<1> DEFINE u == ApplyEdge(s, w, a)
           k == EdgeId(a)
           records == AssertionEvidence(s, a, k)
           new == LinkV6(a, IdsIn(records))
           reg == Register(w, records)
<1>1. LinkFact(new) \in MaySay(s, a)
    <2>1. Says(a) = {<<"link", a.subject, a.dmPredicate, a.object>>}
        BY DEF Says
    <2>2. LinkFact(new) = <<"link", a.subject, a.dmPredicate, a.object>>
        BY DEF LinkV6, LinkFact
    <2> QED BY <2>1, <2>2, SaysMay
<1>2. \/ u = Fail(w)
      \/ u = [reg EXCEPT !.links = IF k \in DOMAIN reg.links THEN reg.links ELSE Put(reg.links, k, new)]
    BY DEF ApplyEdge
<1> HIDE DEF u, new, k, records
<1>3. CASE u = Fail(w)
    BY <1>3, FailKeeps, NothingSaid DEF u
<1>4. CASE u = [reg EXCEPT !.links = IF k \in DOMAIN reg.links THEN reg.links ELSE Put(reg.links, k, new)]
    <2>0. reg.objects = w.objects /\ reg.links = w.links /\ DOMAIN reg = DOMAIN w
        BY RegisterKeeps
    <2>1. /\ u.objects = w.objects /\ DOMAIN u = DOMAIN w
          /\ u.links = IF k \in DOMAIN w.links THEN w.links ELSE Put(w.links, k, new)
        BY <1>4, <2>0 DEF IsWorkspace, IsGraph, Fields
    <2>2. IsWorkspace(u)
        BY <2>1 DEF IsWorkspace, IsGraph, Fields
    <2>3. \A i \in DOMAIN u.links :
             \/ LinkFact(u.links[i]) \in MaySay(s, a)
             \/ i \in DOMAIN w.links /\ LinkFact(u.links[i]) = LinkFact(w.links[i])
        <3>1. CASE k \in DOMAIN w.links
            BY <2>1, <3>1
        <3>2. CASE k \notin DOMAIN w.links
            <4>1. \A i \in DOMAIN u.links : i \in DOMAIN w.links \cup {k}
                                             /\ u.links[i] = IF i = k THEN new ELSE w.links[i]
                BY <2>1, <3>2 DEF Put
            <4>2. ASSUME NEW i \in DOMAIN u.links
                  PROVE  \/ LinkFact(u.links[i]) \in MaySay(s, a)
                         \/ i \in DOMAIN w.links /\ LinkFact(u.links[i]) = LinkFact(w.links[i])
                <5>1. CASE i = k
                    <6>1. u.links[i] = new
                        BY <4>1, <5>1
                    <6> QED BY <1>1, <6>1
                <5>2. CASE i # k
                    <6>1. u.links[i] = w.links[i] /\ i \in DOMAIN w.links
                        BY <4>1, <5>2
                    <6> QED BY <6>1
                <5> QED BY <5>1, <5>2
            <4> QED BY <4>2
        <3> QED BY <3>1, <3>2
    <2>4. Explained(w, u, MaySay(s, a))
        BY <2>1, <2>3, GainsNothing DEF Explained
    <2> QED BY <2>2, <2>4 DEF u
<1> QED BY <1>2, <1>3, <1>4

(* An object gains facts of one kind.                                      *)
LEMMA ObjectGains ==
    ASSUME NEW w, IsWorkspace(w), NEW u, NEW more, NEW x \in DOMAIN w.objects, NEW o,
           u.objects = [w.objects EXCEPT ![x] = o], u.links = w.links, DOMAIN u = DOMAIN w,
           Gains(x, w.objects[x], o, more), DOMAIN o = DOMAIN w.objects[x]
    PROVE  IsWorkspace(u) /\ Explained(w, u, more)
<1>1. IsWorkspace(u)
    BY DEF IsWorkspace, IsGraph, Fields
<1>2. Explained(w, u, more)
    BY GainsNothing DEF Explained
<1> QED BY <1>1, <1>2

LEMMA ApplyAliasMay ==
    ASSUME NEW s, s.reviewed.id = s.record.reviewed, NEW w, IsWorkspace(w),
           NEW a, IsAssertion(a), a.kind = "alias"
    PROVE  IsWorkspace(ApplyAlias(s, w, a)) /\ Explained(w, ApplyAlias(s, w, a), MaySay(s, a))
<1> DEFINE u == ApplyAlias(s, w, a)
           x == a.subject
           records == AssertionEvidence(s, a, x)
           ids == IdsIn(records)
           reg == Register(w, records)
           f == [id |-> <<a.id>>, text |-> a.text, evidence |-> ids]
           q == w.objects[x]
           o == [q EXCEPT !.aliases = @ \cup {f}, !.evidence = @ \cup ids]
<1>1. \A e \in ids : <<"support", x, e>> \in MaySay(s, a)
    BY EvidenceGiven, SupportsMay DEF IsAssertion
<1>2. <<"alias", x, f.text.fold>> \in MaySay(s, a)
    <2>1. Says(a) = {<<"alias", a.subject, a.text.fold>>}
        BY DEF Says
    <2> QED BY <2>1, SaysMay
<1>3. \/ u = Fail(w) \/ u = w
      \/ /\ x \in DOMAIN w.objects
         /\ u = [reg EXCEPT !.objects[x].aliases = @ \cup {f}, !.objects[x].evidence = @ \cup ids]
    BY DEF ApplyAlias
<1> HIDE DEF u, ids, records, f
<1>4. CASE u = Fail(w)
    BY <1>4, FailKeeps, NothingSaid DEF u
<1>5. CASE u = w
    BY <1>5, NothingSaid DEF u
<1>6. CASE /\ x \in DOMAIN w.objects
           /\ u = [reg EXCEPT !.objects[x].aliases = @ \cup {f}, !.objects[x].evidence = @ \cup ids]
    <2>0. reg.objects = w.objects /\ reg.links = w.links /\ DOMAIN reg = DOMAIN w
        BY RegisterKeeps
    <2>1. Fields \subseteq DOMAIN q
        BY <1>6 DEF IsWorkspace, IsGraph, Fields
    <2>2. /\ u.links = w.links /\ DOMAIN u = DOMAIN w
          /\ u.objects = [w.objects EXCEPT ![x] = o]
        BY <1>6, <2>0, <2>1 DEF IsWorkspace, IsGraph, Fields
    <2>3. /\ o.kind = q.kind /\ o.label = q.label /\ o.summary = q.summary
          /\ o.properties = q.properties /\ o.aspects = q.aspects
          /\ o.aliases = q.aliases \cup {f} /\ o.evidence = q.evidence \cup ids
          /\ DOMAIN o = DOMAIN q
        BY <2>1
    <2> HIDE DEF o
    <2>4. Gains(x, q, o, MaySay(s, a))
        BY <1>1, <1>2, <2>3 DEF Gains
    <2> QED BY <1>6, <2>2, <2>3, <2>4, ObjectGains DEF u
<1> QED BY <1>3, <1>4, <1>5, <1>6

LEMMA ApplyPropertyMay ==
    ASSUME NEW s, NEW w, IsWorkspace(w), NEW a, a.kind = "property"
    PROVE  IsWorkspace(ApplyProperty(s, w, a)) /\ Explained(w, ApplyProperty(s, w, a), MaySay(s, a))
<1> DEFINE u == ApplyProperty(s, w, a)
           x == a.subject
           records == AssertionEvidence(s, a, x)
           reg == Register(w, records)
           f == PropertyV4(a, IdsIn(records))
           q == w.objects[x]
           o == [q EXCEPT !.properties = @ \cup {f}]
<1>1. <<"property", x, f.term, f.literal>> \in MaySay(s, a)
    <2>1. Says(a) = {<<"property", a.subject, a.term, a.literal>>}
        BY DEF Says
    <2>2. f.term = a.term /\ f.literal = a.literal
        BY DEF PropertyV4
    <2> QED BY <2>1, <2>2, SaysMay
<1>2. \/ u = Fail(w)
      \/ x \in DOMAIN w.objects /\ u = [reg EXCEPT !.objects[x].properties = @ \cup {f}]
    BY DEF ApplyProperty
<1> HIDE DEF u, records, f
<1>3. CASE u = Fail(w)
    BY <1>3, FailKeeps, NothingSaid DEF u
<1>4. CASE x \in DOMAIN w.objects /\ u = [reg EXCEPT !.objects[x].properties = @ \cup {f}]
    <2>0. reg.objects = w.objects /\ reg.links = w.links /\ DOMAIN reg = DOMAIN w
        BY RegisterKeeps
    <2>1. Fields \subseteq DOMAIN q
        BY <1>4 DEF IsWorkspace, IsGraph, Fields
    <2>2. /\ u.links = w.links /\ DOMAIN u = DOMAIN w
          /\ u.objects = [w.objects EXCEPT ![x] = o]
        BY <1>4, <2>0, <2>1 DEF IsWorkspace, IsGraph, Fields
    <2>3. /\ o.kind = q.kind /\ o.label = q.label /\ o.summary = q.summary
          /\ o.aliases = q.aliases /\ o.aspects = q.aspects
          /\ o.properties = q.properties \cup {f} /\ o.evidence = q.evidence
          /\ DOMAIN o = DOMAIN q
        BY <2>1
    <2> HIDE DEF o
    <2>4. Gains(x, q, o, MaySay(s, a))
        BY <1>1, <2>3 DEF Gains
    <2> QED BY <1>4, <2>2, <2>3, <2>4, ObjectGains DEF u
<1> QED BY <1>2, <1>3, <1>4

LEMMA ApplyMay ==
    ASSUME NEW s, s.reviewed.id = s.record.reviewed, NEW w, IsWorkspace(w),
           NEW a, IsAssertion(a), a.kind \in ReviewableKinds(4)
    PROVE  IsWorkspace(Apply(s, w, a)) /\ Explained(w, Apply(s, w, a), MaySay(s, a))
<1>1. CASE a.kind = "node"
    BY <1>1, ApplyNodeMay DEF Apply
<1>2. CASE a.kind = "edge"
    BY <1>2, ApplyEdgeMay DEF Apply
<1>3. CASE a.kind = "alias"
    BY <1>3, ApplyAliasMay DEF Apply
<1>4. CASE a.kind \in {"attribute", "evidence_ref"}
    <2>1. Apply(s, w, a) = ApplyEvidenceOnly(s, w, a)
        BY <1>4 DEF Apply
    <2>2. \/ ApplyEvidenceOnly(s, w, a) = Fail(w)
          \/ \E records : ApplyEvidenceOnly(s, w, a) = Register(w, records)
        BY DEF ApplyEvidenceOnly
    <2> QED BY <2>1, <2>2, FailKeeps, RegisterKeeps, NothingSaid
<1>5. CASE a.kind = "property"
    BY <1>5, ApplyPropertyMay DEF Apply
<1> QED BY <1>1, <1>2, <1>3, <1>4, <1>5 DEF ReviewableKinds

-----------------------------------------------------------------------------
(* Corrections say nothing.                                                *)
LEMMA CorrectionSays ==
    ASSUME NEW w, IsWorkspace(w), NEW x, NEW proof, NEW more
    PROVE  LET u == ApplyCorrection(w, x, proof) IN IsWorkspace(u) /\ Explained(w, u, more)
<1> DEFINE u == ApplyCorrection(w, x, proof)
           linked == {k \in DOMAIN w.links : w.links[k].id = x.target}
           left == [w EXCEPT !.objects = [y \in DOMAIN @ |-> Corrected(@[y], x.target)],
                             !.links = Without(@, linked)]
<1>1. u = w \/ u = Fail(w) \/ u = left
    BY DEF ApplyCorrection
<1>2. CASE u = w
    BY <1>2, NothingSaid
<1>3. CASE u = Fail(w)
    BY <1>3, FailKeeps, NothingSaid
<1>4. CASE u = left
    <2>1. /\ left.objects = [y \in DOMAIN w.objects |-> Corrected(w.objects[y], x.target)]
          /\ left.links = Without(w.links, linked) /\ DOMAIN left = DOMAIN w
        BY DEF IsWorkspace, IsGraph, Fields
    <2>2. ASSUME NEW y \in DOMAIN w.objects
          PROVE  LET o == w.objects[y]
                     p == Corrected(o, x.target) IN
                 Gains(y, o, p, more) /\ DOMAIN p = DOMAIN o
        <3> DEFINE o == w.objects[y]
                   p == Corrected(o, x.target)
        <3>1. Fields \subseteq DOMAIN o
            BY DEF IsWorkspace, IsGraph, Fields
        <3>2. /\ p.kind = o.kind /\ p.label = o.label /\ p.evidence = o.evidence
              /\ p.aliases \subseteq o.aliases /\ p.summary \subseteq o.summary
              /\ p.properties \subseteq o.properties /\ p.aspects \subseteq o.aspects
              /\ DOMAIN p = DOMAIN o
            BY <3>1 DEF Corrected
        <3> HIDE DEF p
        <3> QED BY <3>2 DEF Gains, p
    <2>3. IsWorkspace(left)
        BY <2>1, <2>2 DEF IsWorkspace, IsGraph, Fields
    <2>4. \A k \in DOMAIN left.links : k \in DOMAIN w.links /\ left.links[k] = w.links[k]
        BY <2>1 DEF Without
    <2>5. Explained(w, left, more)
        BY <2>1, <2>2, <2>4 DEF Explained
    <2> QED BY <1>4, <2>3, <2>5
<1> QED BY <1>1, <1>2, <1>3, <1>4

-----------------------------------------------------------------------------
(* The two loops.  A recursive function has its value, and what each of    *)
(* its steps keeps holds of all of them, by the least counterexample.      *)
LEMMA LeastNumber ==
    ASSUME NEW S, S \subseteq Nat, S # {}
    PROVE  \E n \in S : \A m \in S : n <= m
<1> DEFINE R == {ss \in Nat \X Nat : ss[1] < ss[2]}
<1>1. R = OpToRel(<, Nat)
    BY DEF OpToRel
<1>2. IsWellFoundedOn(R, Nat)
    BY NatLessThanWellFounded, <1>1
<1>3. PICK n \in S : \A m \in S : <<m, n>> \notin R
    BY <1>2, WFMin
<1>4. ASSUME NEW m \in S PROVE n <= m
    <2>1. m \in Nat /\ n \in Nat
        OBVIOUS
    <2>2. <<m, n>> \in R <=> m < n
        BY <2>1
    <2> QED BY <2>1, <2>2, <1>3
<1> QED BY <1>4

(* The assertion n of a review, if it is taken.                             *)
ThenApply(s, u, n, taken) ==
    IF s.reviewed.assertions[n] \in taken
    THEN IF u.ok THEN Apply(s, u, s.reviewed.assertions[n]) ELSE u
    ELSE u

AreApplied(f, k, s, w, taken) ==
    f = [n \in 0..k |-> IF n = 0 THEN w ELSE ThenApply(s, f[n - 1], n, taken)]

LEMMA AppliedExists ==
    ASSUME NEW k \in Nat, NEW s, NEW w, NEW taken
    PROVE  \E f : AreApplied(f, k, s, w, taken)
<1> DEFINE Missing == {n \in Nat : ~\E f : AreApplied(f, n, s, w, taken)}
<1> SUFFICES ASSUME Missing # {} PROVE FALSE
    OBVIOUS
<1>1. PICK n \in Missing : \A m \in Missing : n <= m
    <2>1. Missing \subseteq Nat
        OBVIOUS
    <2> HIDE DEF Missing
    <2> QED BY <2>1, LeastNumber
<1>2. n # 0
    <2> DEFINE f == [m \in 0..0 |-> w]
    <2>1. f = [m \in 0..0 |-> IF m = 0 THEN w ELSE ThenApply(s, f[m - 1], m, taken)]
        <3>1. 0..0 = {0}
            OBVIOUS
        <3> QED BY <3>1
    <2> HIDE DEF f
    <2>2. AreApplied(f, 0, s, w, taken)
        BY <2>1 DEF AreApplied
    <2> QED BY <2>2
<1>3. n - 1 \in Nat /\ n - 1 \notin Missing
    <2>1. n \in Nat
        OBVIOUS
    <2>2. n - 1 \in Nat /\ ~(n <= n - 1)
        BY <2>1, <1>2
    <2> HIDE DEF Missing
    <2> QED BY <2>2, <1>1
<1>4. PICK f : AreApplied(f, n - 1, s, w, taken)
    BY <1>3
<1> DEFINE longer == [m \in 0..n |-> IF m = n THEN ThenApply(s, f[n - 1], n, taken) ELSE f[m]]
<1>5. longer = [m \in 0..n |-> IF m = 0 THEN w ELSE ThenApply(s, longer[m - 1], m, taken)]
    <2>1. n \in Nat /\ n # 0
        BY <1>2
    <2>2. f = [m \in 0..(n - 1) |-> IF m = 0 THEN w ELSE ThenApply(s, f[m - 1], m, taken)]
        BY <1>4 DEF AreApplied
    <2>3. ASSUME NEW m \in 0..n
          PROVE  longer[m] = IF m = 0 THEN w ELSE ThenApply(s, longer[m - 1], m, taken)
        <3>1. CASE m = n
            <4>1. longer[m] = ThenApply(s, f[n - 1], n, taken) /\ longer[m - 1] = f[n - 1]
                BY <2>1, <3>1
            <4> QED BY <4>1, <2>1, <3>1
        <3>2. CASE m # n
            <4>1. m \in 0..(n - 1)
                BY <2>1, <3>2
            <4>2. longer[m] = f[m] /\ (m # 0 => longer[m - 1] = f[m - 1])
                BY <2>1, <4>1
            <4>3. f[m] = IF m = 0 THEN w ELSE ThenApply(s, f[m - 1], m, taken)
                BY <2>2, <4>1
            <4> QED BY <4>2, <4>3
        <3> QED BY <3>1, <3>2
    <2>4. longer = [m \in 0..n |-> longer[m]]
        OBVIOUS
    <2> HIDE DEF longer
    <2> QED BY <2>3, <2>4
<1> HIDE DEF longer
<1>6. AreApplied(longer, n, s, w, taken)
    BY <1>5 DEF AreApplied
<1> QED BY <1>6

LEMMA AppliedIs ==
    ASSUME NEW s, IsSequence(s.reviewed.assertions), NEW w, NEW taken
    PROVE  \E f : /\ ApplyAll(s, w, taken) = f[Len(s.reviewed.assertions)]
                  /\ f[0] = w
                  /\ \A n \in 1..Len(s.reviewed.assertions) : f[n] = ThenApply(s, f[n - 1], n, taken)
<1> DEFINE f == CHOOSE f : AreApplied(f, Len(s.reviewed.assertions), s, w, taken)
<1>0. Len(s.reviewed.assertions) \in Nat
    BY DEF IsSequence
<1>1. AreApplied(f, Len(s.reviewed.assertions), s, w, taken)
    BY <1>0, AppliedExists
<1>2. ApplyAll(s, w, taken) = f[Len(s.reviewed.assertions)]
    BY DEF ApplyAll, AreApplied, ThenApply
<1> HIDE DEF f
<1>3. f = [m \in 0..Len(s.reviewed.assertions) |-> IF m = 0 THEN w ELSE ThenApply(s, f[m - 1], m, taken)]
    BY <1>1 DEF AreApplied
<1> DEFINE k == Len(s.reviewed.assertions)
<1>4. f[0] = w
    <2>1. 0 \in 0..k
        BY <1>0
    <2> HIDE DEF k
    <2>2. f = [m \in 0..k |-> IF m = 0 THEN w ELSE ThenApply(s, f[m - 1], m, taken)]
        BY <1>3 DEF k
    <2> QED BY <2>1, <2>2
<1>5. ASSUME NEW n \in 1..k PROVE f[n] = ThenApply(s, f[n - 1], n, taken)
    <2>1. n \in 0..k /\ n # 0
        BY <1>0
    <2> HIDE DEF k
    <2>2. f = [m \in 0..k |-> IF m = 0 THEN w ELSE ThenApply(s, f[m - 1], m, taken)]
        BY <1>3 DEF k
    <2> QED BY <2>1, <2>2
<1> QED BY <1>2, <1>4, <1>5

(* Its correction n.                                                        *)
ThenCorrect(s, u, n, proof) ==
    IF u.ok THEN ApplyCorrection(u, s.reviewed.corrections[n], proof) ELSE u

AreCorrected(f, k, s, w, proof) ==
    f = [n \in 0..k |-> IF n = 0 THEN w ELSE ThenCorrect(s, f[n - 1], n, proof)]

LEMMA CorrectedExists ==
    ASSUME NEW k \in Nat, NEW s, NEW w, NEW proof
    PROVE  \E f : AreCorrected(f, k, s, w, proof)
<1> DEFINE Missing == {n \in Nat : ~\E f : AreCorrected(f, n, s, w, proof)}
<1> SUFFICES ASSUME Missing # {} PROVE FALSE
    OBVIOUS
<1>1. PICK n \in Missing : \A m \in Missing : n <= m
    <2>1. Missing \subseteq Nat
        OBVIOUS
    <2> HIDE DEF Missing
    <2> QED BY <2>1, LeastNumber
<1>2. n # 0
    <2> DEFINE f == [m \in 0..0 |-> w]
    <2>1. f = [m \in 0..0 |-> IF m = 0 THEN w ELSE ThenCorrect(s, f[m - 1], m, proof)]
        <3>1. 0..0 = {0}
            OBVIOUS
        <3> QED BY <3>1
    <2> HIDE DEF f
    <2>2. AreCorrected(f, 0, s, w, proof)
        BY <2>1 DEF AreCorrected
    <2> QED BY <2>2
<1>3. n - 1 \in Nat /\ n - 1 \notin Missing
    <2>1. n \in Nat
        OBVIOUS
    <2>2. n - 1 \in Nat /\ ~(n <= n - 1)
        BY <2>1, <1>2
    <2> HIDE DEF Missing
    <2> QED BY <2>2, <1>1
<1>4. PICK f : AreCorrected(f, n - 1, s, w, proof)
    BY <1>3
<1> DEFINE longer == [m \in 0..n |-> IF m = n THEN ThenCorrect(s, f[n - 1], n, proof) ELSE f[m]]
<1>5. longer = [m \in 0..n |-> IF m = 0 THEN w ELSE ThenCorrect(s, longer[m - 1], m, proof)]
    <2>1. n \in Nat /\ n # 0
        BY <1>2
    <2>2. f = [m \in 0..(n - 1) |-> IF m = 0 THEN w ELSE ThenCorrect(s, f[m - 1], m, proof)]
        BY <1>4 DEF AreCorrected
    <2>3. ASSUME NEW m \in 0..n
          PROVE  longer[m] = IF m = 0 THEN w ELSE ThenCorrect(s, longer[m - 1], m, proof)
        <3>1. CASE m = n
            <4>1. longer[m] = ThenCorrect(s, f[n - 1], n, proof) /\ longer[m - 1] = f[n - 1]
                BY <2>1, <3>1
            <4> QED BY <4>1, <2>1, <3>1
        <3>2. CASE m # n
            <4>1. m \in 0..(n - 1)
                BY <2>1, <3>2
            <4>2. longer[m] = f[m] /\ (m # 0 => longer[m - 1] = f[m - 1])
                BY <2>1, <4>1
            <4>3. f[m] = IF m = 0 THEN w ELSE ThenCorrect(s, f[m - 1], m, proof)
                BY <2>2, <4>1
            <4> QED BY <4>2, <4>3
        <3> QED BY <3>1, <3>2
    <2>4. longer = [m \in 0..n |-> longer[m]]
        OBVIOUS
    <2> HIDE DEF longer
    <2> QED BY <2>3, <2>4
<1> HIDE DEF longer
<1>6. AreCorrected(longer, n, s, w, proof)
    BY <1>5 DEF AreCorrected
<1> QED BY <1>6

LEMMA CorrectedIs ==
    ASSUME NEW s, IsSequence(s.reviewed.corrections), NEW w, NEW proof
    PROVE  \E f : /\ ApplyCorrections(s, w, proof) = f[Len(s.reviewed.corrections)]
                  /\ f[0] = w
                  /\ \A n \in 1..Len(s.reviewed.corrections) : f[n] = ThenCorrect(s, f[n - 1], n, proof)
<1> DEFINE f == CHOOSE f : AreCorrected(f, Len(s.reviewed.corrections), s, w, proof)
<1>0. Len(s.reviewed.corrections) \in Nat
    BY DEF IsSequence
<1>1. AreCorrected(f, Len(s.reviewed.corrections), s, w, proof)
    BY <1>0, CorrectedExists
<1>2. ApplyCorrections(s, w, proof) = f[Len(s.reviewed.corrections)]
    BY DEF ApplyCorrections, AreCorrected, ThenCorrect
<1> HIDE DEF f
<1>3. f = [m \in 0..Len(s.reviewed.corrections) |-> IF m = 0 THEN w ELSE ThenCorrect(s, f[m - 1], m, proof)]
    BY <1>1 DEF AreCorrected
<1> DEFINE k == Len(s.reviewed.corrections)
<1>4. f[0] = w
    <2>1. 0 \in 0..k
        BY <1>0
    <2> HIDE DEF k
    <2>2. f = [m \in 0..k |-> IF m = 0 THEN w ELSE ThenCorrect(s, f[m - 1], m, proof)]
        BY <1>3 DEF k
    <2> QED BY <2>1, <2>2
<1>5. ASSUME NEW n \in 1..k PROVE f[n] = ThenCorrect(s, f[n - 1], n, proof)
    <2>1. n \in 0..k /\ n # 0
        BY <1>0
    <2> HIDE DEF k
    <2>2. f = [m \in 0..k |-> IF m = 0 THEN w ELSE ThenCorrect(s, f[m - 1], m, proof)]
        BY <1>3 DEF k
    <2> QED BY <2>1, <2>2
<1> QED BY <1>2, <1>4, <1>5

(* What a step explains, all of them explain.                              *)
Within(g, h, more) == IsWorkspace(h) /\ FactsOf(h) \subseteq FactsOf(g) \cup more

LEMMA ApplyAllSays ==
    ASSUME NEW s, s.reviewed.id = s.record.reviewed, IsReviewed(s.reviewed),
           NEW taken, taken \subseteq AssertionsOf(s.reviewed),
           \A a \in taken : a.kind \in ReviewableKinds(4),
           NEW more, \A a \in taken : MaySay(s, a) \subseteq more,
           NEW g, NEW w, Within(g, w, more)
    PROVE  Within(g, ApplyAll(s, w, taken), more)
<1>0. IsSequence(s.reviewed.assertions) /\ \A a \in taken : IsAssertion(a)
    BY DEF IsReviewed, IsAssertion
<1> DEFINE k == Len(s.reviewed.assertions)
<1>1. PICK f : /\ ApplyAll(s, w, taken) = f[k]
               /\ f[0] = w
               /\ \A n \in 1..k : f[n] = ThenApply(s, f[n - 1], n, taken)
    BY <1>0, AppliedIs
<1>2. k \in Nat
    BY <1>0 DEF IsSequence
<1> HIDE DEF k
<1> DEFINE Bad == {n \in 0..k : ~Within(g, f[n], more)}
<1> SUFFICES ASSUME Bad # {} PROVE FALSE
    BY <1>1, <1>2
<1>3. PICK n \in Bad : \A m \in Bad : n <= m
    <2>1. Bad \subseteq Nat
        BY <1>2
    <2> HIDE DEF Bad
    <2> QED BY <2>1, LeastNumber
<1>4. n \in 1..k
    <2>1. n # 0
        BY <1>1
    <2> QED BY <1>2, <2>1
<1>5. Within(g, f[n - 1], more)
    <2>1. ~(n <= n - 1) /\ n - 1 \in 0..k
        BY <1>2, <1>4
    <2>2. n - 1 \notin Bad
        <3> HIDE DEF Bad
        <3> QED BY <2>1, <1>3
    <2> QED BY <2>1, <2>2
<1> DEFINE a == s.reviewed.assertions[n]
<1>6. CASE f[n] = f[n - 1]
    BY <1>5, <1>6
<1>7. CASE a \in taken /\ f[n] = Apply(s, f[n - 1], a)
    <2>1. IsWorkspace(f[n]) /\ Explained(f[n - 1], f[n], MaySay(s, a))
        BY <1>0, <1>5, <1>7, ApplyMay DEF Within
    <2>2. FactsOf(f[n]) \subseteq FactsOf(f[n - 1]) \cup MaySay(s, a)
        BY <2>1, ExplainedSays
    <2>3. MaySay(s, a) \subseteq more
        BY <1>7
    <2>4. Within(g, f[n], more)
        BY <1>5, <2>1, <2>2, <2>3 DEF Within
    <2> QED BY <2>4
<1> QED BY <1>1, <1>4, <1>6, <1>7 DEF ThenApply

LEMMA CorrectionsSay ==
    ASSUME NEW s, IsReviewed(s.reviewed), NEW proof, NEW more, NEW g, NEW w, Within(g, w, more)
    PROVE  Within(g, ApplyCorrections(s, w, proof), more)
<1>0. IsSequence(s.reviewed.corrections)
    BY DEF IsReviewed
<1> DEFINE k == Len(s.reviewed.corrections)
<1>1. PICK f : /\ ApplyCorrections(s, w, proof) = f[k]
               /\ f[0] = w
               /\ \A n \in 1..k : f[n] = ThenCorrect(s, f[n - 1], n, proof)
    BY <1>0, CorrectedIs
<1>2. k \in Nat
    BY <1>0 DEF IsSequence
<1> HIDE DEF k
<1> DEFINE Bad == {n \in 0..k : ~Within(g, f[n], more)}
<1> SUFFICES ASSUME Bad # {} PROVE FALSE
    BY <1>1, <1>2
<1>3. PICK n \in Bad : \A m \in Bad : n <= m
    <2>1. Bad \subseteq Nat
        BY <1>2
    <2> HIDE DEF Bad
    <2> QED BY <2>1, LeastNumber
<1>4. n \in 1..k
    <2>1. n # 0
        BY <1>1
    <2> QED BY <1>2, <2>1
<1>5. Within(g, f[n - 1], more)
    <2>1. ~(n <= n - 1) /\ n - 1 \in 0..k
        BY <1>2, <1>4
    <2>2. n - 1 \notin Bad
        <3> HIDE DEF Bad
        <3> QED BY <2>1, <1>3
    <2> QED BY <2>1, <2>2
<1> DEFINE x == s.reviewed.corrections[n]
<1>6. CASE f[n] = f[n - 1]
    BY <1>5, <1>6
<1>7. CASE f[n] = ApplyCorrection(f[n - 1], x, proof)
    <2>1. IsWorkspace(f[n]) /\ Explained(f[n - 1], f[n], more)
        BY <1>5, <1>7, CorrectionSays DEF Within
    <2>2. FactsOf(f[n]) \subseteq FactsOf(f[n - 1]) \cup more
        BY <2>1, ExplainedSays
    <2>3. Within(g, f[n], more)
        BY <1>5, <2>1, <2>2 DEF Within
    <2> QED BY <2>3
<1> QED BY <1>1, <1>4, <1>6, <1>7 DEF ThenCorrect

-----------------------------------------------------------------------------
(* What a review may say, and what its stored record says was accepted.    *)
May(s) == UNION {MaySay(s, a) : a \in TakenOf(s)}

LEMMA TakenAre ==
    ASSUME NEW s, AssertionsAsReviewed(s), IsReviewed(s.candidate), IsReviewed(s.reviewed),
           NEW a \in AcceptedOf(s.reviewed), Mutates(a)
    PROVE  a \in TakenOf(s)
<1>1. PICK n \in DOMAIN s.reviewed.assertions : a = s.reviewed.assertions[n]
    BY DEF AcceptedOf, AssertionsOf, ToSet
<1> DEFINE b == s.candidate.assertions[n]
<1>2. n \in DOMAIN s.candidate.assertions
    BY <1>1 DEF AssertionsAsReviewed, IsReviewed, IsSequence
<1>3. a \in AssertionsOf(s.reviewed) /\ b \in AssertionsOf(s.candidate)
    BY <1>1, <1>2 DEF AssertionsOf, ToSet
<1>4. a.id = b.id
    <2>1. Undecided(a) = Undecided(b)
        BY <1>1 DEF AssertionsAsReviewed
    <2>2. {"id", "state", "outcome"} \subseteq DOMAIN a /\ {"id", "state", "outcome"} \subseteq DOMAIN b
        BY <1>3 DEF IsReviewed
    <2> HIDE DEF b
    <2>3. Undecided(a).id = a.id /\ Undecided(b).id = b.id
        BY <2>2 DEF Undecided
    <2> QED BY <2>1, <2>3
<1>5. PICK v \in ToSet(s.record.verdicts) : v.id = a.id
    <2>1. b.id \in ToSet(IdsOf(s.candidate.assertions))
        BY <1>2 DEF ToSet, IdsOf
    <2>2. b.id \in ToSet(IdsOf(s.record.verdicts))
        BY <2>1 DEF AssertionsAsReviewed, VerdictsCover
    <2> QED BY <2>2, <1>4 DEF ToSet, IdsOf
<1>6. \E u \in ToSet(s.record.verdicts) : u.id = a.id /\ u.state = StateOn(s.record, a)
    BY <1>5 DEF StateOn
<1>7. StateOn(s.record, a) = "accepted"
    BY <1>1 DEF AssertionsAsReviewed, AcceptedOf
<1> QED BY <1>3, <1>6, <1>7 DEF TakenOf, Mutates

(* A state the services let through.                                       *)
IsReviewState(s) ==
    /\ IsReviewed(s.candidate) /\ IsReviewed(s.reviewed)
    /\ s.record.version \in 1..4
    /\ StateValid(s)

LEMMA ValidStates ==
    ASSUME NEW s, IsReviewState(s)
    PROVE  /\ s.reviewed.id = s.record.reviewed
           /\ AssertionsAsReviewed(s)
           /\ s.record.version = 1 => StateV1(s)
<1>1. s.record.version \in {1, 2, 3, 4}
    BY DEF IsReviewState
<1>2. CASE s.record.version = 1
    BY <1>2 DEF IsReviewState, StateValid, StateV1, Succession
<1>3. CASE s.record.version = 2
    BY <1>3 DEF IsReviewState, StateValid, StateV2, GovernedState, Succession
<1>4. CASE s.record.version = 3
    BY <1>4 DEF IsReviewState, StateValid, StateV3, GovernedState, Succession
<1>5. CASE s.record.version = 4
    BY <1>5 DEF IsReviewState, StateValid, StateV4, GovernedState, Succession
<1> QED BY <1>1, <1>2, <1>3, <1>4, <1>5

(* The graph that a workspace becomes.                                     *)
LEMMA ResultSays ==
    ASSUME NEW s, NEW g, NEW w, NEW more, Within(g, w, more), Result(s, w) # Failed
    PROVE  IsGraph(Result(s, w)) /\ FactsOf(Result(s, w)) \subseteq FactsOf(g) \cup more
<1>1. Result(s, w) = GraphOf(w)
    BY DEF Result
<1>2. IsGraph(GraphOf(w))
    BY DEF Within, IsWorkspace, IsGraph, Fields, GraphOf
<1>3. FactsOf(GraphOf(w)) = FactsOf(w)
    BY DEF GraphOf, FactsOf, ToLinks
<1> QED BY <1>1, <1>2, <1>3 DEF Within

LEMMA BeginsWithin ==
    ASSUME NEW g, IsGraph(g), NEW more
    PROVE  Within(g, Workspace(g), more)
<1>1. FactsOf(Workspace(g)) = FactsOf(g)
    BY DEF Workspace, FactsOf, ToLinks
<1>2. IsWorkspace(Workspace(g))
    BY DEF Workspace, IsWorkspace, IsGraph, Fields
<1> QED BY <1>1, <1>2 DEF Within

LEMMA AppliedMay ==
    ASSUME NEW s, IsReviewState(s), NEW applied,
           applied \subseteq {a \in AcceptedOf(s.reviewed) : Mutates(a)}
    PROVE  /\ applied \subseteq AssertionsOf(s.reviewed)
           /\ \A a \in applied : MaySay(s, a) \subseteq May(s)
<1>1. \A a \in applied : a \in TakenOf(s)
    BY ValidStates, TakenAre DEF IsReviewState
<1>2. \A a \in TakenOf(s) : MaySay(s, a) \subseteq May(s)
    BY Zenon DEF May
<1> QED BY <1>1, <1>2 DEF AcceptedOf

LEMMA MaterializeV6Says ==
    ASSUME NEW s, IsReviewState(s), NEW g, IsGraph(g), NEW proof,
           MaterializeV6(s, g, proof) # Failed
    PROVE  LET h == MaterializeV6(s, g, proof) IN
           IsGraph(h) /\ FactsOf(h) \subseteq FactsOf(g) \cup May(s)
<1> DEFINE applied == {a \in AcceptedOf(s.reviewed) : Mutates(a)}
           made == ApplyAll(s, Workspace(g), applied)
<1>1. /\ MaterializeV6(s, g, proof) = Result(s, ApplyCorrections(s, made, proof))
      /\ \A a \in applied : a.kind \in ReviewableKinds(2)
    BY DEF MaterializeV6
<1>2. \A a \in applied : a.kind \in ReviewableKinds(4)
    BY <1>1 DEF ReviewableKinds
<1>3. /\ applied \subseteq AssertionsOf(s.reviewed)
      /\ \A a \in applied : MaySay(s, a) \subseteq May(s)
    BY AppliedMay
<1> HIDE DEF applied
<1>4. Within(g, made, May(s))
    BY <1>2, <1>3, ValidStates, BeginsWithin, ApplyAllSays DEF IsReviewState
<1> HIDE DEF made
<1>5. Within(g, ApplyCorrections(s, made, proof), May(s))
    BY <1>4, CorrectionsSay DEF IsReviewState
<1> QED BY <1>1, <1>5, ResultSays

LEMMA MaterializeV4Says ==
    ASSUME NEW s, IsReviewState(s), NEW g, IsGraph(g), NEW proof,
           MaterializeV4(s, g, proof) # Failed
    PROVE  LET h == MaterializeV4(s, g, proof) IN
           IsGraph(h) /\ FactsOf(h) \subseteq FactsOf(g) \cup May(s)
<1> DEFINE applied == {a \in AcceptedOf(s.reviewed) : Mutates(a)}
           nodes == {a \in applied : a.kind = "node"}
           first == ApplyAll(s, Workspace(g), nodes)
           rest == applied \ nodes
           made == ApplyAll(s, first, rest)
<1>1. /\ MaterializeV4(s, g, proof) = Result(s, ApplyCorrections(s, made, proof))
      /\ \A a \in applied : a.kind \in ReviewableKinds(4)
    BY DEF MaterializeV4
<1>2. /\ applied \subseteq AssertionsOf(s.reviewed)
      /\ \A a \in applied : MaySay(s, a) \subseteq May(s)
    BY AppliedMay
<1>3. nodes \subseteq applied /\ rest \subseteq applied
    OBVIOUS
<1> HIDE DEF applied, nodes, rest
<1>4. Within(g, first, May(s))
    BY <1>1, <1>2, <1>3, ValidStates, BeginsWithin, ApplyAllSays DEF IsReviewState
<1> HIDE DEF first
<1>5. Within(g, made, May(s))
    BY <1>1, <1>2, <1>3, <1>4, ValidStates, ApplyAllSays DEF IsReviewState
<1> HIDE DEF made
<1>6. Within(g, ApplyCorrections(s, made, proof), May(s))
    BY <1>5, CorrectionsSay DEF IsReviewState
<1> QED BY <1>1, <1>6, ResultSays

(* Version 1: what is accepted of an object that is not rejected is taken. *)
LEMMA AboutTaken ==
    ASSUME NEW s, IsReviewState(s), StateV1(s), NEW p \in Confirmed(s), NEW kind \in NodeKindsV1,
           NEW a \in About(s, p.target, kind)
    PROVE  a \in TakenOf(s) /\ a.kind = kind /\ a.subject = p.target
<1>1. a \in AcceptedOf(s.reviewed) /\ a \in AssertionsOf(s.reviewed) /\ a.kind = kind
      /\ a.subject = p.target
    BY DEF About, AcceptedOf
<1>2. /\ a.subject \in Targets(s.record)
      /\ a.outcome = OutcomeOf(VerdictOn(s.record, a.subject))
    BY <1>1 DEF StateV1, NodeKindsV1
<1>3. VerdictOn(s.record, a.subject) \in VerdictKinds
    <2>1. PICK w \in ToSet(s.record.identity) : w.target = a.subject
        BY <1>2 DEF Targets
    <2>2. \E v \in ToSet(s.record.identity) : v.verdict = VerdictOn(s.record, a.subject)
        BY <2>1 DEF VerdictOn
    <2>3. \A v \in ToSet(s.record.identity) : v.verdict \in VerdictKinds
        BY DEF StateV1, RecordV1, RecordWellFormed, IdentityDecided, ToSet
    <2> QED BY <2>2, <2>3
<1>4. VerdictOn(s.record, a.subject) \in {"confirm_existing", "create_new"}
    BY <1>1, <1>3 DEF Confirmed, VerdictKinds
<1>5. a.outcome \in {"resolved_existing", "created_new"}
    BY <1>2, <1>4 DEF OutcomeOf
<1>6. Mutates(a)
    BY <1>5 DEF Mutates, NonMutating
<1> QED BY <1>1, <1>6, ValidStates, TakenAre DEF IsReviewState

LEMMA RelationshipsTaken ==
    ASSUME NEW s, IsReviewState(s), StateV1(s), NEW a \in RelationshipsOf(s)
    PROVE  a \in TakenOf(s) /\ a.kind = "relationship"
<1>1. a \in AcceptedOf(s.reviewed) /\ a \in AssertionsOf(s.reviewed) /\ a.kind = "relationship"
    BY DEF RelationshipsOf, AcceptedOf
<1>2. a.outcome = Absent
    BY <1>1 DEF StateV1
<1>3. Mutates(a)
    BY <1>2 DEF Mutates, NonMutating, Absent
<1> QED BY <1>1, <1>3, ValidStates, TakenAre DEF IsReviewState

LEMMA TakenMay ==
    ASSUME NEW s, NEW a \in TakenOf(s)
    PROVE  Says(a) \subseteq May(s) /\ MaySay(s, a) \subseteq May(s)
<1>1. MaySay(s, a) \subseteq May(s)
    BY Zenon DEF May
<1> QED BY <1>1, SaysMay

(* What version 1 makes of an object.                                      *)
LEMMA AboutMay ==
    ASSUME NEW s, IsReviewState(s), StateV1(s), NEW p \in Confirmed(s)
    PROVE  LET x == p.target IN
           /\ \A a \in About(s, x, "label") :
                /\ {<<"object", x>>, <<"label", x, a.text>>, <<"kind", x, p.kind>>} \subseteq May(s)
                /\ \A e \in IdsIn(a.evidence) : <<"support", x, e>> \in May(s)
           /\ \A a \in About(s, x, "alias") : <<"alias", x, a.text.fold>> \in May(s)
           /\ \A a \in About(s, x, "summary") : <<"summary", x, a.text>> \in May(s)
<1> DEFINE x == p.target
<1>0. {"label", "alias", "summary"} \subseteq NodeKindsV1
    BY DEF NodeKindsV1
<1>1. ASSUME NEW a \in About(s, x, "label")
      PROVE  /\ {<<"object", x>>, <<"label", x, a.text>>, <<"kind", x, p.kind>>} \subseteq May(s)
             /\ \A e \in IdsIn(a.evidence) : <<"support", x, e>> \in May(s)
    <2>1. a \in TakenOf(s) /\ a.kind = "label" /\ a.subject = x
        BY <1>0, AboutTaken
    <2>2. Says(a) = {<<"object", x>>, <<"label", x, a.text>>} \cup Supports(a)
        BY <2>1 DEF Says
    <2>3. \A e \in IdsIn(a.evidence) : <<"support", x, e>> \in Supports(a)
        BY <2>1 DEF IdsIn, Supports
    <2>4. <<"kind", x, p.kind>> \in MaySay(s, a)
        <3>1. p \in {q \in ToSet(s.record.proposals) : q.target = a.subject}
            BY <2>1 DEF Confirmed
        <3>2. <<"kind", a.subject, p.kind>>
              \in {<<"kind", a.subject, r.kind>> : r \in {q \in ToSet(s.record.proposals) : q.target = a.subject}}
            BY <3>1
        <3> QED BY <2>1, <3>2, Zenon DEF MaySay
    <2> QED BY <2>1, <2>2, <2>3, <2>4, TakenMay
<1>2. ASSUME NEW a \in About(s, x, "alias") PROVE <<"alias", x, a.text.fold>> \in May(s)
    <2>1. a \in TakenOf(s) /\ a.kind = "alias" /\ a.subject = x
        BY <1>0, AboutTaken
    <2>2. Says(a) = {<<"alias", x, a.text.fold>>}
        BY <2>1 DEF Says
    <2> QED BY <2>1, <2>2, TakenMay
<1>3. ASSUME NEW a \in About(s, x, "summary") PROVE <<"summary", x, a.text>> \in May(s)
    <2>1. a \in TakenOf(s) /\ a.kind = "summary" /\ a.subject = x
        BY <1>0, AboutTaken
    <2>2. Says(a) = {<<"summary", x, a.text>>}
        BY <2>1 DEF Says
    <2> QED BY <2>1, <2>2, TakenMay
<1> QED BY <1>1, <1>2, <1>3

LEMMA ObjectV3May ==
    ASSUME NEW s, IsReviewState(s), StateV1(s), NEW g, IsGraph(g),
           NEW p \in Confirmed(s), TargetFits(s, g, p)
    PROVE  LET x == p.target
               o == ObjectV3(s, g, p) IN
           /\ Fields \subseteq DOMAIN o
           /\ \/ x \in DOMAIN g.objects /\ Gains(x, g.objects[x], o, May(s))
              \/ Brings(x, o, May(s))
<1> DEFINE x == p.target
           o == ObjectV3(s, g, p)
           old == IF CreatesNew(s, x)
                  THEN [kind |-> p.kind, label |-> NoText, id |-> NoId, evidence |-> {},
                        aliases |-> {}, summary |-> {}, properties |-> {}, aspects |-> {}]
                  ELSE g.objects[x]
           label == About(s, x, "label")
           summary == About(s, x, "summary")
           aliases == {Said(a) : a \in About(s, x, "alias")}
<1>1. Fields \subseteq DOMAIN old
    BY DEF TargetFits, IsGraph, Fields
<1>2. o = [old EXCEPT
            !.label = IF label = {} THEN @ ELSE (CHOOSE a \in label : TRUE).text,
            !.evidence = IF label = {} THEN @ ELSE UNION {IdsIn(a.evidence) : a \in label},
            !.aliases = @ \cup aliases,
            !.summary = IF summary = {} THEN @ ELSE {Said(a) : a \in summary}]
    BY DEF ObjectV3
<1>3. /\ CreatesNew(s, x) => old.kind = p.kind /\ old.aliases = {} /\ old.summary = {}
                             /\ old.properties = {} /\ old.aspects = {}
      /\ ~CreatesNew(s, x) => x \in DOMAIN g.objects /\ old = g.objects[x]
    BY DEF TargetFits
<1>4. CreatesNew(s, x) => label # {}
    <2>1. Cardinality({}) = 0
        BY FS_EmptySet
    <2>2. CreatesNew(s, x) => Cardinality(label) = 1
        BY DEF TargetFits
    <2> HIDE DEF label
    <2> QED BY <2>1, <2>2
<1>5. \A f \in aliases : <<"alias", x, f.text.fold>> \in May(s)
    <2>1. \A a \in About(s, x, "alias") : <<"alias", x, a.text.fold>> \in May(s)
        BY AboutMay
    <2>2. \A a : Said(a).text = a.text
        BY DEF Said
    <2> QED BY <2>1, <2>2
<1>6. \A f \in {Said(a) : a \in summary} : <<"summary", x, f.text>> \in May(s)
    <2>1. \A a \in summary : <<"summary", x, a.text>> \in May(s)
        BY AboutMay
    <2>2. \A a : Said(a).text = a.text
        BY DEF Said
    <2> HIDE DEF summary
    <2> QED BY <2>1, <2>2
<1>7. \A a \in label :
        /\ {<<"object", x>>, <<"label", x, a.text>>, <<"kind", x, p.kind>>} \subseteq May(s)
        /\ \A e \in IdsIn(a.evidence) : <<"support", x, e>> \in May(s)
    BY AboutMay
<1> HIDE DEF old, o, label, summary, aliases
<1>8. /\ DOMAIN o = DOMAIN old
      /\ o.kind = old.kind /\ o.properties = old.properties /\ o.aspects = old.aspects
      /\ o.aliases = old.aliases \cup aliases
      /\ o.label = IF label = {} THEN old.label ELSE (CHOOSE a \in label : TRUE).text
      /\ o.evidence = IF label = {} THEN old.evidence ELSE UNION {IdsIn(a.evidence) : a \in label}
      /\ o.summary = IF summary = {} THEN old.summary ELSE {Said(a) : a \in summary}
    BY <1>1, <1>2 DEF Fields
<1>9. label # {} =>
        /\ {<<"object", x>>, <<"label", x, o.label>>, <<"kind", x, p.kind>>} \subseteq May(s)
        /\ \A e \in o.evidence : <<"support", x, e>> \in May(s)
    <2> SUFFICES ASSUME label # {}
                 PROVE  /\ {<<"object", x>>, <<"label", x, o.label>>, <<"kind", x, p.kind>>}
                             \subseteq May(s)
                        /\ \A e \in o.evidence : <<"support", x, e>> \in May(s)
        OBVIOUS
    <2>1. PICK a \in label : o.label = a.text
        <3> DEFINE chosen == CHOOSE a \in label : TRUE
        <3>1. chosen \in label
            OBVIOUS
        <3>2. o.label = chosen.text
            BY <1>8
        <3> HIDE DEF chosen
        <3> QED BY <3>1, <3>2
    <2>2. \A e \in o.evidence : \E b \in label : e \in IdsIn(b.evidence)
        <3>1. o.evidence = UNION {IdsIn(b.evidence) : b \in label}
            BY <1>8
        <3> QED BY <3>1, Zenon
    <2> QED BY <1>7, <2>1, <2>2
<1>10. CASE CreatesNew(s, x)
    <2>1. Brings(x, o, May(s))
        BY <1>3, <1>4, <1>5, <1>6, <1>8, <1>9, <1>10 DEF Brings
    <2> QED BY <1>1, <1>8, <2>1 DEF o
<1>11. CASE ~CreatesNew(s, x)
    <2>1. Gains(x, old, o, May(s))
        BY <1>5, <1>6, <1>8, <1>9 DEF Gains
    <2> QED BY <1>1, <1>3, <1>8, <1>11, <2>1 DEF o
<1> QED BY <1>10, <1>11

LEMMA MaterializeV3Says ==
    ASSUME NEW s, IsReviewState(s), StateV1(s), NEW g, IsGraph(g), MaterializeV3(s, g) # Failed
    PROVE  LET h == MaterializeV3(s, g) IN
           IsGraph(h) /\ FactsOf(h) \subseteq FactsOf(g) \cup May(s)
<1> DEFINE objects == [x \in {p.target : p \in Confirmed(s)} |->
                          ObjectV3(s, g, CHOOSE p \in Confirmed(s) : p.target = x)]
           links == [k \in {RelationshipId(s, a) : a \in RelationshipsOf(s)} |->
                        LinkV3(CHOOSE a \in RelationshipsOf(s) : RelationshipId(s, a) = k)]
           h == [g EXCEPT !.objects = Joined(objects, @), !.links = Joined(links, @),
                          !.evidence = Joined(ById(EvidenceV3(s)), @)]
<1>1. /\ MaterializeV3(s, g) = h
      /\ \A p \in Confirmed(s) : TargetFits(s, g, p)
    BY DEF MaterializeV3
<1>2. ASSUME NEW x \in DOMAIN objects
      PROVE  /\ Fields \subseteq DOMAIN objects[x]
             /\ \/ x \in DOMAIN g.objects /\ Gains(x, g.objects[x], objects[x], May(s))
                \/ Brings(x, objects[x], May(s))
    <2>1. PICK p \in Confirmed(s) : p.target = x /\ objects[x] = ObjectV3(s, g, p)
        OBVIOUS
    <2> HIDE DEF objects
    <2> QED BY <1>1, <2>1, ObjectV3May
<1>3. ASSUME NEW k \in DOMAIN links PROVE LinkFact(links[k]) \in May(s)
    <2>1. PICK a \in RelationshipsOf(s) : links[k] = LinkV3(a)
        OBVIOUS
    <2>2. LinkFact(links[k]) = <<"link", a.subject, a.predicate, a.object>>
        BY <2>1 DEF LinkFact, LinkV3
    <2>3. a \in TakenOf(s) /\ a.kind = "relationship"
        BY RelationshipsTaken
    <2>4. LinkFact(links[k]) \in Says(a)
        BY <2>2, <2>3 DEF Says
    <2> QED BY <2>3, <2>4, TakenMay
<1> HIDE DEF objects, links
<1>4. /\ DOMAIN h = DOMAIN g
      /\ h.objects = Joined(objects, g.objects) /\ h.links = Joined(links, g.links)
    BY DEF IsGraph, Fields
<1> HIDE DEF h
<1>5. ASSUME NEW x \in DOMAIN h.objects
      PROVE  /\ Fields \subseteq DOMAIN h.objects[x]
             /\ \/ x \in DOMAIN g.objects /\ Gains(x, g.objects[x], h.objects[x], May(s))
                \/ Brings(x, h.objects[x], May(s))
    <2>1. CASE x \in DOMAIN objects
        BY <1>2, <1>4, <2>1 DEF Joined
    <2>2. CASE x \notin DOMAIN objects
        <3>1. x \in DOMAIN g.objects /\ h.objects[x] = g.objects[x]
            BY <1>4, <2>2 DEF Joined
        <3> QED BY <3>1, GainsNothing DEF IsGraph, Fields
    <2> QED BY <2>1, <2>2
<1>6. ASSUME NEW k \in DOMAIN h.links
      PROVE  \/ LinkFact(h.links[k]) \in May(s)
             \/ k \in DOMAIN g.links /\ LinkFact(h.links[k]) = LinkFact(g.links[k])
    BY <1>3, <1>4 DEF Joined
<1>7. Explained(g, h, May(s))
    BY <1>5, <1>6 DEF Explained
<1>8. IsGraph(h)
    BY <1>4, <1>5 DEF IsGraph, Fields
<1> QED BY <1>1, <1>7, <1>8, ExplainedSays

LEMMA MaterializeSays ==
    ASSUME NEW s, IsReviewState(s), NEW g, IsGraph(g), NEW published,
           Materialize(s, g, published) # Failed
    PROVE  LET h == Materialize(s, g, published) IN
           IsGraph(h) /\ FactsOf(h) \subseteq FactsOf(g) \cup May(s)
<1> DEFINE proof == {Pair(x) : x \in Withdrawals(s)}
<1>0. s.record.version \in {1, 2, 3, 4}
    BY DEF IsReviewState
<1>1. CASE s.record.version = 1
    <2>1. Materialize(s, g, published) = MaterializeV3(s, g)
        BY <1>1 DEF Materialize
    <2> QED BY <1>1, <2>1, ValidStates, MaterializeV3Says
<1>2. CASE s.record.version \in {2, 3}
    <2>1. Materialize(s, g, published) = MaterializeV6(s, g, proof)
        BY <1>2 DEF Materialize
    <2> QED BY <2>1, MaterializeV6Says
<1>3. CASE s.record.version = 4
    <2>1. Materialize(s, g, published) = MaterializeV4(s, g, proof)
        BY <1>3 DEF Materialize
    <2> QED BY <2>1, MaterializeV4Says
<1> QED BY <1>0, <1>1, <1>2, <1>3

-----------------------------------------------------------------------------
(* The steps that publish.  A step of ReviewedNext is one of the ledger.   *)
LEMMA ReviewedStepIsNext == [ReviewedNext]_<<vars, worldVars>> => [Next]_vars
<1> SUFFICES ASSUME [ReviewedNext]_<<vars, worldVars>> PROVE [Next]_vars
    OBVIOUS
<1>1. CASE UNCHANGED <<vars, worldVars>>
    BY <1>1
<1>2. ASSUME NEW c \in Clients,
             \/ AppendOffered(c) \/ UpdateOffered(c) \/ FinalizeOffered(c) \/ FinalizeRefused(c)
             \/ LedgerStep(c)
      PROVE  [Next]_vars
    <2>1. \/ CallAppend(c) \/ CallUpdate(c) \/ CallFinalize(c) \/ UNCHANGED vars
          \/ Step(c) \/ Wait(c) \/ Abort(c)
        BY <1>2 DEF AppendOffered, UpdateOffered, FinalizeOffered, FinalizeRefused, LedgerStep
    <2> QED BY <2>1 DEF Next, Wait
<1>3. CASE PublishReview \/ PublishOther
    BY <1>3 DEF PublishReview, PublishOther
<1> QED BY <1>1, <1>2, <1>3 DEF ReviewedNext

(* The services and the publications take no step on the ledger that it    *)
(* does not take by itself, so its theorems hold of the run too, which is  *)
(* of ReviewedSpec.                                                        *)
THEOREM PublishingKeepsTheLedger == ReviewedSpec => Spec
<1>1. ReviewedInit => Init
    BY DEF ReviewedInit
<1> QED BY <1>1, ReviewedStepIsNext, PTL DEF ReviewedSpec, Spec

(* Every revision of the world has a graph.                                *)
Histories ==
    /\ scenario \in DOMAIN Scenarios
    /\ history \in Seq(ToSet(history)) /\ history # <<>>
    /\ \A v \in ToSet(history) : IsGraph(v.graph)

ReviewedInv == IInv /\ Histories

LEMMA Appended ==
    ASSUME NEW h, h \in Seq(ToSet(h)), NEW v
    PROVE  LET k == Append(h, v) IN
           /\ k \in Seq(ToSet(k)) /\ ToSet(k) = ToSet(h) \cup {v}
           /\ k # <<>> /\ Len(h) \in Nat /\ Len(k) = Len(h) + 1 /\ k[Len(k)] = v
<1> DEFINE S == ToSet(h) \cup {v}
<1>1. h \in Seq(S) /\ v \in S
    <2>1. ToSet(h) \subseteq S /\ v \in S
        OBVIOUS
    <2> HIDE DEF S
    <2> QED BY <2>1
<1> HIDE DEF S
<1>2. Append(h, v) \in Seq(S) /\ ToSet(Append(h, v)) = ToSet(h) \cup {v}
    BY <1>1, ListItems
<1>3. Len(h) \in Nat /\ Len(Append(h, v)) = Len(h) + 1 /\ Append(h, v)[Len(h) + 1] = v
    BY <1>1
<1>4. Append(h, v) # <<>>
    BY <1>1
<1> QED BY <1>2, <1>3, <1>4 DEF S

LEMMA FiledStates ==
    ASSUME NEW r \in Reviews
    PROVE  IsReviewState(StateFiled[r])
<1>1. PICK s \in ReviewStates : Filed(s) = r
    BY ReviewedAssumption
<1> DEFINE t == StateFiled[r]
<1>2. t \in ReviewStates
    BY <1>1 DEF StateFiled
<1>3. PICK n \in DOMAIN Scenarios : t \in StatesOf(Scenarios[n].submissions)
    BY <1>2 DEF ReviewStates, Offered
<1>4. StateValid(t)
    BY <1>3 DEF StatesOf, Submittable
<1> HIDE DEF t
<1> QED BY <1>2, <1>4, ReviewedAssumption DEF IsReviewState, t

LEMMA PublishedGraph ==
    ASSUME ReviewedInv, PublishReview
    PROVE  \E r \in reviews : \E child, id :
              /\ history' = Append(history, [id |-> id, graph |-> child, by |-> r])
              /\ IsGraph(child)
              /\ FactsOf(child) \subseteq FactsOf(HeadOf.graph) \cup May(StateFiled[r])
              /\ UNCHANGED scenario
<1> DEFINE Child(r) == Materialize(StateFiled[r], HeadOf.graph, Published)
<1>1. PICK r \in reviews :
        /\ Child(r) # Failed
        /\ history' = Append(history, [id |-> <<"published", r.id>>, graph |-> Child(r), by |-> r])
        /\ UNCHANGED scenario
    BY DEF PublishReview
<1>2. r \in Reviews
    BY DEF ReviewedInv, IInv, TypeOK
<1>3. IsGraph(HeadOf.graph)
    <2>1. HeadOf \in ToSet(history)
        <3>1. Len(history) \in DOMAIN history
            BY DEF ReviewedInv, Histories
        <3> QED BY <3>1 DEF HeadOf, ToSet
    <2> QED BY <2>1 DEF ReviewedInv, Histories
<1>4. IsGraph(Child(r)) /\ FactsOf(Child(r)) \subseteq FactsOf(HeadOf.graph) \cup May(StateFiled[r])
    BY <1>1, <1>2, <1>3, FiledStates, MaterializeSays
<1> HIDE DEF Child
<1> QED BY <1>1, <1>4

LEMMA HistoryStep ==
    ASSUME ReviewedInv, [ReviewedNext]_<<vars, worldVars>>
    PROVE  \/ UNCHANGED worldVars
           \/ PublishReview
           \/ \E g \in Scenarios[scenario].others : \E id :
                /\ history' = Append(history, [id |-> id, graph |-> g, by |-> None])
                /\ UNCHANGED scenario
<1>1. CASE UNCHANGED <<vars, worldVars>>
    BY <1>1
<1>2. CASE PublishOther
    BY <1>2 DEF PublishOther
<1>3. ASSUME NEW c \in Clients,
             \/ AppendOffered(c) \/ UpdateOffered(c) \/ FinalizeOffered(c) \/ FinalizeRefused(c)
             \/ LedgerStep(c)
      PROVE  UNCHANGED worldVars
    BY <1>3 DEF AppendOffered, UpdateOffered, FinalizeOffered, FinalizeRefused, LedgerStep
<1> QED BY <1>1, <1>2, <1>3 DEF ReviewedNext

LEMMA HistoriesStep ==
    ASSUME ReviewedInv, [ReviewedNext]_<<vars, worldVars>>
    PROVE  Histories'
<1>1. CASE UNCHANGED worldVars
    BY <1>1 DEF worldVars, ReviewedInv, Histories
<1>2. ASSUME NEW v, history' = Append(history, v), IsGraph(v.graph), UNCHANGED scenario
      PROVE  Histories'
    <2>1. Histories
        BY DEF ReviewedInv
    <2>2. /\ history' \in Seq(ToSet(history')) /\ history' # <<>>
          /\ ToSet(history') = ToSet(history) \cup {v}
        BY <1>2, <2>1, Appended DEF Histories
    <2> QED BY <1>2, <2>1, <2>2 DEF Histories
<1>3. CASE PublishReview
    <2>1. PICK r, child, id :
            /\ history' = Append(history, [id |-> id, graph |-> child, by |-> r])
            /\ IsGraph(child) /\ UNCHANGED scenario
        BY <1>3, PublishedGraph
    <2> QED BY <1>2, <2>1
<1>4. ASSUME NEW g \in Scenarios[scenario].others, NEW id,
             history' = Append(history, [id |-> id, graph |-> g, by |-> None]), UNCHANGED scenario
      PROVE  Histories'
    <2>1. IsGraph(g)
        BY ReviewedAssumption DEF ReviewedInv, Histories
    <2> QED BY <1>2, <1>4, <2>1
<1> QED BY <1>1, <1>3, <1>4, HistoryStep

LEMMA ReviewedInductive == ReviewedSpec => []ReviewedInv
<1>1. ReviewedInit => ReviewedInv
    <2> SUFFICES ASSUME ReviewedInit PROVE ReviewedInv
        OBVIOUS
    <2> DEFINE v == [id |-> Genesis, graph |-> Scenarios[scenario].graph, by |-> None]
    <2>1. IInv
        BY InvInit DEF ReviewedInit
    <2>2. history = <<v>> /\ scenario \in DOMAIN Scenarios
        BY DEF ReviewedInit
    <2>3. IsGraph(v.graph)
        BY <2>2, ReviewedAssumption
    <2> HIDE DEF v
    <2>4. ToSet(history) = {v} /\ history \in Seq({v}) /\ history # <<>>
        BY <2>2 DEF ToSet
    <2> QED BY <2>1, <2>2, <2>3, <2>4 DEF ReviewedInv, Histories
<1>2. ReviewedInv /\ [ReviewedNext]_<<vars, worldVars>> => ReviewedInv'
    <2> SUFFICES ASSUME ReviewedInv, [ReviewedNext]_<<vars, worldVars>> PROVE ReviewedInv'
        OBVIOUS
    <2>1. IInv'
        BY ReviewedStepIsNext, InvStep DEF ReviewedInv
    <2> QED BY <2>1, HistoriesStep DEF ReviewedInv
<1> QED BY <1>1, <1>2, PTL DEF ReviewedSpec

(* What is published holds nothing but what its parent held and what the   *)
(* assertions say that the stored record accepts, whichever version of the *)
(* contract the review is of, and whatever reviews and other publications  *)
(* came before.                                                            *)
THEOREM NothingPublishedUnreviewed == ReviewedSpec => NothingUnreviewed
<1> DEFINE Reviewed1 ==
        PublishedNow =>
            LET new == history'[Len(history')]
                s == StateFiled[new.by]
            IN  FactsOf(new.graph) \subseteq
                  FactsOf(HeadOf.graph) \cup UNION {MaySay(s, a) : a \in TakenOf(s)}
<1>1. ReviewedInv /\ [ReviewedNext]_<<vars, worldVars>> => [Reviewed1]_<<vars, worldVars>>
    <2> SUFFICES ASSUME ReviewedInv, [ReviewedNext]_<<vars, worldVars>>, PublishedNow
                 PROVE  LET new == history'[Len(history')]
                            s == StateFiled[new.by]
                        IN  FactsOf(new.graph) \subseteq FactsOf(HeadOf.graph) \cup May(s)
        BY DEF May
    <2>1. Len(history) \in Nat /\ history \in Seq(ToSet(history))
        BY DEF ReviewedInv, Histories
    <2>2. ~UNCHANGED worldVars
        BY <2>1 DEF PublishedNow, worldVars
    <2>3. ASSUME NEW g, NEW id, history' = Append(history, [id |-> id, graph |-> g, by |-> None])
          PROVE  FALSE
        BY <2>1, <2>3, Appended DEF PublishedNow
    <2>4. PublishReview
        BY <2>2, <2>3, HistoryStep
    <2>5. PICK r, child, id :
            /\ history' = Append(history, [id |-> id, graph |-> child, by |-> r])
            /\ FactsOf(child) \subseteq FactsOf(HeadOf.graph) \cup May(StateFiled[r])
        BY <2>4, PublishedGraph
    <2>6. history'[Len(history')] = [id |-> id, graph |-> child, by |-> r]
        BY <2>1, <2>5, Appended
    <2> QED BY <2>5, <2>6
<1> QED BY ReviewedInductive, <1>1, PTL DEF ReviewedSpec, NothingUnreviewed

(***************************************************************************)
(* Source admission.  It inserts rows under unique keys as the ledger does,*)
(* and this module proves about both; the instance shares the variables it *)
(* names alike, and a theorem below is about them as Src moves them.       *)
(***************************************************************************)
(* Types, and what a stage says of the request it serves.                  *)
AdmitRequest == [kind : {"admit"}, command : Commands]
PutRequest == [kind : {"put"}, put : CatalogPuts]
ReadRequest == [kind : {"read"}, artifact : Artifacts, revision : Revisions]
CatalogRequest == AdmitRequest \cup PutRequest \cup ReadRequest

AdmissionStages ==
    {"idle", "probing", "reading head", "attempting", "recovering", "putting", "locking",
     "comparing", "inserting", "reading pair", "reading revision"}

CatalogOK ==
    /\ DOMAIN head = Worlds
    /\ artifacts \in [Artifacts -> Src!ArtifactRecord \cup {None}]
    /\ revisions \in [Revisions -> Src!RevisionRecord \cup {None}]
    /\ receipts \in [Admissions -> Commands \cup {None}]
    /\ fresh \in [Src!Keys -> Clients \cup {None}]
    /\ worldLock \in [Worlds -> Clients \cup {None}]
    /\ pc \in [Clients -> AdmissionStages]
    /\ call \in [Clients -> CatalogRequest \cup {None}]
    /\ todo \in [Clients -> Seq(Src!Keys)]
    /\ DOMAIN answer = Clients
    /\ \A c \in Clients :
          /\ pc[c] \in {"probing", "reading head", "attempting", "recovering", "comparing"} =>
                call[c] \in AdmitRequest
          /\ pc[c] \in {"locking", "inserting"} => call[c] \in AdmitRequest \cup PutRequest
          /\ pc[c] = "putting" => call[c] \in PutRequest
          /\ pc[c] \in {"reading pair", "reading revision"} => call[c] \in ReadRequest

-----------------------------------------------------------------------------
(* From the comparison to the commit an admission holds its world, and the *)
(* head stays the one it expects.                                          *)
HeadHeld ==
    \A c \in Clients :
        /\ pc[c] \in {"comparing", "inserting"} /\ call[c].kind = "admit" =>
              worldLock[Src!Cmd(c).world] = c
        /\ pc[c] = "inserting" /\ call[c].kind = "admit" =>
              head[Src!Cmd(c).world] = Src!Cmd(c).expected

(* The keys a request is to store.                                         *)
KeysOfRequest(c) ==
    IF call[c].kind = "admit" THEN {Src!Cmd(c).artifact, Src!Cmd(c).revision, Src!Cmd(c).adm}
    ELSE {call[c].put.id}

(* A key some transaction has inserted and not committed is not stored yet,*)
(* and its owner is inserting it for its request.                          *)
FreshKeyOwned ==
    \A k \in Src!Keys : fresh[k] # None =>
        /\ pc[fresh[k]] = "inserting"
        /\ k \in KeysOfRequest(fresh[k])
        /\ Src!Record(k) = None

(* What a transaction has inserted is its own row, or the row that was     *)
(* there is what it submitted.                                             *)
Settled(c, k) == fresh[k] = c \/ Src!Record(k) = Src!Submitted(c, k)

TodoKeys(c) == {todo[c][i] : i \in 1..Len(todo[c])}

InsertedSettled ==
    \A c \in Clients : pc[c] = "inserting" =>
        /\ \A k \in TodoKeys(c) : k \in KeysOfRequest(c)
        /\ \A k \in KeysOfRequest(c) : k \in TodoKeys(c) \/ Settled(c, k)

AnswersToRequests ==
    \A c \in Clients : answer[c] # None => answer[c].request \in CatalogRequest

AdmissionInv ==
    /\ CatalogOK
    /\ AnswersToRequests
    /\ HeadHeld
    /\ FreshKeyOwned
    /\ InsertedSettled
    /\ Src!ReceiptBacked

-----------------------------------------------------------------------------
(* Requests and keys.  Artifacts, revisions and admissions have ids of     *)
(* their own, so a key tells its table.                                    *)
LEMMA CommandFields ==
    ASSUME Src!CatalogParameters,
           NEW m \in Commands
    PROVE  /\ m # None
           /\ m.adm \in Admissions /\ m.world \in Worlds
           /\ m.artifact \in Artifacts /\ m.revision \in Revisions
           /\ Src!ArtifactOf(m) \in Src!ArtifactRecord /\ Src!RevisionOf(m) \in Src!RevisionRecord
BY DEF Src!CatalogParameters, Src!Command, Src!ArtifactOf, Src!RevisionOf,
   Src!ArtifactRecord, Src!RevisionRecord

LEMMA CatalogPutFields ==
    ASSUME Src!CatalogParameters,
           NEW p \in CatalogPuts
    PROVE  \/ p.id \in Artifacts /\ p.record \in Src!ArtifactRecord
           \/ p.id \in Revisions /\ p.record \in Src!RevisionRecord
BY DEF Src!CatalogParameters, Src!Put

LEMMA RecordIs ==
    ASSUME Src!CatalogParameters
    PROVE  /\ \A a \in Artifacts : Src!Record(a) = artifacts[a]
           /\ \A r \in Revisions : Src!Record(r) = revisions[r]
           /\ \A m \in Admissions : Src!Record(m) = receipts[m]
BY DEF Src!CatalogParameters, Src!Record

LEMMA RequestKinds ==
    ASSUME Src!CatalogParameters,
           NEW q
    PROVE  /\ q \in AdmitRequest => q.kind = "admit" /\ q.command \in Commands
           /\ q \in PutRequest => q.kind = "put" /\ q.put \in CatalogPuts
           /\ q \in ReadRequest => q.kind = "read"
BY DEF AdmitRequest, PutRequest, ReadRequest

(* What a storing request submits for each of its keys.                    *)
LEMMA Submissions ==
    ASSUME Src!CatalogParameters,
           NEW c, call[c] \in AdmitRequest \cup PutRequest
    PROVE  /\ KeysOfRequest(c) \subseteq Src!Keys
           /\ \A k \in KeysOfRequest(c) :
                 /\ k \in Artifacts => Src!Submitted(c, k) \in Src!ArtifactRecord
                 /\ k \in Revisions => Src!Submitted(c, k) \in Src!RevisionRecord
                 /\ k \in Admissions => call[c].kind = "admit" /\ k = Src!Cmd(c).adm /\ Src!Submitted(c, k) = Src!Cmd(c)
                 /\ Src!Submitted(c, k) # None
           /\ call[c].kind = "admit" =>
                 /\ Src!Cmd(c) \in Commands
                 /\ Src!Submitted(c, Src!Cmd(c).artifact) = Src!ArtifactOf(Src!Cmd(c))
                 /\ Src!Submitted(c, Src!Cmd(c).revision) = Src!RevisionOf(Src!Cmd(c))
                 /\ Src!Submitted(c, Src!Cmd(c).adm) = Src!Cmd(c)
<1>1. CASE call[c] \in AdmitRequest
  <2>1. call[c].kind = "admit" /\ Src!Cmd(c) \in Commands
    BY <1>1, RequestKinds DEF Src!Cmd
  <2>2. KeysOfRequest(c) = {Src!Cmd(c).artifact, Src!Cmd(c).revision, Src!Cmd(c).adm}
    BY <2>1 DEF KeysOfRequest
  <2>3. /\ Src!Cmd(c).adm \in Admissions /\ Src!Cmd(c).artifact \in Artifacts /\ Src!Cmd(c).revision \in Revisions
        /\ Src!ArtifactOf(Src!Cmd(c)) \in Src!ArtifactRecord /\ Src!RevisionOf(Src!Cmd(c)) \in Src!RevisionRecord
        /\ Src!Cmd(c) # None
    BY <2>1, CommandFields
  <2>4. /\ \A k \in Artifacts : Src!Submitted(c, k) = Src!ArtifactOf(Src!Cmd(c))
        /\ \A k \in Revisions : Src!Submitted(c, k) = Src!RevisionOf(Src!Cmd(c))
        /\ \A k \in Admissions : Src!Submitted(c, k) = Src!Cmd(c)
    BY <2>1 DEF Src!CatalogParameters, Src!Submitted
  <2>5. Src!Cmd(c).artifact \notin Admissions /\ Src!Cmd(c).revision \notin Admissions
    BY <2>3 DEF Src!CatalogParameters
  <2> QED BY <2>1, <2>2, <2>3, <2>4, <2>5 DEF Src!CatalogParameters, Src!Keys
<1>2. CASE call[c] \in PutRequest
  <2>1. call[c].kind = "put" /\ call[c].put \in CatalogPuts
    BY <1>2, RequestKinds
  <2>2. KeysOfRequest(c) = {call[c].put.id} /\ \A k : Src!Submitted(c, k) = call[c].put.record
    BY <2>1 DEF KeysOfRequest, Src!Submitted
  <2>3. \/ call[c].put.id \in Artifacts /\ call[c].put.record \in Src!ArtifactRecord
        \/ call[c].put.id \in Revisions /\ call[c].put.record \in Src!RevisionRecord
    BY <2>1, CatalogPutFields
  <2> QED BY <2>1, <2>2, <2>3 DEF Src!CatalogParameters, Src!Keys
<1> QED BY <1>1, <1>2

-----------------------------------------------------------------------------
(* The steps, by what they write.                                          *)
AdmissionStartStep(c) == Src!CallAdmit(c) \/ Src!CallPut(c) \/ Src!CallRead(c)

(* Steps that touch neither a table nor a lock.                            *)
AdmissionQuietStep(c) ==
    \/ Src!ProbeFinds(c) \/ Src!ProbeConflicts(c) \/ Src!ProbeFindsNothing(c) \/ Src!ProbeFails(c) \/ Src!ReadHead(c)
    \/ Src!PutResolved(c) \/ Src!PutOwnerMissing(c) \/ Src!CompareHead(c) \/ Src!ReadArtifact(c) \/ Src!ReadRevision(c)

AdmissionCommitStep(c) == Src!Commit(c) \/ Src!CommitLost(c)

AdmissionClientStep(c) ==
    AdmissionStartStep(c) \/ AdmissionQuietStep(c) \/ Src!LockWorld(c) \/ Src!Insert(c) \/ Src!FailAttempt(c) \/ AdmissionCommitStep(c)

LEMMA AdmissionStepKinds ==
    ASSUME Src!CatalogParameters,
           [Src!Next]_Src!vars
    PROVE  \/ UNCHANGED Src!vars
           \/ \E w \in Worlds : Src!MoveHead(w)
           \/ \E c \in Clients : AdmissionClientStep(c)
BY DEF Src!Next, Src!Step, Src!Wait, Src!StaleHead,
   Src!InsertConflict, AdmissionClientStep, AdmissionStartStep, AdmissionQuietStep,
   AdmissionCommitStep

LEMMA AdmissionQuietWrites ==
    ASSUME Src!CatalogParameters,
           NEW c, AdmissionStartStep(c) \/ AdmissionQuietStep(c)
    PROVE  UNCHANGED <<Src!tables, Src!locks>>
BY DEF AdmissionStartStep, AdmissionQuietStep, Src!CallAdmit, Src!CallPut,
   Src!CallRead, Src!Start, Src!ProbeFinds, Src!ProbeConflicts,
       Src!ProbeFindsNothing, Src!ProbeFails, Src!ReadHead, Src!PutResolved, Src!PutOwnerMissing, Src!CompareHead,
       Src!ReadArtifact, Src!ReadRevision

(* The client goes on to a stage of its call, or returns.                  *)
AdmissionMoves(c) ==
    \/ \E stage \in AdmissionStages : Src!Goto(c, stage)
    \/ \E told \in {"receipt", "conflict", "failed", "stale", "pair"} : Src!Return(c, told)

LEMMA MovesLeaveOthers ==
    ASSUME Src!CatalogParameters,
           CatalogOK, NEW c \in Clients, NEW d \in Clients, d # c, AdmissionMoves(c)
    PROVE  pc'[d] = pc[d] /\ call'[d] = call[d] /\ todo'[d] = todo[d] /\ answer'[d] = answer[d]
BY DEF CatalogOK, AdmissionMoves, Src!Return, Src!Goto

LEMMA QuietMoves ==
    ASSUME Src!CatalogParameters,
           NEW c, AdmissionQuietStep(c), ~Src!CompareHead(c)
    PROVE  AdmissionMoves(c)
<1> USE DEF AdmissionMoves, AdmissionStages
<1>1. CASE Src!ProbeFinds(c) \/ Src!ProbeConflicts(c) \/ Src!ProbeFails(c) \/ Src!PutOwnerMissing(c) \/ Src!ReadRevision(c)
  BY <1>1 DEF Src!ProbeFinds, Src!ProbeConflicts, Src!ProbeFails,
     Src!PutOwnerMissing, Src!ReadRevision
<1>2. CASE Src!ProbeFindsNothing(c)
  BY <1>2 DEF Src!ProbeFindsNothing, Src!Probed
<1>3. CASE Src!ReadHead(c)
  BY <1>3 DEF Src!ReadHead
<1>4. CASE Src!PutResolved(c) \/ Src!ReadArtifact(c)
  BY <1>4 DEF Src!PutResolved, Src!ReadArtifact
<1> QED BY <1>1, <1>2, <1>3, <1>4 DEF AdmissionQuietStep

LEMMA EndMoves ==
    ASSUME Src!CatalogParameters,
           NEW c, Src!FailAttempt(c) \/ AdmissionCommitStep(c)
    PROVE  AdmissionMoves(c) /\ Src!Unlock(c)
BY DEF AdmissionMoves, AdmissionStages, Src!FailAttempt, AdmissionCommitStep,
   Src!Commit, Src!CommitLost, Src!Write

LEMMA UnlockLeavesOthers ==
    ASSUME Src!CatalogParameters,
           CatalogOK, NEW c \in Clients, NEW d \in Clients, d # c, Src!Unlock(c)
    PROVE  /\ \A w \in Worlds : worldLock'[w] = d <=> worldLock[w] = d
           /\ \A k \in Src!Keys : fresh'[k] = d <=> fresh[k] = d
<1>1. d # None
  BY DEF Src!CatalogParameters
<1>2. \A w \in Worlds : worldLock'[w] = IF worldLock[w] = c THEN None ELSE worldLock[w]
  BY DEF Src!Unlock
<1>3. \A k \in Src!Keys : fresh'[k] = IF fresh[k] = c THEN None ELSE fresh[k]
  BY DEF Src!Unlock
<1> QED BY <1>1, <1>2, <1>3

(* A step of one client leaves the requests and the locks of the others.   *)
LEMMA OthersUntouched ==
    ASSUME Src!CatalogParameters,
           CatalogOK, NEW c \in Clients, AdmissionClientStep(c), NEW d \in Clients, d # c
    PROVE  /\ pc'[d] = pc[d]
           /\ call'[d] = call[d]
           /\ todo'[d] = todo[d]
           /\ answer'[d] = answer[d]
           /\ \A w \in Worlds : worldLock'[w] = d <=> worldLock[w] = d
           /\ \A k \in Src!Keys : fresh'[k] = d <=> fresh[k] = d
<1>1. CASE AdmissionStartStep(c) \/ AdmissionQuietStep(c)
  <2>1. worldLock' = worldLock /\ fresh' = fresh
    BY <1>1, AdmissionQuietWrites DEF Src!locks
  <2>2. CASE AdmissionStartStep(c)
    BY <2>1, <2>2 DEF CatalogOK, AdmissionStartStep, Src!CallAdmit, Src!CallPut,
       Src!CallRead, Src!Start
  <2>3. CASE Src!CompareHead(c)
    BY <2>1, <2>3 DEF CatalogOK, Src!CompareHead
  <2>4. CASE AdmissionQuietStep(c) /\ ~Src!CompareHead(c)
    <3>1. AdmissionMoves(c)
      BY <2>4, QuietMoves
    <3> QED BY <2>1, <3>1, MovesLeaveOthers
  <2> QED BY <1>1, <2>2, <2>3, <2>4
<1>2. CASE Src!LockWorld(c)
  BY <1>2 DEF Src!CatalogParameters, CatalogOK, Src!LockWorld, Src!TakeWorld
<1>3. CASE Src!Insert(c)
  BY <1>3 DEF Src!CatalogParameters, CatalogOK, Src!Insert
<1>4. CASE Src!FailAttempt(c) \/ AdmissionCommitStep(c)
  BY <1>4, EndMoves, MovesLeaveOthers, UnlockLeavesOthers
<1> QED BY <1>1, <1>2, <1>3, <1>4 DEF AdmissionClientStep

-----------------------------------------------------------------------------
(* The tables change in a commit, and only in the rows it owns.            *)
LEMMA AdmissionCommitWrites ==
    ASSUME Src!CatalogParameters,
           CatalogOK, FreshKeyOwned, NEW c \in Clients, AdmissionCommitStep(c)
    PROVE  /\ pc[c] = "inserting" /\ todo[c] = <<>>
           /\ call[c] \in AdmitRequest \cup PutRequest
           /\ head' = head
           /\ \A k \in Src!Keys : Src!Record(k)' = IF fresh[k] = c THEN Src!Submitted(c, k) ELSE Src!Record(k)
           /\ \A k \in Src!Keys : fresh[k] = c => k \in KeysOfRequest(c)
           /\ pc'[c] \in {"idle", "recovering"}
           /\ pc'[c] = "recovering" => call'[c] \in AdmitRequest
           /\ \A k \in Src!Keys : fresh'[k] # c
           /\ \A w \in Worlds : worldLock'[w] # c
<1>1. /\ pc[c] = "inserting" /\ todo[c] = <<>>
      /\ artifacts' = [a \in Artifacts |-> IF fresh[a] = c THEN Src!Submitted(c, a) ELSE artifacts[a]]
      /\ revisions' = [r \in Revisions |-> IF fresh[r] = c THEN Src!Submitted(c, r) ELSE revisions[r]]
      /\ receipts' = [m \in Admissions |-> IF fresh[m] = c THEN Src!Submitted(c, m) ELSE receipts[m]]
      /\ head' = head
      /\ Src!Unlock(c)
  BY DEF AdmissionCommitStep, Src!Commit, Src!CommitLost, Src!Write
<1>2. call[c] \in AdmitRequest \cup PutRequest
  BY <1>1 DEF CatalogOK
<1>3. /\ \A a \in Artifacts : Src!Record(a)' = artifacts'[a]
      /\ \A r \in Revisions : Src!Record(r)' = revisions'[r]
      /\ \A m \in Admissions : Src!Record(m)' = receipts'[m]
  BY DEF Src!CatalogParameters, Src!Record
<1>4. \A k \in Src!Keys : Src!Record(k)' = IF fresh[k] = c THEN Src!Submitted(c, k) ELSE Src!Record(k)
  BY <1>1, <1>3, RecordIs DEF Src!Keys
<1>5. \A k \in Src!Keys : fresh[k] = c => k \in KeysOfRequest(c)
  BY DEF Src!CatalogParameters, FreshKeyOwned
<1>6. pc'[c] \in {"idle", "recovering"} /\ (pc'[c] = "recovering" => call'[c] \in AdmitRequest)
  BY <1>2, RequestKinds DEF AdmissionCommitStep, Src!Commit, Src!CommitLost,
     Src!Return, Src!Goto, CatalogOK
<1>7. (\A k \in Src!Keys : fresh'[k] # c) /\ \A w \in Worlds : worldLock'[w] # c
  BY <1>1 DEF Src!CatalogParameters, Src!Unlock
<1> QED BY <1>1, <1>2, <1>4, <1>5, <1>6, <1>7

LEMMA CatalogKept ==
    ASSUME Src!CatalogParameters,
           NEW c, AdmissionClientStep(c), ~AdmissionCommitStep(c)
    PROVE  UNCHANGED Src!tables
BY AdmissionQuietWrites DEF AdmissionClientStep, Src!LockWorld, Src!Insert,
   Src!FailAttempt

(* A stored row is never changed.                                          *)
LEMMA WriteOnce ==
    ASSUME Src!CatalogParameters,
           CatalogOK, FreshKeyOwned, [Src!Next]_Src!vars, NEW k \in Src!Keys, Src!Record(k) # None
    PROVE  Src!Record(k)' = Src!Record(k)
<1>1. ASSUME UNCHANGED <<artifacts, revisions, receipts>>
      PROVE  Src!Record(k)' = Src!Record(k)
  BY <1>1 DEF Src!Record
<1>2. ASSUME NEW c \in Clients, AdmissionCommitStep(c)
      PROVE  Src!Record(k)' = Src!Record(k)
  <2>1. fresh[k] # c
    BY DEF Src!CatalogParameters, FreshKeyOwned
  <2> QED BY <1>2, <2>1, AdmissionCommitWrites
<1> QED BY <1>1, <1>2, AdmissionStepKinds, CatalogKept DEF Src!MoveHead, Src!vars,
           Src!tables

-----------------------------------------------------------------------------
(* Types.                                                                  *)
LEMMA CatalogTypeInit ==
    ASSUME Src!CatalogParameters
    PROVE  Src!Init => CatalogOK
BY DEF Src!CatalogParameters, Src!Init, CatalogOK, AdmissionStages

(* What a stage says of the request of c, after a step.                    *)
AdmissionStageFits(c) ==
    /\ pc[c] \in AdmissionStages
    /\ call[c] \in CatalogRequest \cup {None}
    /\ pc[c] \in {"probing", "reading head", "attempting", "recovering", "comparing"} =>
          call[c] \in AdmitRequest
    /\ pc[c] \in {"locking", "inserting"} => call[c] \in AdmitRequest \cup PutRequest
    /\ pc[c] = "putting" => call[c] \in PutRequest
    /\ pc[c] \in {"reading pair", "reading revision"} => call[c] \in ReadRequest

LEMMA AdmissionStageStep ==
    ASSUME Src!CatalogParameters,
           CatalogOK, NEW c \in Clients, AdmissionClientStep(c)
    PROVE  AdmissionStageFits(c)'
<1> USE DEF AdmissionStageFits, AdmissionStages
<1>0. AdmissionStageFits(c) /\ DOMAIN pc = Clients /\ DOMAIN call = Clients
  BY DEF CatalogOK
<1>1. CASE AdmissionStartStep(c)
  <2>1. \/ \E m \in Commands : pc'[c] = "probing" /\ call'[c] = [kind |-> "admit", command |-> m]
        \/ \E p \in CatalogPuts : pc'[c] = "putting" /\ call'[c] = [kind |-> "put", put |-> p]
        \/ \E a \in Artifacts, r \in Revisions :
              pc'[c] = "reading pair" /\ call'[c] = [kind |-> "read", artifact |-> a, revision |-> r]
    BY <1>0, <1>1 DEF AdmissionStartStep, Src!CallAdmit, Src!CallPut,
       Src!CallRead, Src!Start
  <2>2. CASE \E m \in Commands : pc'[c] = "probing" /\ call'[c] = [kind |-> "admit", command |-> m]
    BY <2>2 DEF AdmitRequest, CatalogRequest
  <2>3. CASE \E p \in CatalogPuts : pc'[c] = "putting" /\ call'[c] = [kind |-> "put", put |-> p]
    BY <2>3 DEF PutRequest, CatalogRequest
  <2>4. CASE \E a \in Artifacts, r \in Revisions :
              pc'[c] = "reading pair" /\ call'[c] = [kind |-> "read", artifact |-> a, revision |-> r]
    <3>1. PICK a \in Artifacts, r \in Revisions :
              pc'[c] = "reading pair" /\ call'[c] = [kind |-> "read", artifact |-> a, revision |-> r]
      BY <2>4
    <3>2. [kind |-> "read", artifact |-> a, revision |-> r] \in ReadRequest
      BY DEF ReadRequest
    <3> QED BY <3>1, <3>2 DEF CatalogRequest
  <2> QED BY <2>1, <2>2, <2>3, <2>4
<1>2. CASE pc'[c] = "idle" /\ call'[c] = None
  BY <1>2
<1>3. CASE AdmissionQuietStep(c)
  <2> DEFINE On(from, to) == pc[c] = from /\ pc'[c] = to /\ call'[c] = call[c]
             Ends == pc'[c] = "idle" /\ call'[c] = None
  <2>1. CASE Src!ProbeFinds(c) \/ Src!ProbeConflicts(c) \/ Src!ProbeFails(c) \/ Src!PutOwnerMissing(c) \/ Src!ReadRevision(c)
    <3>1. Ends
      BY <1>0, <2>1 DEF Src!ProbeFinds, Src!ProbeConflicts, Src!ProbeFails,
         Src!PutOwnerMissing, Src!ReadRevision, Src!Return
    <3> QED BY <3>1
  <2>2. CASE Src!ProbeFindsNothing(c)
    <3>1. On("probing", "reading head") \/ On("attempting", "locking") \/ Ends
      <4>1. CASE pc[c] = "probing"
        BY <1>0, <2>2, <4>1 DEF Src!ProbeFindsNothing, Src!Goto
      <4>2. CASE pc[c] = "attempting"
        BY <1>0, <2>2, <4>2 DEF Src!ProbeFindsNothing, Src!Goto
      <4>3. CASE pc[c] = "recovering"
        BY <1>0, <2>2, <4>3 DEF Src!ProbeFindsNothing, Src!Return
      <4> QED BY <2>2, <4>1, <4>2, <4>3 DEF Src!ProbeFindsNothing, Src!Probed
    <3> QED BY <1>0, <3>1
  <2>3. CASE Src!ReadHead(c)
    <3>1. On("reading head", "attempting") \/ Ends
      BY <1>0, <2>3 DEF Src!ReadHead, Src!Return, Src!Goto
    <3> QED BY <1>0, <3>1
  <2>4. CASE Src!PutResolved(c)
    <3>1. On("putting", "locking")
      BY <1>0, <2>4 DEF Src!PutResolved, Src!Goto
    <3> QED BY <1>0, <3>1
  <2>5. CASE Src!CompareHead(c)
    <3>1. On("comparing", "inserting")
      BY <1>0, <2>5 DEF Src!CompareHead
    <3> QED BY <1>0, <3>1
  <2>6. CASE Src!ReadArtifact(c)
    <3>1. On("reading pair", "reading revision")
      BY <1>0, <2>6 DEF Src!ReadArtifact, Src!Goto
    <3> QED BY <1>0, <3>1
  <2> QED BY <1>3, <2>1, <2>2, <2>3, <2>4, <2>5, <2>6 DEF AdmissionQuietStep
<1>4. CASE Src!LockWorld(c)
  <2>1. /\ pc[c] = "locking" /\ call' = call
        /\ pc'[c] = IF call[c].kind = "admit" THEN "comparing" ELSE "inserting"
    BY <1>0, <1>4 DEF Src!LockWorld
  <2> QED BY <1>0, <2>1, RequestKinds
<1>5. CASE Src!Insert(c)
  BY <1>0, <1>5 DEF Src!Insert
<1>6. CASE Src!FailAttempt(c)
  <2>1. /\ pc[c] \in {"attempting", "locking", "comparing", "inserting"}
        /\ \/ call[c].kind = "admit" /\ pc'[c] = "recovering" /\ call'[c] = call[c]
           \/ pc'[c] = "idle" /\ call'[c] = None
    BY <1>0, <1>6 DEF Src!FailAttempt, Src!InTransaction, Src!Return,
       Src!Goto
  <2> QED BY <1>0, <2>1, <1>2, RequestKinds
<1>7. CASE AdmissionCommitStep(c)
  <2>1. /\ pc[c] = "inserting"
        /\ \/ call[c].kind = "admit" /\ pc'[c] = "recovering" /\ call'[c] = call[c]
           \/ pc'[c] = "idle" /\ call'[c] = None
    BY <1>0, <1>7 DEF AdmissionCommitStep, Src!Commit, Src!CommitLost,
       Src!Write, Src!Return, Src!Goto
  <2> QED BY <1>0, <2>1, <1>2, RequestKinds
<1> QED BY <1>1, <1>3, <1>4, <1>5, <1>6, <1>7 DEF AdmissionClientStep

(* What is still to insert is a sequence of keys.                          *)
LEMMA ShortSeqs ==
    ASSUME Src!CatalogParameters,
           NEW S, NEW x \in S, NEW y \in S, NEW z \in S
    PROVE  <<x>> \in Seq(S) /\ <<x, y, z>> \in Seq(S)
OBVIOUS

LEMMA ShortenTodo ==
    ASSUME Src!CatalogParameters,
           NEW S, NEW s \in Seq(S), s # <<>>
    PROVE  Tail(s) \in Seq(S)
OBVIOUS

LEMMA TodoStep ==
    ASSUME Src!CatalogParameters,
           CatalogOK, NEW c \in Clients, AdmissionClientStep(c)
    PROVE  todo' \in [Clients -> Seq(Src!Keys)]
<1>0. <<>> \in Seq(Src!Keys) /\ todo \in [Clients -> Seq(Src!Keys)]
  <2>1. <<>> \in Seq(Src!Keys)
    OBVIOUS
  <2> QED BY <2>1 DEF CatalogOK
<1>1. CASE AdmissionStartStep(c)
  <2>1. todo' = [todo EXCEPT ![c] = <<>>]
    BY <1>1 DEF AdmissionStartStep, Src!CallAdmit, Src!CallPut, Src!CallRead,
       Src!Start
  <2> QED BY <1>0, <2>1
<1>2. CASE (AdmissionQuietStep(c) /\ ~Src!CompareHead(c)) \/ Src!FailAttempt(c) \/ AdmissionCommitStep(c)
  <2>1. AdmissionMoves(c)
    BY <1>2, QuietMoves, EndMoves
  <2>2. todo' = todo \/ todo' = [todo EXCEPT ![c] = <<>>]
    BY <2>1 DEF AdmissionMoves, Src!Return, Src!Goto
  <2> QED BY <1>0, <2>2
<1>3. CASE Src!CompareHead(c)
  <2>1. Src!Cmd(c).artifact \in Src!Keys /\ Src!Cmd(c).revision \in Src!Keys /\ Src!Cmd(c).adm \in Src!Keys
    BY <1>3, RequestKinds, CommandFields DEF Src!CompareHead, Src!Cmd, Src!Keys,
       CatalogOK
  <2>2. PICK x \in Src!Keys, y \in Src!Keys, z \in Src!Keys :
            x = Src!Cmd(c).artifact /\ y = Src!Cmd(c).revision /\ z = Src!Cmd(c).adm
    BY <2>1
  <2>3. <<x, y, z>> \in Seq(Src!Keys)
    BY ShortSeqs
  <2>4. todo' = [todo EXCEPT ![c] = <<x, y, z>>]
    BY <1>3, <2>2 DEF Src!CompareHead
  <2> QED BY <1>0, <2>3, <2>4
<1>4. CASE Src!LockWorld(c)
  <2>1. todo' = [todo EXCEPT ![c] = IF call[c].kind = "put" THEN <<call[c].put.id>> ELSE <<>>]
        /\ call[c] \in AdmitRequest \cup PutRequest
    BY <1>4 DEF Src!LockWorld, CatalogOK
  <2>2. call[c].kind = "put" => call[c].put.id \in Src!Keys
    BY <2>1, RequestKinds, CatalogPutFields DEF Src!Keys
  <2>3. CASE call[c].kind = "put"
    <3>1. PICK x \in Src!Keys : x = call[c].put.id
      BY <2>2, <2>3
    <3>2. <<x>> \in Seq(Src!Keys)
      BY ShortSeqs
    <3>3. todo' = [todo EXCEPT ![c] = <<x>>]
      BY <2>1, <2>3, <3>1
    <3> QED BY <1>0, <3>2, <3>3
  <2>4. CASE call[c].kind # "put"
    <3>1. todo' = [todo EXCEPT ![c] = <<>>]
      BY <2>1, <2>4
    <3> QED BY <1>0, <3>1
  <2> QED BY <2>3, <2>4
<1>5. CASE Src!Insert(c)
  <2>1. PICK s \in Seq(Src!Keys) : s = todo[c]
    BY <1>0
  <2>2. s # <<>> /\ todo' = [todo EXCEPT ![c] = Tail(s)]
    BY <1>5, <2>1 DEF Src!Insert
  <2>3. Tail(s) \in Seq(Src!Keys)
    BY <2>2, ShortenTodo
  <2> QED BY <1>0, <2>2, <2>3
<1> QED BY <1>1, <1>2, <1>3, <1>4, <1>5 DEF AdmissionClientStep

LEMMA CatalogTableTypes ==
    ASSUME Src!CatalogParameters,
           CatalogOK, FreshKeyOwned, NEW c \in Clients, AdmissionCommitStep(c)
    PROVE  /\ artifacts' \in [Artifacts -> Src!ArtifactRecord \cup {None}]
           /\ revisions' \in [Revisions -> Src!RevisionRecord \cup {None}]
           /\ receipts' \in [Admissions -> Commands \cup {None}]
<1>1. /\ artifacts' = [a \in Artifacts |-> IF fresh[a] = c THEN Src!Submitted(c, a) ELSE artifacts[a]]
      /\ revisions' = [r \in Revisions |-> IF fresh[r] = c THEN Src!Submitted(c, r) ELSE revisions[r]]
      /\ receipts' = [m \in Admissions |-> IF fresh[m] = c THEN Src!Submitted(c, m) ELSE receipts[m]]
  BY DEF AdmissionCommitStep, Src!Commit, Src!CommitLost, Src!Write
<1>2. call[c] \in AdmitRequest \cup PutRequest /\ \A k \in Src!Keys : fresh[k] = c => k \in KeysOfRequest(c)
  BY AdmissionCommitWrites
<1>3. \A a \in Artifacts : fresh[a] = c => Src!Submitted(c, a) \in Src!ArtifactRecord
  BY <1>2, Submissions DEF Src!Keys
<1>4. \A r \in Revisions : fresh[r] = c => Src!Submitted(c, r) \in Src!RevisionRecord
  BY <1>2, Submissions DEF Src!Keys
<1>5. \A m \in Admissions : fresh[m] = c => Src!Submitted(c, m) \in Commands
  BY <1>2, Submissions DEF Src!Keys
<1> QED BY <1>1, <1>3, <1>4, <1>5 DEF CatalogOK

LEMMA AdmissionLockTypes ==
    ASSUME Src!CatalogParameters,
           CatalogOK, NEW c \in Clients, AdmissionClientStep(c)
    PROVE  /\ fresh' \in [Src!Keys -> Clients \cup {None}]
           /\ worldLock' \in [Worlds -> Clients \cup {None}]
<1> USE DEF CatalogOK
<1>1. CASE AdmissionStartStep(c) \/ AdmissionQuietStep(c)
  BY <1>1, AdmissionQuietWrites DEF Src!locks
<1>2. CASE Src!LockWorld(c)
  <2>1. fresh' = fresh /\ worldLock' = [worldLock EXCEPT ![Src!WorldOf(c)] = c]
    BY <1>2 DEF Src!LockWorld, Src!TakeWorld
  <2> QED BY <2>1
<1>3. CASE Src!Insert(c)
  <2>1. worldLock' = worldLock /\ (fresh' = fresh \/ \E k : fresh' = [fresh EXCEPT ![k] = c])
    BY <1>3 DEF Src!Insert
  <2> QED BY <2>1
<1>4. CASE Src!FailAttempt(c) \/ AdmissionCommitStep(c)
  BY <1>4, EndMoves DEF Src!Unlock
<1> QED BY <1>1, <1>2, <1>3, <1>4 DEF AdmissionClientStep

LEMMA CatalogTypeStep ==
    ASSUME Src!CatalogParameters,
           CatalogOK, FreshKeyOwned, [Src!Next]_Src!vars
    PROVE  CatalogOK'
<1>1. CASE UNCHANGED Src!vars
  BY <1>1 DEF Src!vars, Src!tables, Src!locks, Src!session, CatalogOK
<1>2. ASSUME NEW w \in Worlds, Src!MoveHead(w)
      PROVE  CatalogOK'
  BY <1>2 DEF Src!MoveHead, Src!locks, Src!session, CatalogOK
<1>3. ASSUME NEW c \in Clients, AdmissionClientStep(c)
      PROVE  CatalogOK'
  <2>1. /\ DOMAIN head' = Worlds
        /\ artifacts' \in [Artifacts -> Src!ArtifactRecord \cup {None}]
        /\ revisions' \in [Revisions -> Src!RevisionRecord \cup {None}]
        /\ receipts' \in [Admissions -> Commands \cup {None}]
    <3>1. CASE AdmissionCommitStep(c)
      BY <3>1, CatalogTableTypes, AdmissionCommitWrites DEF CatalogOK
    <3>2. CASE ~AdmissionCommitStep(c)
      BY <1>3, <3>2, CatalogKept DEF Src!tables, CatalogOK
    <3> QED BY <3>1, <3>2
  <2>2. DOMAIN pc' = Clients /\ DOMAIN call' = Clients /\ DOMAIN answer' = Clients
        /\ pc' = [d \in Clients |-> pc'[d]] /\ call' = [d \in Clients |-> call'[d]]
    <3>1. CASE AdmissionStartStep(c)
      BY <3>1 DEF CatalogOK, AdmissionStartStep, Src!CallAdmit, Src!CallPut,
         Src!CallRead, Src!Start
    <3>2. CASE Src!CompareHead(c) \/ Src!LockWorld(c) \/ Src!Insert(c)
      BY <3>2 DEF CatalogOK, Src!CompareHead, Src!LockWorld, Src!Insert
    <3>3. CASE AdmissionMoves(c)
      BY <3>3 DEF CatalogOK, AdmissionMoves, Src!Return, Src!Goto
    <3> QED BY <1>3, <3>1, <3>2, <3>3, QuietMoves, EndMoves DEF AdmissionClientStep
  <2>3. \A d \in Clients : AdmissionStageFits(d)'
    <3>1. \A d \in Clients : AdmissionStageFits(d)
      BY DEF CatalogOK, AdmissionStageFits
    <3>2. ASSUME NEW d \in Clients, d # c
          PROVE  AdmissionStageFits(d)'
      BY <1>3, <3>1, <3>2, OthersUntouched DEF AdmissionStageFits
    <3> QED BY <1>3, <3>2, AdmissionStageStep
  <2> QED BY <1>3, <2>1, <2>2, <2>3, AdmissionLockTypes, TodoStep DEF CatalogOK,
             AdmissionStageFits
<1> QED BY <1>1, <1>2, <1>3, AdmissionStepKinds

-----------------------------------------------------------------------------
(* The head an admission compared stays, because its world is locked.      *)

(* A client is comparing or inserting by one of three steps only.          *)
LEMMA EntersTransaction ==
    ASSUME Src!CatalogParameters,
           CatalogOK, NEW c \in Clients, AdmissionClientStep(c), pc'[c] \in {"comparing", "inserting"}
    PROVE  Src!CompareHead(c) \/ Src!LockWorld(c) \/ Src!Insert(c)
<1>0. DOMAIN pc = Clients
  BY DEF CatalogOK
<1>1. CASE AdmissionStartStep(c)
  BY <1>0, <1>1 DEF AdmissionStartStep, Src!CallAdmit, Src!CallPut,
     Src!CallRead, Src!Start
<1>2. CASE Src!ProbeFinds(c) \/ Src!ProbeConflicts(c) \/ Src!ProbeFails(c) \/ Src!PutOwnerMissing(c) \/ Src!ReadRevision(c)
  BY <1>0, <1>2 DEF Src!ProbeFinds, Src!ProbeConflicts, Src!ProbeFails,
     Src!PutOwnerMissing, Src!ReadRevision, Src!Return
<1>3. CASE Src!ProbeFindsNothing(c)
  BY <1>0, <1>3 DEF Src!ProbeFindsNothing, Src!Probed, Src!Return,
     Src!Goto
<1>4. CASE Src!ReadHead(c) \/ Src!PutResolved(c) \/ Src!ReadArtifact(c)
  BY <1>0, <1>4 DEF Src!ReadHead, Src!PutResolved, Src!ReadArtifact,
     Src!Return, Src!Goto
<1>5. CASE Src!FailAttempt(c) \/ AdmissionCommitStep(c)
  BY <1>0, <1>5 DEF Src!FailAttempt, AdmissionCommitStep, Src!Commit,
     Src!CommitLost, Src!Return, Src!Goto
<1> QED BY <1>1, <1>2, <1>3, <1>4, <1>5 DEF AdmissionClientStep, AdmissionQuietStep

LEMMA NotInserting ==
    ASSUME Src!CatalogParameters,
           NEW c, AdmissionStartStep(c) \/ AdmissionQuietStep(c) \/ Src!LockWorld(c)
    PROVE  pc[c] # "inserting"
BY DEF AdmissionStartStep, AdmissionQuietStep, Src!CallAdmit, Src!CallPut,
   Src!CallRead, Src!Start, Src!ProbeFinds, Src!ProbeConflicts,
       Src!ProbeFindsNothing, Src!ProbeFails, Src!ReadHead, Src!PutResolved, Src!PutOwnerMissing, Src!CompareHead,
       Src!ReadArtifact, Src!ReadRevision, Src!LockWorld, Src!Probed

LEMMA HeadKept ==
    ASSUME Src!CatalogParameters,
           CatalogOK, FreshKeyOwned, NEW c \in Clients, AdmissionClientStep(c)
    PROVE  head' = head
BY AdmissionCommitWrites, CatalogKept DEF Src!tables

LEMMA HeadHeldStep ==
    ASSUME Src!CatalogParameters,
           CatalogOK, HeadHeld, FreshKeyOwned, [Src!Next]_Src!vars
    PROVE  HeadHeld'
<1>1. CASE UNCHANGED Src!vars
  BY <1>1 DEF Src!vars, Src!tables, Src!locks, Src!session, HeadHeld,
     Src!Cmd
<1>2. ASSUME NEW w \in Worlds, Src!MoveHead(w)
      PROVE  HeadHeld'
  <2>1. UNCHANGED <<worldLock, pc, call>> /\ worldLock[w] = None
        /\ \A x \in Worlds : x # w => head'[x] = head[x]
    BY <1>2 DEF Src!MoveHead, Src!locks, Src!session, CatalogOK
  <2>2. ASSUME NEW c \in Clients, pc[c] = "inserting", call[c].kind = "admit"
        PROVE  head'[Src!Cmd(c).world] = head[Src!Cmd(c).world]
    <3>1. Src!Cmd(c).world \in Worlds
      BY <2>2, RequestKinds, CommandFields DEF CatalogOK, Src!Cmd
    <3>2. worldLock[Src!Cmd(c).world] = c /\ c # None
      BY <2>2 DEF Src!CatalogParameters, HeadHeld
    <3> QED BY <2>1, <3>1, <3>2
  <2> QED BY <2>1, <2>2 DEF HeadHeld, Src!Cmd
<1>3. ASSUME NEW c \in Clients, AdmissionClientStep(c)
      PROVE  HeadHeld'
  <2>0. head' = head
    BY <1>3, HeadKept
  <2> DEFINE Held(d) ==
        /\ pc[d] \in {"comparing", "inserting"} /\ call[d].kind = "admit" =>
              worldLock[Src!Cmd(d).world] = d
        /\ pc[d] = "inserting" /\ call[d].kind = "admit" =>
              head[Src!Cmd(d).world] = Src!Cmd(d).expected
  <2>1. ASSUME NEW d \in Clients, d # c
        PROVE  Held(d)'
    <3>1. pc'[d] = pc[d] /\ call'[d] = call[d]
          /\ \A w \in Worlds : worldLock'[w] = d <=> worldLock[w] = d
      BY <1>3, <2>1, OthersUntouched
    <3>2. pc[d] \in {"comparing", "inserting"} /\ call[d].kind = "admit" => Src!Cmd(d).world \in Worlds
      BY RequestKinds, CommandFields DEF CatalogOK, Src!Cmd
    <3>3. Src!Cmd(d)' = Src!Cmd(d)
      BY <3>1 DEF Src!Cmd
    <3> QED BY <2>0, <3>1, <3>2, <3>3 DEF HeadHeld
  <2>2. Held(c)'
    <3>1. CASE pc'[c] \notin {"comparing", "inserting"}
      BY <3>1
    <3>2. CASE Src!CompareHead(c)
      <4>1. pc[c] = "comparing" /\ UNCHANGED <<call, worldLock>> /\ head[Src!Cmd(c).world] = Src!Cmd(c).expected
        BY <3>2 DEF Src!CompareHead, Src!locks
      <4> QED BY <2>0, <4>1 DEF HeadHeld, Src!Cmd
    <3>3. CASE Src!LockWorld(c)
      <4>1. /\ pc[c] = "locking" /\ call' = call
            /\ worldLock' = [worldLock EXCEPT ![Src!WorldOf(c)] = c]
            /\ call[c] \in AdmitRequest \cup PutRequest
            /\ pc'[c] = IF call[c].kind = "admit" THEN "comparing" ELSE "inserting"
        BY <3>3 DEF Src!LockWorld, Src!TakeWorld, CatalogOK
      <4>2. CASE call[c].kind = "admit"
        <5>1. call[c] \in AdmitRequest /\ Src!WorldOf(c) = Src!Cmd(c).world
          BY <4>1, <4>2, RequestKinds DEF Src!WorldOf
        <5>2. Src!Cmd(c).world \in Worlds
          BY <5>1, RequestKinds, CommandFields DEF Src!Cmd
        <5>3. worldLock'[Src!Cmd(c).world] = c
          BY <4>1, <5>1, <5>2 DEF CatalogOK
        <5> QED BY <4>1, <4>2, <5>3 DEF Src!Cmd
      <4> QED BY <4>1, <4>2
    <3>4. CASE Src!Insert(c)
      <4>1. UNCHANGED <<pc, call, worldLock>>
        BY <3>4 DEF Src!Insert
      <4> QED BY <2>0, <4>1 DEF HeadHeld, Src!Cmd
    <3> QED BY <1>3, <3>1, <3>2, <3>3, <3>4, EntersTransaction
  <2> QED BY <2>1, <2>2 DEF HeadHeld
<1> QED BY <1>1, <1>2, <1>3, AdmissionStepKinds

-----------------------------------------------------------------------------
(* What a transaction has inserted.                                        *)
LEMMA TailHolds ==
    ASSUME Src!CatalogParameters,
           NEW S, NEW s \in Seq(S), s # <<>>
    PROVE  /\ \E i \in 1..Len(s) : s[i] = Head(s)
           /\ \A j \in 1..Len(Tail(s)) : \E i \in 1..Len(s) : s[i] = Tail(s)[j]
           /\ \A i \in 1..Len(s) :
                 s[i] = Head(s) \/ \E j \in 1..Len(Tail(s)) : Tail(s)[j] = s[i]
<1>1. Len(s) \in Nat \ {0} /\ Len(Tail(s)) = Len(s) - 1
  OBVIOUS
<1>2. \A j \in 1..Len(Tail(s)) : Tail(s)[j] = s[j + 1] /\ j + 1 \in 1..Len(s)
  BY <1>1
<1>3. Head(s) = s[1] /\ 1 \in 1..Len(s)
  BY <1>1
<1>4. \A i \in 1..Len(s) : i = 1 \/ (i - 1 \in 1..Len(Tail(s)) /\ Tail(s)[i - 1] = s[i])
  BY <1>1, <1>2
<1> QED BY <1>2, <1>3, <1>4

(* The key a transaction inserts next leaves its list, no other does.      *)
LEMMA TodoShrinks ==
    ASSUME Src!CatalogParameters,
           CatalogOK, NEW c \in Clients, Src!Insert(c)
    PROVE  /\ Head(todo[c]) \in TodoKeys(c)
           /\ TodoKeys(c)' \subseteq TodoKeys(c)
           /\ TodoKeys(c) \subseteq TodoKeys(c)' \cup {Head(todo[c])}
<1>1. PICK s \in Seq(Src!Keys) : s = todo[c]
  BY DEF CatalogOK
<1>2. s # <<>> /\ todo'[c] = Tail(s)
  BY <1>1 DEF Src!Insert, CatalogOK
<1>3. TodoKeys(c) = {s[i] : i \in 1..Len(s)} /\ TodoKeys(c)' = {Tail(s)[i] : i \in 1..Len(Tail(s))}
  BY <1>1, <1>2 DEF TodoKeys
<1> HIDE DEF TodoKeys
<1> QED BY <1>1, <1>2, <1>3, TailHolds

LEMMA InsertWrites ==
    ASSUME Src!CatalogParameters,
           CatalogOK, NEW c \in Clients, Src!Insert(c)
    PROVE  /\ pc[c] = "inserting" /\ UNCHANGED <<Src!tables, pc, call>>
           /\ ~Src!Conflicts(c, Head(todo[c]))
           /\ Src!Record(Head(todo[c])) = None /\ Head(todo[c]) \in Src!Keys => fresh'[Head(todo[c])] = c
           /\ \A k \in Src!Keys : fresh'[k] = fresh[k]
                              \/ (fresh'[k] = c /\ k = Head(todo[c]) /\ Src!Record(k) = None /\ fresh[k] = None)
<1>1. /\ pc[c] = "inserting" /\ UNCHANGED <<Src!tables, pc, call>>
      /\ ~Src!Conflicts(c, Head(todo[c])) /\ fresh[Head(todo[c])] = None
      /\ fresh' = IF Src!Record(Head(todo[c])) = None THEN [fresh EXCEPT ![Head(todo[c])] = c] ELSE fresh
  BY DEF Src!Insert
<1> QED BY <1>1 DEF CatalogOK

LEMMA KeysKept ==
    ASSUME Src!CatalogParameters,
           NEW d, call'[d] = call[d]
    PROVE  KeysOfRequest(d)' = KeysOfRequest(d) /\ Src!Cmd(d)' = Src!Cmd(d) /\ \A k : Src!Submitted(d, k)' = Src!Submitted(d, k)
BY DEF KeysOfRequest, Src!Cmd, Src!Submitted

LEMMA FreshOwnedStep ==
    ASSUME Src!CatalogParameters,
           CatalogOK, FreshKeyOwned, InsertedSettled, [Src!Next]_Src!vars
    PROVE  FreshKeyOwned'
<1>1. ASSUME UNCHANGED <<artifacts, revisions, receipts, fresh, pc, call>>
      PROVE  FreshKeyOwned'
  BY <1>1 DEF FreshKeyOwned, Src!Record, KeysOfRequest, Src!Cmd
<1>2. ASSUME NEW c \in Clients, AdmissionClientStep(c)
      PROVE  FreshKeyOwned'
  <2> SUFFICES ASSUME NEW k \in Src!Keys, fresh'[k] # None
               PROVE  pc'[fresh'[k]] = "inserting" /\ k \in KeysOfRequest(fresh[k])' /\ Src!Record(k)' = None
    BY DEF FreshKeyOwned
  <2>1. PICK e \in Clients : e = fresh'[k]
    BY <1>2, AdmissionLockTypes
  <2>2. CASE e # c
    <3>1. fresh[k] = e /\ pc'[e] = pc[e] /\ call'[e] = call[e]
      BY <1>2, <2>1, <2>2, OthersUntouched
    <3>2. pc[e] = "inserting" /\ k \in KeysOfRequest(e) /\ Src!Record(k) = None
      BY <3>1 DEF Src!CatalogParameters, FreshKeyOwned
    <3>3. Src!Record(k)' = None
      <4>1. CASE AdmissionCommitStep(c)
        BY <2>2, <3>1, <3>2, <4>1, AdmissionCommitWrites
      <4>2. CASE ~AdmissionCommitStep(c)
        BY <1>2, <3>2, <4>2, CatalogKept DEF Src!tables, Src!Record
      <4> QED BY <4>1, <4>2
    <3>4. k \in KeysOfRequest(e)'
      BY <3>1, <3>2, KeysKept
    <3> QED BY <2>1, <3>1, <3>2, <3>3, <3>4 DEF KeysOfRequest, Src!Cmd
  <2>3. CASE e = c
    <3>1. CASE AdmissionStartStep(c) \/ AdmissionQuietStep(c) \/ Src!LockWorld(c)
      <4>1. fresh[k] = c
        BY <2>1, <2>3, <3>1, AdmissionQuietWrites DEF Src!locks, Src!LockWorld
      <4>2. pc[c] = "inserting" /\ c # None
        BY <4>1 DEF Src!CatalogParameters, FreshKeyOwned
      <4> QED BY <3>1, <4>2, NotInserting
    <3>2. CASE Src!FailAttempt(c) \/ AdmissionCommitStep(c)
      <4>1. Src!Unlock(c)
        BY <3>2, EndMoves
      <4> QED BY <2>1, <2>3, <4>1 DEF Src!CatalogParameters, Src!Unlock
    <3>3. CASE Src!Insert(c)
      <4>1. /\ pc[c] = "inserting" /\ UNCHANGED <<Src!tables, pc, call>>
            /\ \/ fresh[k] = c
               \/ k = Head(todo[c]) /\ Src!Record(k) = None
        BY <2>1, <2>3, <3>3, InsertWrites
      <4>2. k \in KeysOfRequest(c) /\ Src!Record(k) = None
        <5>1. CASE fresh[k] = c
          BY <5>1 DEF Src!CatalogParameters, FreshKeyOwned
        <5>2. CASE k = Head(todo[c]) /\ Src!Record(k) = None
          BY <3>3, <4>1, <5>2, TodoShrinks DEF InsertedSettled
        <5> QED BY <4>1, <5>1, <5>2
      <4>3. k \in KeysOfRequest(c)' /\ Src!Record(k)' = None
        BY <4>1, <4>2, KeysKept DEF Src!tables, Src!Record
      <4> QED BY <2>1, <2>3, <4>1, <4>3 DEF KeysOfRequest, Src!Cmd
    <3> QED BY <1>2, <3>1, <3>2, <3>3 DEF AdmissionClientStep
  <2> QED BY <2>2, <2>3
<1> QED BY <1>1, <1>2, AdmissionStepKinds DEF Src!vars, Src!tables, Src!locks,
           Src!session, Src!MoveHead

(* The list a transaction begins with is all its keys.                     *)
LEMMA FirstTodo ==
    ASSUME Src!CatalogParameters,
           CatalogOK, NEW c \in Clients, Src!CompareHead(c) \/ Src!LockWorld(c), pc'[c] = "inserting"
    PROVE  TodoKeys(c)' = KeysOfRequest(c)'
<1>1. CASE Src!CompareHead(c)
  <2>1. todo'[c] = <<Src!Cmd(c).artifact, Src!Cmd(c).revision, Src!Cmd(c).adm>> /\ call' = call
        /\ call[c].kind = "admit"
    BY <1>1, RequestKinds DEF Src!CompareHead, CatalogOK
  <2>2. KeysOfRequest(c)' = {Src!Cmd(c).artifact, Src!Cmd(c).revision, Src!Cmd(c).adm}
    BY <2>1 DEF KeysOfRequest, Src!Cmd
  <2>3. ASSUME NEW x, NEW y, NEW z, todo'[c] = <<x, y, z>>
        PROVE  TodoKeys(c)' = {x, y, z}
    <3>1. Len(<<x, y, z>>) = 3 /\ 1..3 = {1, 2, 3}
      OBVIOUS
    <3>2. TodoKeys(c)' = {<<x, y, z>>[i] : i \in {1, 2, 3}}
      BY <2>3, <3>1 DEF TodoKeys
    <3> QED BY <3>2
  <2> QED BY <2>1, <2>2, <2>3
<1>2. CASE Src!LockWorld(c)
  <2>1. call' = call /\ call[c].kind # "admit" /\ call[c] \in AdmitRequest \cup PutRequest
        /\ todo'[c] = IF call[c].kind = "put" THEN <<call[c].put.id>> ELSE <<>>
    BY <1>2 DEF Src!LockWorld, CatalogOK
  <2>2. todo'[c] = <<call[c].put.id>> /\ KeysOfRequest(c)' = {call[c].put.id}
    BY <2>1, RequestKinds DEF KeysOfRequest
  <2>3. ASSUME NEW x, todo'[c] = <<x>>
        PROVE  TodoKeys(c)' = {x}
    <3>1. Len(<<x>>) = 1 /\ 1..1 = {1}
      OBVIOUS
    <3>2. TodoKeys(c)' = {<<x>>[i] : i \in {1}}
      BY <2>3, <3>1 DEF TodoKeys
    <3> QED BY <3>2
  <2> QED BY <2>2, <2>3
<1> QED BY <1>1, <1>2

LEMMA InsertedSettledStep ==
    ASSUME Src!CatalogParameters,
           CatalogOK, FreshKeyOwned, InsertedSettled, [Src!Next]_Src!vars
    PROVE  InsertedSettled'
<1>1. ASSUME UNCHANGED <<artifacts, revisions, receipts, fresh, pc, call, todo>>
      PROVE  InsertedSettled'
  <2>1. ASSUME NEW d \in Clients
        PROVE  /\ KeysOfRequest(d)' = KeysOfRequest(d) /\ TodoKeys(d)' = TodoKeys(d)
               /\ \A k : Settled(d, k)' <=> Settled(d, k)
    <3>1. \A k : Src!Record(k)' = Src!Record(k)
      BY <1>1 DEF Src!Record
    <3> QED BY <1>1, <3>1, KeysKept DEF TodoKeys, Settled
  <2> QED BY <1>1, <2>1 DEF InsertedSettled
<1>2. ASSUME NEW c \in Clients, AdmissionClientStep(c)
      PROVE  InsertedSettled'
  <2> DEFINE Done(d) == pc[d] = "inserting" =>
                          /\ \A k \in TodoKeys(d) : k \in KeysOfRequest(d)
                          /\ \A k \in KeysOfRequest(d) : k \in TodoKeys(d) \/ Settled(d, k)
  <2>0. ASSUME NEW d \in Clients, pc[d] = "inserting", NEW k \in KeysOfRequest(d), call'[d] = call[d],
               Src!Record(k) = Src!Submitted(d, k)
        PROVE  Src!Record(k)' = Src!Submitted(d, k)'
    <3>1. k \in Src!Keys /\ Src!Record(k) # None
      BY <2>0, Submissions DEF CatalogOK
    <3>2. Src!Record(k)' = Src!Record(k)
      BY <3>1, WriteOnce
    <3> QED BY <2>0, <3>2, KeysKept
  <2>1. ASSUME NEW d \in Clients, d # c
        PROVE  Done(d)'
    <3>1. /\ pc'[d] = pc[d] /\ call'[d] = call[d] /\ todo'[d] = todo[d]
          /\ \A k \in Src!Keys : fresh'[k] = d <=> fresh[k] = d
      BY <1>2, <2>1, OthersUntouched
    <3>2. KeysOfRequest(d)' = KeysOfRequest(d) /\ TodoKeys(d)' = TodoKeys(d)
      BY <3>1, KeysKept DEF TodoKeys
    <3>3. ASSUME pc[d] = "inserting", NEW k \in KeysOfRequest(d), Settled(d, k)
          PROVE  Settled(d, k)'
      <4>1. k \in Src!Keys
        BY <3>3, Submissions DEF CatalogOK
      <4> QED BY <2>0, <3>1, <3>3, <4>1 DEF Settled
    <3> QED BY <3>1, <3>2, <3>3 DEF InsertedSettled
  <2>2. Done(c)'
    <3>1. CASE pc'[c] # "inserting"
      BY <3>1
    <3>2. CASE pc'[c] = "inserting" /\ (Src!CompareHead(c) \/ Src!LockWorld(c))
      <4>1. TodoKeys(c)' = KeysOfRequest(c)'
        BY <3>2, FirstTodo
      <4> QED BY <4>1
    <3>3. CASE Src!Insert(c)
      <4>1. pc[c] = "inserting" /\ UNCHANGED <<Src!tables, call>> /\ call[c] \in AdmitRequest \cup PutRequest
        BY <3>3, InsertWrites DEF CatalogOK
      <4>2. KeysOfRequest(c)' = KeysOfRequest(c) /\ KeysOfRequest(c) \subseteq Src!Keys
        BY <4>1, KeysKept, Submissions
      <4>3. \A k \in TodoKeys(c)' : k \in KeysOfRequest(c)'
        BY <3>3, <4>1, <4>2, TodoShrinks DEF InsertedSettled
      <4>4. ASSUME NEW k \in KeysOfRequest(c), Settled(c, k)
            PROVE  Settled(c, k)'
        <5>1. CASE fresh[k] = c
          <6>1. fresh'[k] = c
            BY <3>3, <4>2, <5>1, InsertWrites
          <6> QED BY <6>1 DEF Settled
        <5>2. CASE Src!Record(k) = Src!Submitted(c, k)
          BY <2>0, <4>1, <5>2 DEF Settled
        <5> QED BY <4>4, <5>1, <5>2 DEF Settled
      <4>5. ASSUME NEW k \in KeysOfRequest(c), k = Head(todo[c])
            PROVE  Settled(c, k)'
        <5>1. CASE Src!Record(k) = None
          <6>1. fresh'[k] = c
            BY <3>3, <4>2, <4>5, <5>1, InsertWrites
          <6> QED BY <6>1 DEF Settled
        <5>2. CASE Src!Record(k) # None
          <6>1. Src!Record(k) = Src!Submitted(c, k)
            BY <3>3, <4>5, <5>2, InsertWrites DEF Src!Conflicts
          <6> QED BY <2>0, <4>1, <6>1 DEF Settled
        <5> QED BY <5>1, <5>2
      <4>6. \A k \in KeysOfRequest(c) : k \in TodoKeys(c)' \/ Settled(c, k)'
        BY <3>3, <4>1, <4>4, <4>5, TodoShrinks DEF InsertedSettled
      <4> QED BY <4>2, <4>3, <4>6
    <3> QED BY <1>2, <3>1, <3>2, <3>3, EntersTransaction
  <2> QED BY <2>1, <2>2 DEF InsertedSettled
<1> QED BY <1>1, <1>2, AdmissionStepKinds DEF Src!vars, Src!tables, Src!locks,
           Src!session, Src!MoveHead

-----------------------------------------------------------------------------
(* Receipts and answers.                                                   *)

(* A client changes its own answer in three ways: it begins a call, it     *)
(* returns, or its commit is acknowledged.                                 *)
LEMMA Answered ==
    ASSUME Src!CatalogParameters,
           CatalogOK, NEW c \in Clients, AdmissionClientStep(c)
    PROVE  \/ answer'[c] = answer[c]
           \/ answer'[c] = None
           \/ /\ call[c] \in CatalogRequest
              /\ \E told \in {"conflict", "failed", "stale", "pair", "receipt"} :
                    /\ answer'[c] = [request |-> call[c], told |-> told]
                    /\ told = "receipt" => Src!ProbeFinds(c) \/ Src!Commit(c)
<1>0. DOMAIN answer = Clients
  BY DEF CatalogOK
<1>1. CASE AdmissionStartStep(c)
  BY <1>0, <1>1 DEF AdmissionStartStep, Src!CallAdmit, Src!CallPut,
     Src!CallRead, Src!Start
<1>2. CASE Src!ProbeFinds(c) \/ Src!ProbeConflicts(c) \/ Src!ProbeFails(c) \/ Src!PutOwnerMissing(c) \/ Src!ReadRevision(c)
  <2>1. call[c] \in CatalogRequest
    BY <1>2 DEF Src!ProbeFinds, Src!ProbeConflicts, Src!ProbeFails,
       Src!PutOwnerMissing, Src!ReadRevision, Src!Probed,
                CatalogOK, CatalogRequest
  <2> QED BY <1>0, <1>2, <2>1 DEF Src!ProbeFinds, Src!ProbeConflicts,
             Src!ProbeFails, Src!PutOwnerMissing,
                Src!ReadRevision, Src!Return
<1>3. CASE Src!ProbeFindsNothing(c)
  <2>1. call[c] \in CatalogRequest
    BY <1>3 DEF Src!ProbeFindsNothing, Src!Probed, CatalogOK, CatalogRequest
  <2> QED BY <1>0, <1>3, <2>1 DEF Src!ProbeFindsNothing, Src!Probed, Src!Return,
             Src!Goto
<1>4. CASE Src!ReadHead(c)
  <2>1. call[c] \in CatalogRequest
    BY <1>4 DEF Src!ReadHead, CatalogOK, CatalogRequest
  <2> QED BY <1>0, <1>4, <2>1 DEF Src!ReadHead, Src!Return, Src!Goto
<1>5. CASE Src!PutResolved(c) \/ Src!ReadArtifact(c) \/ Src!CompareHead(c) \/ Src!LockWorld(c) \/ Src!Insert(c)
  BY <1>5 DEF Src!PutResolved, Src!ReadArtifact, Src!CompareHead,
     Src!LockWorld, Src!Insert, Src!Goto
<1>6. CASE Src!FailAttempt(c)
  <2>1. call[c] \in CatalogRequest
    BY <1>6 DEF Src!FailAttempt, Src!InTransaction, CatalogOK, CatalogRequest
  <2> QED BY <1>0, <1>6, <2>1 DEF Src!FailAttempt, Src!Return, Src!Goto
<1>7. CASE AdmissionCommitStep(c)
  <2>1. call[c] \in CatalogRequest
    BY <1>7 DEF AdmissionCommitStep, Src!Commit, Src!CommitLost, Src!Write,
       CatalogOK, CatalogRequest
  <2> QED BY <1>0, <1>7, <2>1 DEF AdmissionCommitStep, Src!Commit, Src!CommitLost,
             Src!Return, Src!Goto
<1> QED BY <1>1, <1>2, <1>3, <1>4, <1>5, <1>6, <1>7 DEF AdmissionClientStep, AdmissionQuietStep

LEMMA AnswersStep ==
    ASSUME Src!CatalogParameters,
           CatalogOK, AnswersToRequests, [Src!Next]_Src!vars
    PROVE  AnswersToRequests'
<1>1. ASSUME UNCHANGED answer
      PROVE  AnswersToRequests'
  BY <1>1 DEF AnswersToRequests
<1>2. ASSUME NEW c \in Clients, AdmissionClientStep(c)
      PROVE  AnswersToRequests'
  <2>1. ASSUME NEW d \in Clients, d # c
        PROVE  answer'[d] = answer[d]
    BY <1>2, <2>1, OthersUntouched
  <2>2. answer'[c] # None => answer'[c].request \in CatalogRequest
    <3>1. CASE answer'[c] = answer[c] \/ answer'[c] = None
      BY <3>1 DEF AnswersToRequests
    <3>2. CASE answer'[c] # answer[c] /\ answer'[c] # None
      <4>1. call[c] \in CatalogRequest /\ \E told : answer'[c] = [request |-> call[c], told |-> told]
        BY <1>2, <3>2, Answered
      <4> QED BY <4>1
    <3> QED BY <3>1, <3>2
  <2> QED BY <2>1, <2>2 DEF AnswersToRequests
<1> QED BY <1>1, <1>2, AdmissionStepKinds DEF Src!vars, Src!session,
           Src!MoveHead

(* A commit stores every key of its request as submitted.                  *)
LEMMA CommitSettles ==
    ASSUME Src!CatalogParameters,
           CatalogOK, FreshKeyOwned, InsertedSettled, [Src!Next]_Src!vars, NEW c \in Clients, AdmissionCommitStep(c),
           NEW k \in KeysOfRequest(c)
    PROVE  k \in Src!Keys /\ Src!Record(k)' = Src!Submitted(c, k)
<1>1. /\ pc[c] = "inserting" /\ todo[c] = <<>>
      /\ call[c] \in AdmitRequest \cup PutRequest
      /\ \A x \in Src!Keys : Src!Record(x)' = IF fresh[x] = c THEN Src!Submitted(c, x) ELSE Src!Record(x)
  BY AdmissionCommitWrites
<1>2. k \in Src!Keys
  BY <1>1, Submissions
<1>3. TodoKeys(c) = {}
  BY <1>1 DEF TodoKeys
<1>4. Settled(c, k)
  BY <1>1, <1>3 DEF InsertedSettled
<1> QED BY <1>1, <1>2, <1>4 DEF Settled

(* A receipt is issued by the commit of its admission, whose pair is       *)
(* stored as submitted.                                                    *)
LEMMA ReceiptIssued ==
    ASSUME Src!CatalogParameters,
           CatalogOK, FreshKeyOwned, InsertedSettled, [Src!Next]_Src!vars, NEW m \in Admissions,
           receipts[m] = None, receipts'[m] # None
    PROVE  \E c \in Clients :
              /\ pc[c] = "inserting" /\ call[c].kind = "admit" /\ AdmissionCommitStep(c)
              /\ Src!Cmd(c) \in Commands /\ receipts'[m] = Src!Cmd(c)
              /\ artifacts'[Src!Cmd(c).artifact] = Src!ArtifactOf(Src!Cmd(c))
              /\ revisions'[Src!Cmd(c).revision] = Src!RevisionOf(Src!Cmd(c))
<1>1. PICK c \in Clients : AdmissionCommitStep(c)
  BY AdmissionStepKinds, CatalogKept DEF Src!vars, Src!tables, Src!MoveHead
<1>2. /\ pc[c] = "inserting"
      /\ call[c] \in AdmitRequest \cup PutRequest
      /\ \A x \in Src!Keys : Src!Record(x)' = IF fresh[x] = c THEN Src!Submitted(c, x) ELSE Src!Record(x)
      /\ \A k \in Src!Keys : fresh[k] = c => k \in KeysOfRequest(c)
  BY <1>1, AdmissionCommitWrites
<1>3. m \in Src!Keys /\ Src!Record(m) = receipts[m] /\ Src!Record(m)' = receipts'[m]
  BY DEF Src!CatalogParameters, Src!Keys, Src!Record
<1>4. m \in KeysOfRequest(c)
  BY <1>2, <1>3
<1>5. call[c].kind = "admit" /\ m = Src!Cmd(c).adm /\ Src!Submitted(c, m) = Src!Cmd(c)
  BY <1>2, <1>4, Submissions
<1>6. /\ Src!Cmd(c) \in Commands
      /\ Src!Submitted(c, Src!Cmd(c).artifact) = Src!ArtifactOf(Src!Cmd(c))
      /\ Src!Submitted(c, Src!Cmd(c).revision) = Src!RevisionOf(Src!Cmd(c))
  BY <1>2, <1>5, Submissions
<1>7. Src!Cmd(c).artifact \in KeysOfRequest(c) /\ Src!Cmd(c).revision \in KeysOfRequest(c)
  BY <1>5 DEF KeysOfRequest
<1>8. PICK a \in Artifacts, r \in Revisions : a = Src!Cmd(c).artifact /\ r = Src!Cmd(c).revision
  BY <1>6, CommandFields
<1>9. Src!Record(a)' = Src!Submitted(c, a) /\ Src!Record(r)' = Src!Submitted(c, r) /\ Src!Record(m)' = Src!Submitted(c, m)
  BY <1>1, <1>4, <1>7, <1>8, CommitSettles
<1>10. Src!Record(a)' = artifacts'[a] /\ Src!Record(r)' = revisions'[r]
  BY DEF Src!CatalogParameters, Src!Record
<1> QED BY <1>1, <1>2, <1>3, <1>5, <1>6, <1>8, <1>9, <1>10

LEMMA ReceiptBackedStep ==
    ASSUME Src!CatalogParameters,
           CatalogOK, AnswersToRequests, FreshKeyOwned, InsertedSettled, Src!ReceiptBacked, [Src!Next]_Src!vars
    PROVE  Src!ReceiptBacked'
<1>1. ASSUME NEW m \in Admissions, receipts'[m] # None
      PROVE  /\ artifacts'[receipts'[m].artifact] = Src!ArtifactOf(receipts'[m])
             /\ revisions'[receipts'[m].revision] = Src!RevisionOf(receipts'[m])
  <2>1. CASE receipts[m] = None
    BY <1>1, <2>1, ReceiptIssued
  <2>2. CASE receipts[m] # None
    <3>1. PICK x \in Commands : x = receipts[m]
      BY <2>2 DEF CatalogOK
    <3>2. PICK a \in Artifacts, r \in Revisions :
              /\ a = x.artifact /\ r = x.revision
              /\ artifacts[a] = Src!ArtifactOf(x) /\ revisions[r] = Src!RevisionOf(x)
      BY <2>2, <3>1, CommandFields DEF Src!ReceiptBacked
    <3>3. artifacts[a] # None /\ revisions[r] # None
      BY <3>2, CommandFields DEF Src!CatalogParameters
    <3>4. /\ Src!Record(m) = receipts[m] /\ Src!Record(m)' = receipts'[m]
          /\ Src!Record(a) = artifacts[a] /\ Src!Record(a)' = artifacts'[a]
          /\ Src!Record(r) = revisions[r] /\ Src!Record(r)' = revisions'[r]
      BY DEF Src!CatalogParameters, Src!Record
    <3>5. receipts'[m] = x /\ artifacts'[a] = artifacts[a] /\ revisions'[r] = revisions[r]
      BY <2>2, <3>1, <3>3, <3>4, WriteOnce DEF Src!Keys
    <3> QED BY <3>2, <3>5
  <2> QED BY <2>1, <2>2
<1>2. ASSUME NEW m \in Commands, receipts[m.adm] = m
      PROVE  receipts'[m.adm] = m
  <2>1. PICK k \in Admissions : k = m.adm
    BY CommandFields
  <2>2. Src!Record(k) = receipts[k] /\ Src!Record(k)' = receipts'[k]
    BY DEF Src!CatalogParameters, Src!Record
  <2>3. Src!Record(k) # None
    BY <1>2, <2>1, <2>2, CommandFields
  <2> QED BY <1>2, <2>1, <2>2, <2>3, WriteOnce DEF Src!Keys
<1>3. ASSUME NEW d \in Clients, answer'[d] # None, answer'[d].told = "receipt",
             answer'[d].request.kind = "admit"
      PROVE  receipts'[answer'[d].request.command.adm] = answer'[d].request.command
  <2>1. CASE answer'[d] = answer[d]
    <3>1. answer[d].request \in CatalogRequest
      BY <1>3, <2>1 DEF AnswersToRequests
    <3>2. answer[d].request.command \in Commands
      BY <1>3, <2>1, <3>1, RequestKinds DEF CatalogRequest
    <3>3. receipts[answer[d].request.command.adm] = answer[d].request.command
      BY <1>3, <2>1 DEF Src!ReceiptBacked
    <3> QED BY <1>2, <2>1, <3>2, <3>3
  <2>2. CASE answer'[d] # answer[d]
    <3>1. AdmissionClientStep(d)
      <4>1. CASE \E c \in Clients : AdmissionClientStep(c)
        BY <2>2, <4>1, OthersUntouched
      <4>2. CASE UNCHANGED Src!vars \/ \E w \in Worlds : Src!MoveHead(w)
        BY <2>2, <4>2 DEF Src!vars, Src!session, Src!MoveHead
      <4> QED BY <4>1, <4>2, AdmissionStepKinds
    <3>2. call[d] \in CatalogRequest /\ answer'[d] = [request |-> call[d], told |-> "receipt"]
          /\ (Src!ProbeFinds(d) \/ Src!Commit(d))
      <4>1. call[d] \in CatalogRequest
        BY <1>3, <2>2, <3>1, Answered
      <4>2. PICK told : /\ answer'[d] = [request |-> call[d], told |-> told]
                        /\ told = "receipt" => Src!ProbeFinds(d) \/ Src!Commit(d)
        BY <1>3, <2>2, <3>1, Answered
      <4>3. told = "receipt"
        BY <1>3, <4>2
      <4> QED BY <4>1, <4>2, <4>3
    <3>3. call[d] \in AdmitRequest /\ call[d].kind = "admit" /\ Src!Cmd(d) \in Commands
          /\ answer'[d].request.command = Src!Cmd(d)
      BY <1>3, <3>2, RequestKinds DEF CatalogRequest, Src!Cmd
    <3>4. CASE Src!ProbeFinds(d)
      <4>1. receipts[Src!Cmd(d).adm] = Src!Cmd(d)
        BY <3>4 DEF Src!ProbeFinds, Src!SameCommand
      <4> QED BY <1>2, <3>3, <4>1
    <3>5. CASE Src!Commit(d)
      <4>1. PICK k \in Admissions : k = Src!Cmd(d).adm
        BY <3>3, CommandFields
      <4>2. k \in KeysOfRequest(d) /\ Src!Submitted(d, k) = Src!Cmd(d)
        BY <3>3, <4>1, Submissions DEF KeysOfRequest
      <4>3. Src!Record(k)' = Src!Submitted(d, k)
        BY <3>5, <4>2, CommitSettles DEF AdmissionCommitStep
      <4>4. Src!Record(k)' = receipts'[k]
        BY DEF Src!CatalogParameters, Src!Record
      <4> QED BY <3>3, <4>1, <4>2, <4>3, <4>4
    <3> QED BY <3>2, <3>4, <3>5
  <2> QED BY <2>1, <2>2
<1> QED BY <1>1, <1>3 DEF Src!ReceiptBacked

-----------------------------------------------------------------------------
LEMMA AdmissionInit ==
    ASSUME Src!CatalogParameters
    PROVE  Src!Init => AdmissionInv
<1> SUFFICES ASSUME Src!Init PROVE AdmissionInv
  OBVIOUS
<1>1. CatalogOK
  BY CatalogTypeInit
<1>2. HeadHeld /\ InsertedSettled /\ AnswersToRequests /\ Src!ReceiptBacked
  BY DEF Src!Init, HeadHeld, InsertedSettled, AnswersToRequests, Src!ReceiptBacked
<1>3. FreshKeyOwned
  BY DEF Src!Init, FreshKeyOwned
<1> QED BY <1>1, <1>2, <1>3 DEF AdmissionInv

LEMMA AdmissionStep ==
    ASSUME Src!CatalogParameters
    PROVE  AdmissionInv /\ [Src!Next]_Src!vars => AdmissionInv'
<1> SUFFICES ASSUME AdmissionInv, [Src!Next]_Src!vars PROVE AdmissionInv'
  OBVIOUS
<1> USE DEF AdmissionInv
<1>1. CatalogOK'
  BY CatalogTypeStep
<1>2. AnswersToRequests'
  BY AnswersStep
<1>3. HeadHeld'
  BY HeadHeldStep
<1>4. FreshKeyOwned'
  BY FreshOwnedStep
<1>5. InsertedSettled'
  BY InsertedSettledStep
<1>6. Src!ReceiptBacked'
  BY ReceiptBackedStep
<1> QED BY <1>1, <1>2, <1>3, <1>4, <1>5, <1>6

THEOREM AdmissionInvariance ==
    ASSUME Src!CatalogParameters
    PROVE  Src!Spec => []AdmissionInv
BY AdmissionInit, AdmissionStep, PTL DEF Src!Spec

(* Tables, locks and calls have their types, and a client that waits or    *)
(* commits does so for a request that stores something.                    *)
THEOREM CatalogTypeCorrect ==
    ASSUME Src!CatalogParameters
    PROVE  Src!Spec => []CatalogOK
<1>1. AdmissionInv => CatalogOK
  BY DEF AdmissionInv
<1> QED BY <1>1, AdmissionInvariance, PTL

(* A receipt always has its pair stored as admitted, and a caller that was *)
(* told "receipt" holds the receipt of its own command.                    *)
THEOREM ReceiptAlwaysBacked ==
    ASSUME Src!CatalogParameters
    PROVE  Src!Spec => []Src!ReceiptBacked
<1>1. AdmissionInv => Src!ReceiptBacked
  BY DEF AdmissionInv
<1> QED BY <1>1, AdmissionInvariance, PTL

(* No receipt is issued under another head than the one its command        *)
(* expects: the lock of the world spans the comparison and the commit.     *)
THEOREM AlwaysAdmittedUnderHead ==
    ASSUME Src!CatalogParameters
    PROVE  Src!Spec => Src!AdmittedUnderHead
<1>1. AdmissionInv /\ [Src!Next]_Src!vars =>
        [\A m \in Admissions : receipts[m] = None /\ receipts'[m] # None =>
            head[receipts'[m].world] = receipts'[m].expected]_Src!vars
  <2> SUFFICES ASSUME AdmissionInv, [Src!Next]_Src!vars, NEW m \in Admissions, receipts[m] = None, receipts'[m] # None
               PROVE  head[receipts'[m].world] = receipts'[m].expected
    OBVIOUS
  <2>1. PICK c \in Clients :
            pc[c] = "inserting" /\ call[c].kind = "admit" /\ receipts'[m] = Src!Cmd(c)
    BY ReceiptIssued DEF AdmissionInv
  <2> QED BY <2>1 DEF AdmissionInv, HeadHeld
<1> QED BY <1>1, AdmissionInvariance, PTL DEF Src!Spec, Src!AdmittedUnderHead

(* Artifacts, revisions and receipts are immutable: what a retry, a twin   *)
(* or a lost acknowledgement finds stored is what every later read finds.  *)
THEOREM RecordsImmutable ==
    ASSUME Src!CatalogParameters
    PROVE  Src!Spec => [][\A k \in Src!Keys : Src!Record(k) # None => Src!Record(k)' = Src!Record(k)]_Src!vars
<1>1. AdmissionInv /\ [Src!Next]_Src!vars =>
        [\A k \in Src!Keys : Src!Record(k) # None => Src!Record(k)' = Src!Record(k)]_Src!vars
  BY WriteOnce DEF AdmissionInv
<1> QED BY <1>1, AdmissionInvariance, PTL DEF Src!Spec
===============================================================================
