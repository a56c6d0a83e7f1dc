------------------------ MODULE EmbeddingRuns_Proofs ------------------------
(***************************************************************************)
(* Proofs about EmbeddingRuns for any number of clients, runs, worlds,     *)
(* documents and batches.                                                  *)
(***************************************************************************)
EXTENDS EmbeddingRuns, TLAPS

LifecycleKinds == {"complete", "fail", "supersede", "activate", "delete"}
LifecycleCall == [kind : LifecycleKinds, run : Runs]
UpsertCall == [kind : {"upsert"}, batch : Batches]
SearchCall == [kind : {"search"}, world : Worlds, run : Runs \cup {None}]

(* The runs a call locks.                                                  *)
Targets(m) == IF m.kind = "upsert" THEN {b.run : b \in m.batch} ELSE {m.run}

-----------------------------------------------------------------------------
(* The inductive invariant.  Types, with the calls and answers that TypeOK *)
(* leaves out.                                                             *)
TablesOK ==
    /\ status \in [Runs -> Statuses]
    /\ active \in [Worlds -> Runs \cup {None}]
    /\ owner \in [Docs -> Runs \cup {None}]
    /\ \A r \in Runs : status[r] = "absent" => DocsOf(r) = {}

SessionsOK ==
    /\ runLock \in [Runs -> Clients \cup {None}]
    /\ pc \in [Clients -> {"idle", "resolving", "locking", "locked", "ranking"}]
    /\ waiting \in [Clients -> SUBSET Runs]
    /\ seen \in [Clients -> [Runs -> Statuses]]
    /\ DOMAIN call = Clients
    /\ DOMAIN answer = Clients

CallOK(c) ==
    /\ pc[c] = "resolving" => call[c] \in SearchCall
    /\ pc[c] \in {"locking", "locked"} =>
          /\ call[c] \in LifecycleCall \cup UpsertCall \cup SearchCall
          /\ Targets(call[c]) \subseteq Runs
    /\ pc[c] = "ranking" => call[c] \in SearchCall /\ call[c].run \in Runs

(* What a transaction has locked, and that what it saw there still holds.  *)
LocksOK(c) ==
    /\ \A r \in Runs : runLock[r] = c =>
          /\ pc[c] \in {"locking", "locked", "ranking"}
          /\ seen[c][r] = status[r]
          /\ status[r] # "absent"
    /\ pc[c] = "locking" => \A r \in Targets(call[c]) \ waiting[c] : runLock[r] = c
    /\ pc[c] \in {"locked", "ranking"} => \A r \in Targets(call[c]) : runLock[r] = c

(* What a search has read is still what its run holds.                     *)
RankingOK(c) ==
    pc[c] = "ranking" =>
        /\ answer[c] = [run |-> call[c].run, eligible |-> DocsOf(call[c].run), ranked |-> None]
        /\ status[call[c].run] = "completed"

IInv ==
    /\ TablesOK
    /\ SessionsOK
    /\ \A c \in Clients : CallOK(c) /\ LocksOK(c) /\ RankingOK(c)
    /\ ActiveRunServes

LEMMA InvInit == Init => IInv
<1> SUFFICES ASSUME Init PROVE IInv
  OBVIOUS
<1>1. TablesOK
  BY RunAssumption DEF Init, TablesOK, Statuses, DocsOf
<1>2. SessionsOK
  BY DEF Init, SessionsOK, Statuses
<1>3. ASSUME NEW c \in Clients PROVE CallOK(c) /\ LocksOK(c) /\ RankingOK(c)
  BY RunAssumption DEF Init, CallOK, LocksOK, RankingOK
<1>4. ActiveRunServes
  BY DEF Init, ActiveRunServes
<1> QED
  BY <1>1, <1>2, <1>3, <1>4 DEF IInv

-----------------------------------------------------------------------------
(* The end of a transaction: what the sessions need of the tables is that  *)
(* only the runs the transaction had locked changed.                       *)
LEMMA EndKeepsSessions ==
    ASSUME IInv, NEW c \in Clients, End(c),
           \A r \in Runs : runLock[r] # c => status'[r] = status[r] /\ DocsOf(r)' = DocsOf(r),
           DOMAIN answer' = Clients,
           \A d \in Clients \ {c} : answer'[d] = answer[d]
    PROVE  /\ SessionsOK'
           /\ \A d \in Clients : CallOK(d)' /\ LocksOK(d)' /\ RankingOK(d)'
<1>1. SessionsOK'
  <2>1. runLock' \in [Runs -> Clients \cup {None}]
    BY DEF End, IInv, SessionsOK
  <2>2. pc' \in [Clients -> {"idle", "resolving", "locking", "locked", "ranking"}]
    BY DEF End, IInv, SessionsOK
  <2>3. waiting' \in [Clients -> SUBSET Runs] /\ seen' \in [Clients -> [Runs -> Statuses]]
    BY DEF End, IInv, SessionsOK, Statuses
  <2>4. DOMAIN call' = Clients
    BY DEF End, IInv, SessionsOK
  <2> QED
    BY <2>1, <2>2, <2>3, <2>4 DEF SessionsOK
<1>2. ASSUME NEW d \in Clients PROVE CallOK(d)' /\ LocksOK(d)' /\ RankingOK(d)'
  <2>1. CASE d = c
    <3>1. pc'[c] = "idle" /\ \A r \in Runs : runLock'[r] # c
      BY RunAssumption DEF End, IInv, SessionsOK
    <3> QED
      BY <2>1, <3>1 DEF CallOK, LocksOK, RankingOK
  <2>2. CASE d # c
    <3>1. /\ pc'[d] = pc[d] /\ call'[d] = call[d] /\ waiting'[d] = waiting[d]
          /\ seen'[d] = seen[d] /\ answer'[d] = answer[d]
      BY <2>2 DEF End, IInv, SessionsOK
    <3>2. \A r \in Runs : runLock'[r] = d <=> runLock[r] = d
      BY <2>2, RunAssumption DEF End, IInv, SessionsOK
    <3>3. CallOK(d) /\ LocksOK(d) /\ RankingOK(d)
      BY DEF IInv
    <3>4. CallOK(d)'
      BY <3>1, <3>3 DEF CallOK, Targets
    <3>5. LocksOK(d)'
      <4>1. \A r \in Runs : runLock'[r] = d => status'[r] = status[r]
        BY <2>2, <3>2
      <4>2. pc[d] \in {"locking", "locked", "ranking"} => Targets(call[d]) \subseteq Runs
        BY <3>3 DEF CallOK, Targets, SearchCall
      <4> QED
        BY <3>1, <3>2, <3>3, <4>1, <4>2 DEF LocksOK, Targets
    <3>6. RankingOK(d)'
      <4> SUFFICES ASSUME pc'[d] = "ranking" PROVE RankingOK(d)'
        BY DEF RankingOK
      <4>1. call[d].run \in Runs /\ runLock[call[d].run] = d
        BY <3>1, <3>3 DEF CallOK, LocksOK, Targets, SearchCall
      <4>2. PICK r \in Runs : r = call[d].run
        BY <4>1
      <4>3. status'[r] = status[r] /\ DocsOf(r)' = DocsOf(r)
        BY <2>2, <4>1, <4>2
      <4>4. call'[d].run = r /\ answer'[d] = answer[d]
        BY <3>1, <4>2
      <4>5. answer[d] = [run |-> r, eligible |-> DocsOf(r), ranked |-> None] /\ status[r] = "completed"
        BY <3>1, <3>3, <4>2 DEF RankingOK, DocsOf
      <4> QED
        BY <4>3, <4>4, <4>5 DEF RankingOK, DocsOf
    <3> QED
      BY <3>4, <3>5, <3>6
  <2> QED
    BY <2>1, <2>2
<1> QED
  BY <1>1, <1>2

(* A transaction that is refused or aborted changes no table.              *)
LEMMA RefuseKeepsInv ==
    ASSUME IInv, NEW c \in Clients, Refuse(c)
    PROVE  IInv'
<1>1. \A r \in Runs : status'[r] = status[r] /\ DocsOf(r)' = DocsOf(r)
  BY DEF Refuse, tables, DocsOf
<1>2. DOMAIN answer' = Clients /\ \A d \in Clients : answer'[d] = answer[d]
  BY DEF Refuse, IInv, SessionsOK
<1>3. SessionsOK' /\ \A d \in Clients : CallOK(d)' /\ LocksOK(d)' /\ RankingOK(d)'
  BY <1>1, <1>2, EndKeepsSessions DEF Refuse
<1>4. TablesOK'
  BY <1>1 DEF Refuse, tables, TablesOK, IInv
<1>5. ActiveRunServes'
  BY DEF Refuse, tables, ActiveRunServes, IInv
<1> QED
  BY <1>3, <1>4, <1>5 DEF IInv

-----------------------------------------------------------------------------
(* Steps that change no table and free no lock.                            *)
LEMMA StartKeepsInv ==
    ASSUME IInv, NEW c \in Clients, NEW m, NEW stage, NEW targets,
           Start(c, m, stage, targets),
           \/ stage = "resolving" /\ m \in SearchCall /\ targets = {}
           \/ /\ stage = "locking" /\ m \in LifecycleCall \cup UpsertCall
              /\ Targets(m) \subseteq targets /\ targets \subseteq Runs
    PROVE  IInv'
<1>1. /\ pc'[c] = stage /\ call'[c] = m /\ waiting'[c] = targets
      /\ \A d \in Clients \ {c} : /\ pc'[d] = pc[d] /\ call'[d] = call[d]
                                  /\ waiting'[d] = waiting[d] /\ answer'[d] = answer[d]
      /\ UNCHANGED <<status, active, owner, runLock, seen>>
  BY DEF Start, tables, IInv, SessionsOK
<1>2. SessionsOK'
  BY <1>1 DEF Start, IInv, SessionsOK
<1>3. TablesOK' /\ ActiveRunServes'
  BY <1>1 DEF TablesOK, ActiveRunServes, IInv, DocsOf
<1>4. \A r \in Runs : runLock[r] # c
  BY DEF IInv, LocksOK, Start
<1>5. ASSUME NEW d \in Clients PROVE CallOK(d)' /\ LocksOK(d)' /\ RankingOK(d)'
  <2>1. CASE d = c
    <3>1. CallOK(d)'
      BY <1>1, <2>1 DEF CallOK, Targets
    <3>2. LocksOK(d)'
      BY <1>1, <1>4, <2>1 DEF LocksOK, Targets
    <3> QED
      BY <1>1, <2>1, <3>1, <3>2 DEF RankingOK
  <2>2. CASE d # c
    BY <1>1, <2>2 DEF IInv, CallOK, LocksOK, RankingOK, Targets, DocsOf
  <2> QED
    BY <2>1, <2>2
<1> QED
  BY <1>2, <1>3, <1>5 DEF IInv

LEMMA CallKeepsInv ==
    ASSUME IInv, NEW c \in Clients, CallLifecycle(c) \/ CallUpsert(c) \/ CallSearch(c)
    PROVE  IInv'
<1>1. CASE CallLifecycle(c)
  <2>1. PICK kind \in LifecycleKinds, r \in Runs :
            Start(c, [kind |-> kind, run |-> r], "locking", {r})
    BY <1>1 DEF CallLifecycle, LifecycleKinds
  <2>2. [kind |-> kind, run |-> r] \in LifecycleCall /\ Targets([kind |-> kind, run |-> r]) = {r}
    BY DEF LifecycleCall, LifecycleKinds, Targets
  <2> QED
    BY <2>1, <2>2, StartKeepsInv
<1>2. CASE CallUpsert(c)
  <2>1. PICK batch \in Batches :
            Start(c, [kind |-> "upsert", batch |-> batch], "locking", {b.run : b \in batch})
    BY <1>2 DEF CallUpsert
  <2>2. /\ [kind |-> "upsert", batch |-> batch] \in UpsertCall
        /\ Targets([kind |-> "upsert", batch |-> batch]) = {b.run : b \in batch}
        /\ {b.run : b \in batch} \subseteq Runs
    BY RunAssumption DEF UpsertCall, Targets
  <2> QED
    BY <2>1, <2>2, StartKeepsInv
<1>3. CASE CallSearch(c)
  <2>1. PICK w \in Worlds, bound \in Runs \cup {None} :
            Start(c, [kind |-> "search", world |-> w, run |-> bound], "resolving", {})
    BY <1>3 DEF CallSearch
  <2>2. [kind |-> "search", world |-> w, run |-> bound] \in SearchCall
    BY DEF SearchCall
  <2> QED
    BY <2>1, <2>2, StartKeepsInv
<1> QED
  BY <1>1, <1>2, <1>3

LEMMA BeginKeepsInv ==
    ASSUME IInv, NEW c \in Clients, Begin(c)
    PROVE  IInv'
<1>1. PICK r \in Runs : /\ status[r] = "absent"
                        /\ status' = [status EXCEPT ![r] = "running"]
                        /\ UNCHANGED <<active, owner, runLock, session>>
  BY DEF Begin
<1>2. SessionsOK'
  BY <1>1 DEF session, SessionsOK, IInv
<1>3. TablesOK'
  BY <1>1 DEF TablesOK, IInv, Statuses, DocsOf
<1>4. ActiveRunServes'
  BY <1>1 DEF ActiveRunServes, IInv, TablesOK
<1>5. ASSUME NEW d \in Clients PROVE CallOK(d)' /\ LocksOK(d)' /\ RankingOK(d)'
  <2>1. CallOK(d)'
    BY <1>1 DEF session, CallOK, Targets, IInv
  <2>2. LocksOK(d)'
    BY <1>1 DEF session, LocksOK, Targets, IInv, TablesOK
  <2>3. RankingOK(d)'
    BY <1>1 DEF session, RankingOK, CallOK, IInv, TablesOK, DocsOf
  <2> QED
    BY <2>1, <2>2, <2>3
<1> QED
  BY <1>2, <1>3, <1>4, <1>5 DEF IInv

LEMMA ResolveRunKeepsInv ==
    ASSUME IInv, NEW c \in Clients, ResolveRun(c)
    PROVE  IInv'
<1>1. call[c] \in SearchCall
  BY DEF ResolveRun, IInv, CallOK
<1>2. PICK bound \in Runs :
          /\ call' = [call EXCEPT ![c] = [@ EXCEPT !.run = bound]]
          /\ waiting' = [waiting EXCEPT ![c] = {bound}]
          /\ pc' = [pc EXCEPT ![c] = "locking"]
          /\ UNCHANGED <<tables, runLock, seen, answer>>
  <2>1. active[call[c].world] \in Runs \cup {None}
    BY <1>1 DEF SearchCall, IInv, TablesOK
  <2> QED
    BY <1>1, <2>1 DEF ResolveRun, SearchCall
<1>3. /\ call'[c] \in SearchCall /\ call'[c].run = bound
      /\ pc'[c] = "locking" /\ waiting'[c] = {bound}
      /\ \A d \in Clients \ {c} : /\ pc'[d] = pc[d] /\ call'[d] = call[d]
                                  /\ waiting'[d] = waiting[d]
  <2>1. [call[c] EXCEPT !.run = bound] \in SearchCall /\ [call[c] EXCEPT !.run = bound].run = bound
    BY <1>1 DEF SearchCall
  <2>2. call'[c] = [call[c] EXCEPT !.run = bound]
    BY <1>2 DEF IInv, SessionsOK
  <2> QED
    BY <1>2, <2>1, <2>2 DEF IInv, SessionsOK
<1>4. SessionsOK'
  BY <1>2 DEF IInv, SessionsOK
<1>5. TablesOK' /\ ActiveRunServes'
  BY <1>2 DEF tables, TablesOK, ActiveRunServes, IInv, DocsOf
<1>6. \A r \in Runs : runLock[r] # c
  BY DEF IInv, LocksOK, ResolveRun
<1>7. ASSUME NEW d \in Clients PROVE CallOK(d)' /\ LocksOK(d)' /\ RankingOK(d)'
  <2>1. CASE d = c
    <3>1. Targets(call'[c]) = {bound}
      BY <1>3 DEF Targets, SearchCall
    <3>2. CallOK(d)'
      BY <1>3, <2>1, <3>1 DEF CallOK, Targets
    <3>3. LocksOK(d)'
      BY <1>2, <1>3, <1>6, <2>1, <3>1 DEF LocksOK, Targets
    <3> QED
      BY <1>3, <2>1, <3>2, <3>3 DEF RankingOK
  <2>2. CASE d # c
    BY <1>2, <1>3, <2>2 DEF tables, IInv, CallOK, LocksOK, RankingOK, Targets, DocsOf
  <2> QED
    BY <2>1, <2>2
<1> QED
  BY <1>4, <1>5, <1>7 DEF IInv

LEMMA LockRunKeepsInv ==
    ASSUME IInv, NEW c \in Clients, LockRun(c)
    PROVE  IInv'
<1>1. PICK r \in waiting[c] :
          /\ pc[c] = "locking" /\ status[r] # "absent" /\ runLock[r] = None
          /\ runLock' = [runLock EXCEPT ![r] = c]
          /\ seen' = [seen EXCEPT ![c][r] = status[r]]
          /\ waiting' = [waiting EXCEPT ![c] = @ \ {r}]
          /\ pc' = [pc EXCEPT ![c] = IF waiting[c] = {r} THEN "locked" ELSE "locking"]
          /\ UNCHANGED <<tables, call, answer>>
  BY DEF LockRun, TakeRun, NextToLock
<1>2. r \in Runs
  BY DEF IInv, SessionsOK
<1>3. /\ runLock'[r] = c /\ \A q \in Runs \ {r} : runLock'[q] = runLock[q]
      /\ seen'[c][r] = status[r] /\ \A q \in Runs \ {r} : seen'[c][q] = seen[c][q]
      /\ waiting'[c] = waiting[c] \ {r}
      /\ pc'[c] \in {"locking", "locked"} /\ (pc'[c] = "locked" => waiting[c] = {r})
      /\ \A d \in Clients \ {c} : /\ pc'[d] = pc[d] /\ seen'[d] = seen[d]
                                  /\ waiting'[d] = waiting[d]
  BY <1>1, <1>2 DEF IInv, SessionsOK
<1>4. SessionsOK'
  <2>1. seen' \in [Clients -> [Runs -> Statuses]]
    BY <1>1, <1>2 DEF IInv, SessionsOK, TablesOK
  <2> QED
    BY <1>1, <1>2, <2>1 DEF IInv, SessionsOK
<1>5. TablesOK' /\ ActiveRunServes'
  BY <1>1 DEF tables, TablesOK, ActiveRunServes, IInv, DocsOf
<1>6. ASSUME NEW d \in Clients PROVE CallOK(d)' /\ LocksOK(d)' /\ RankingOK(d)'
  <2>0. CallOK(d) /\ LocksOK(d) /\ RankingOK(d)
    BY DEF IInv
  <2>1. CASE d = c
    <3>1. CallOK(d)'
      BY <1>1, <1>3, <2>0, <2>1 DEF CallOK, Targets
    <3>2. \A q \in Runs : runLock'[q] = c => seen'[c][q] = status[q] /\ status[q] # "absent"
      BY <1>1, <1>3, <2>0, <2>1 DEF LocksOK
    <3>3. \A q \in Targets(call[c]) \ waiting'[c] : runLock'[q] = c
      BY <1>1, <1>2, <1>3, <2>0, <2>1 DEF LocksOK, CallOK
    <3>4. pc'[c] = "locked" => waiting'[c] = {}
      BY <1>3
    <3>5. LocksOK(d)'
      BY <1>1, <1>3, <2>1, <3>2, <3>3, <3>4 DEF LocksOK, Targets, tables
    <3> QED
      BY <1>3, <2>1, <3>1, <3>5 DEF RankingOK
  <2>2. CASE d # c
    <3>1. \A q \in Runs : runLock'[q] = d <=> runLock[q] = d
      BY <1>1, <1>2, <1>3, <2>2, RunAssumption
    <3>2. CallOK(d)' /\ RankingOK(d)'
      BY <1>1, <1>3, <2>0, <2>2 DEF CallOK, RankingOK, Targets, tables, DocsOf
    <3>3. pc[d] \in {"locking", "locked", "ranking"} => Targets(call[d]) \subseteq Runs
      BY <2>0 DEF CallOK, Targets, SearchCall
    <3>4. LocksOK(d)'
      BY <1>1, <1>3, <2>0, <2>2, <3>1, <3>3 DEF LocksOK, Targets, tables
    <3> QED
      BY <3>2, <3>4
  <2> QED
    BY <2>1, <2>2
<1> QED
  BY <1>4, <1>5, <1>6 DEF IInv

LEMMA ReadEligibleKeepsInv ==
    ASSUME IInv, NEW c \in Clients, ReadEligible(c)
    PROVE  IInv'
<1>1. call[c] \in SearchCall /\ call[c].run \in Runs /\ runLock[call[c].run] = c
  <2>1. call[c] \in SearchCall
    BY DEF ReadEligible, Locked, IInv, CallOK, LifecycleCall, LifecycleKinds, UpsertCall
  <2> QED
    BY <2>1 DEF ReadEligible, Locked, IInv, CallOK, LocksOK, Targets, SearchCall
<1>2. status[call[c].run] = "completed"
  BY <1>1 DEF ReadEligible, Eligible, Seen, IInv, LocksOK
<1>3. /\ pc'[c] = "ranking"
      /\ answer'[c] = [run |-> call[c].run, eligible |-> DocsOf(call[c].run), ranked |-> None]
      /\ \A d \in Clients \ {c} : pc'[d] = pc[d] /\ answer'[d] = answer[d]
      /\ UNCHANGED <<tables, runLock, call, waiting, seen>>
  BY DEF ReadEligible, IInv, SessionsOK
<1>4. SessionsOK'
  BY <1>3 DEF ReadEligible, IInv, SessionsOK
<1>5. TablesOK' /\ ActiveRunServes'
  BY <1>3 DEF tables, TablesOK, ActiveRunServes, IInv, DocsOf
<1>6. ASSUME NEW d \in Clients PROVE CallOK(d)' /\ LocksOK(d)' /\ RankingOK(d)'
  <2>1. CASE d = c
    <3>1. CallOK(d)' /\ RankingOK(d)'
      BY <1>1, <1>2, <1>3, <2>1 DEF CallOK, RankingOK, tables, DocsOf
    <3>2. LocksOK(d)'
      BY <1>1, <1>3, <2>1 DEF IInv, LocksOK, Targets, SearchCall, tables
    <3> QED
      BY <3>1, <3>2
  <2>2. CASE d # c
    BY <1>3, <2>2 DEF tables, IInv, CallOK, LocksOK, RankingOK, Targets, DocsOf
  <2> QED
    BY <2>1, <2>2
<1> QED
  BY <1>4, <1>5, <1>6 DEF IInv

-----------------------------------------------------------------------------
(* Commits.  A transaction that holds the row of a run knows its status.   *)
LEMMA LockedRun ==
    ASSUME IInv, NEW c \in Clients, pc[c] = "locked", call[c].kind \in LifecycleKinds
    PROVE  /\ call[c].run \in Runs
           /\ runLock[call[c].run] = c
           /\ seen[c][call[c].run] = status[call[c].run]
<1>1. call[c] \in LifecycleCall
  BY DEF IInv, CallOK, LifecycleCall, LifecycleKinds, UpsertCall, SearchCall
<1>2. call[c].run \in Runs /\ Targets(call[c]) = {call[c].run}
  BY <1>1 DEF LifecycleCall, LifecycleKinds, Targets
<1> QED
  BY <1>2 DEF IInv, LocksOK

(* A change of the status of the one run the transaction works on.         *)
LEMMA PersistKeepsInv ==
    ASSUME IInv, NEW c \in Clients, NEW new \in Statuses \ {"absent"},
           pc[c] = "locked", call[c].kind \in LifecycleKinds,
           Persist(c, new), UNCHANGED <<owner, answer>>, End(c),
           active' \in [Worlds -> Runs \cup {None}], ActiveRunServes'
    PROVE  IInv'
<1>1. call[c].run \in Runs /\ runLock[call[c].run] = c
  BY LockedRun
<1>2. \A r \in Runs : runLock[r] # c => status'[r] = status[r] /\ DocsOf(r)' = DocsOf(r)
  BY <1>1 DEF Persist, IInv, TablesOK, DocsOf
<1>3. DOMAIN answer' = Clients /\ \A d \in Clients : answer'[d] = answer[d]
  BY DEF IInv, SessionsOK
<1>4. SessionsOK' /\ \A d \in Clients : CallOK(d)' /\ LocksOK(d)' /\ RankingOK(d)'
  BY <1>2, <1>3, EndKeepsSessions
<1>5. TablesOK'
  <2>1. status' \in [Runs -> Statuses]
    BY <1>1 DEF Persist, IInv, TablesOK
  <2>2. \A r \in Runs : status'[r] = "absent" => status[r] = "absent"
    BY <1>1 DEF Persist, IInv, TablesOK
  <2> QED
    BY <2>1, <2>2 DEF IInv, TablesOK, DocsOf
<1> QED
  BY <1>4, <1>5 DEF IInv

LEMMA SettleKeepsInv ==
    ASSUME IInv, NEW c \in Clients, Complete(c) \/ Fail(c)
    PROVE  IInv'
<1>1. PICK new \in {"completed", "failed"} :
          /\ pc[c] = "locked" /\ call[c].kind \in LifecycleKinds /\ Seen(c) = "running"
          /\ Persist(c, new) /\ UNCHANGED <<active, owner, answer>> /\ End(c)
  BY DEF Complete, Fail, Locked, LifecycleKinds
<1>2. call[c].run \in Runs /\ status[call[c].run] = "running"
  BY <1>1, LockedRun DEF Seen
<1>3. ActiveRunServes'
  BY <1>1, <1>2 DEF ActiveRunServes, Persist, IInv, TablesOK
<1> QED
  BY <1>1, <1>3, PersistKeepsInv DEF IInv, TablesOK, Statuses

LEMMA SupersedeKeepsInv ==
    ASSUME IInv, NEW c \in Clients, Supersede(c)
    PROVE  IInv'
<1>1. /\ pc[c] = "locked" /\ call[c].kind \in LifecycleKinds
      /\ Persist(c, "superseded") /\ UNCHANGED <<owner, answer>> /\ End(c)
      /\ active' = [w \in Worlds |->
                       IF w = RunWorld[call[c].run] /\ active[w] = call[c].run
                       THEN None ELSE active[w]]
  BY DEF Supersede, Locked, LifecycleKinds
<1>2. call[c].run \in Runs
  BY <1>1, LockedRun
<1>3. active' \in [Worlds -> Runs \cup {None}]
  BY <1>1 DEF IInv, TablesOK
<1>4. ActiveRunServes'
  <2> SUFFICES ASSUME NEW w \in Worlds, active'[w] # None
               PROVE  status'[active'[w]] = "completed" /\ RunWorld[active'[w]] = w
    BY DEF ActiveRunServes
  <2>1. active'[w] = active[w] /\ status[active[w]] = "completed" /\ RunWorld[active[w]] = w
    BY <1>1 DEF IInv, ActiveRunServes
  <2>2. active[w] # call[c].run /\ active[w] \in Runs
    BY <1>1, <2>1 DEF IInv, TablesOK
  <2> QED
    BY <1>1, <2>1, <2>2 DEF Persist, IInv, TablesOK
<1> QED
  BY <1>1, <1>3, <1>4, PersistKeepsInv DEF Statuses

LEMMA ActivateKeepsInv ==
    ASSUME IInv, NEW c \in Clients, Activate(c)
    PROVE  IInv'
<1>1. /\ pc[c] = "locked" /\ call[c].kind \in LifecycleKinds /\ Seen(c) = "completed"
      /\ RunWorld[call[c].run] # None
      /\ active' = [active EXCEPT ![RunWorld[call[c].run]] = call[c].run]
      /\ UNCHANGED <<status, owner, answer>> /\ End(c)
  BY DEF Activate, Locked, LifecycleKinds
<1>2. call[c].run \in Runs /\ status[call[c].run] = "completed"
  BY <1>1, LockedRun DEF Seen
<1>3. TablesOK'
  BY <1>1, <1>2 DEF IInv, TablesOK, DocsOf
<1>4. ActiveRunServes'
  BY <1>1, <1>2, RunAssumption DEF IInv, TablesOK, ActiveRunServes
<1>5. \A r \in Runs : status'[r] = status[r] /\ DocsOf(r)' = DocsOf(r)
  BY <1>1 DEF DocsOf
<1>6. DOMAIN answer' = Clients /\ \A d \in Clients : answer'[d] = answer[d]
  BY <1>1 DEF IInv, SessionsOK
<1>7. SessionsOK' /\ \A d \in Clients : CallOK(d)' /\ LocksOK(d)' /\ RankingOK(d)'
  BY <1>1, <1>5, <1>6, EndKeepsSessions
<1> QED
  BY <1>3, <1>4, <1>7 DEF IInv

(* What the documents of a run are changed by, and that it holds the run.  *)
LEMMA DeleteChanges ==
    ASSUME IInv, NEW c \in Clients, Delete(c)
    PROVE  /\ \E run \in Runs :
                 /\ runLock[run] = c
                 /\ status[run] \in {"failed", "superseded"}
                 /\ DocsOf(run)' = {}
                 /\ \A r \in Runs \ {run} : DocsOf(r)' = DocsOf(r)
           /\ owner' \in [Docs -> Runs \cup {None}]
<1>1. /\ pc[c] = "locked" /\ call[c].kind \in LifecycleKinds
      /\ Seen(c) \in {"failed", "superseded"}
      /\ owner' = [d \in Docs |-> IF owner[d] = call[c].run THEN None ELSE owner[d]]
  BY DEF Delete, Locked, LifecycleKinds
<1>2. PICK run \in Runs : run = call[c].run
  BY <1>1, LockedRun
<1>3. runLock[run] = c /\ status[run] \in {"failed", "superseded"}
  BY <1>1, <1>2, LockedRun DEF Seen
<1>4. DocsOf(run)' = {} /\ \A r \in Runs \ {run} : DocsOf(r)' = DocsOf(r)
  BY <1>1, <1>2, RunAssumption DEF DocsOf, IInv, TablesOK
<1>5. owner' \in [Docs -> Runs \cup {None}]
  BY <1>1 DEF IInv, TablesOK
<1> QED
  BY <1>3, <1>4, <1>5

LEMMA DeleteKeepsInv ==
    ASSUME IInv, NEW c \in Clients, Delete(c)
    PROVE  IInv'
<1>1. UNCHANGED <<status, active, answer>> /\ End(c)
  BY DEF Delete
<1>2. \A r \in Runs : runLock[r] # c => status'[r] = status[r] /\ DocsOf(r)' = DocsOf(r)
  BY <1>1, DeleteChanges
<1>3. DOMAIN answer' = Clients /\ \A d \in Clients : answer'[d] = answer[d]
  BY <1>1 DEF IInv, SessionsOK
<1>4. SessionsOK' /\ \A d \in Clients : CallOK(d)' /\ LocksOK(d)' /\ RankingOK(d)'
  BY <1>1, <1>2, <1>3, EndKeepsSessions
<1>5. TablesOK'
  <2>1. ASSUME NEW r \in Runs, status[r] = "absent" PROVE DocsOf(r)' = {}
    BY <2>1, DeleteChanges DEF IInv, TablesOK
  <2> QED
    BY <1>1, <2>1, DeleteChanges DEF IInv, TablesOK
<1>6. ActiveRunServes'
  BY <1>1 DEF IInv, ActiveRunServes
<1> QED
  BY <1>4, <1>5, <1>6 DEF IInv

(* A batch only adds documents, and only to running runs that it holds.    *)
LEMMA UpsertChanges ==
    ASSUME IInv, NEW c \in Clients, Upsert(c)
    PROVE  /\ owner' \in [Docs -> Runs \cup {None}]
           /\ \A d \in Docs : owner'[d] # owner[d] =>
                 /\ owner[d] = None
                 /\ owner'[d] \in Runs
                 /\ runLock[owner'[d]] = c
                 /\ status[owner'[d]] = "running"
<1>1. call[c] \in UpsertCall
  BY DEF Upsert, Locked, IInv, CallOK, LifecycleCall, LifecycleKinds, UpsertCall, SearchCall
<1> DEFINE batch == call[c].batch
           chosen(d) == CHOOSE b \in batch : b.doc = d
<1>2. batch \in Batches /\ Targets(call[c]) = {b.run : b \in batch}
  BY <1>1 DEF UpsertCall, Targets
<1>3. \A b \in batch : b.doc \in Docs /\ b.run \in Runs /\ runLock[b.run] = c
                       /\ seen[c][b.run] = status[b.run]
  <2> SUFFICES ASSUME NEW b \in batch
               PROVE  b.doc \in Docs /\ b.run \in Runs /\ runLock[b.run] = c
                      /\ seen[c][b.run] = status[b.run]
    OBVIOUS
  <2>1. b.doc \in Docs /\ b.run \in Runs
    BY <1>2, RunAssumption
  <2>2. runLock[b.run] = c
    BY <1>2 DEF Upsert, Locked, IInv, LocksOK
  <2> QED
    BY <2>1, <2>2 DEF IInv, LocksOK
<1>4. owner' = [d \in Docs |-> IF \E b \in batch : b.doc = d THEN chosen(d).run ELSE owner[d]]
  BY DEF Upsert
<1>5. \A d \in Docs : (\E b \in batch : b.doc = d) => chosen(d) \in batch /\ chosen(d).doc = d
  OBVIOUS
<1>6. \A b \in batch : owner[b.doc] = b.run \/ (owner[b.doc] = None /\ seen[c][b.run] = "running")
  BY DEF Upsert, Acceptable
<1>7. owner' \in [Docs -> Runs \cup {None}]
  BY <1>3, <1>4, <1>5 DEF IInv, TablesOK
<1>8. ASSUME NEW d \in Docs, owner'[d] # owner[d]
      PROVE  /\ owner[d] = None /\ owner'[d] \in Runs
             /\ runLock[owner'[d]] = c /\ status[owner'[d]] = "running"
  <2>1. chosen(d) \in batch /\ chosen(d).doc = d /\ owner'[d] = chosen(d).run
    BY <1>4, <1>5, <1>8
  <2> HIDE DEF chosen, batch
  <2> QED
    BY <1>3, <1>6, <1>8, <2>1
<1> QED
  BY <1>7, <1>8

LEMMA UpsertKeepsInv ==
    ASSUME IInv, NEW c \in Clients, Upsert(c)
    PROVE  IInv'
<1>1. UNCHANGED <<status, active, answer>> /\ End(c)
  BY DEF Upsert
<1>2. ASSUME NEW r \in Runs, runLock[r] # c \/ status[r] # "running"
      PROVE  DocsOf(r)' = DocsOf(r)
  BY <1>2, UpsertChanges, RunAssumption DEF DocsOf
<1>3. \A r \in Runs : runLock[r] # c => status'[r] = status[r] /\ DocsOf(r)' = DocsOf(r)
  BY <1>1, <1>2
<1>4. DOMAIN answer' = Clients /\ \A d \in Clients : answer'[d] = answer[d]
  BY <1>1 DEF IInv, SessionsOK
<1>5. SessionsOK' /\ \A d \in Clients : CallOK(d)' /\ LocksOK(d)' /\ RankingOK(d)'
  BY <1>1, <1>3, <1>4, EndKeepsSessions
<1>6. TablesOK'
  <2>1. ASSUME NEW r \in Runs, status[r] = "absent" PROVE DocsOf(r)' = {}
    BY <1>2, <2>1 DEF IInv, TablesOK
  <2> QED
    BY <1>1, <2>1, UpsertChanges DEF IInv, TablesOK
<1>7. ActiveRunServes'
  BY <1>1 DEF IInv, ActiveRunServes
<1> QED
  BY <1>5, <1>6, <1>7 DEF IInv

LEMMA RankKeepsInv ==
    ASSUME IInv, NEW c \in Clients, Rank(c)
    PROVE  IInv'
<1>1. UNCHANGED <<status, active, owner>> /\ End(c)
  BY DEF Rank, tables
<1>2. \A r \in Runs : status'[r] = status[r] /\ DocsOf(r)' = DocsOf(r)
  BY <1>1 DEF DocsOf
<1>3. DOMAIN answer' = Clients /\ \A d \in Clients \ {c} : answer'[d] = answer[d]
  BY DEF Rank, IInv, SessionsOK
<1>4. SessionsOK' /\ \A d \in Clients : CallOK(d)' /\ LocksOK(d)' /\ RankingOK(d)'
  BY <1>1, <1>2, <1>3, EndKeepsSessions
<1>5. TablesOK' /\ ActiveRunServes'
  BY <1>1 DEF IInv, TablesOK, ActiveRunServes, DocsOf
<1> QED
  BY <1>4, <1>5 DEF IInv

-----------------------------------------------------------------------------
LEMMA InvNext == IInv /\ [Next]_vars => IInv'
<1> SUFFICES ASSUME IInv, [Next]_vars PROVE IInv'
  OBVIOUS
<1>1. ASSUME NEW c \in Clients,
             NoActiveRun(c) \/ RunNotFound(c) \/ LifecycleUnchanged(c) \/ UpsertRefused(c)
             \/ SearchRefused(c) \/ Abort(c)
      PROVE  IInv'
  BY <1>1, RefuseKeepsInv
       DEF NoActiveRun, RunNotFound, LifecycleUnchanged, UpsertRefused, SearchRefused, Abort
<1>2. ASSUME NEW c \in Clients, Step(c) PROVE IInv'
  BY <1>1, <1>2, ResolveRunKeepsInv, SettleKeepsInv, SupersedeKeepsInv, ActivateKeepsInv,
     DeleteKeepsInv, UpsertKeepsInv, ReadEligibleKeepsInv, RankKeepsInv DEF Step
<1>3. CASE UNCHANGED vars
  BY <1>3 DEF vars, tables, session, IInv, TablesOK, SessionsOK, CallOK, LocksOK, RankingOK,
              ActiveRunServes, DocsOf, Targets
<1> QED
  BY <1>1, <1>2, <1>3, BeginKeepsInv, CallKeepsInv, LockRunKeepsInv DEF Next

LEMMA InvAlways == Spec => []IInv
BY InvInit, InvNext, PTL DEF Spec

-----------------------------------------------------------------------------
(* Every reachable state is well typed, and a run never begun owns nothing.*)
THEOREM TypeCorrect == Spec => []TypeOK
<1>1. IInv => TypeOK
  BY DEF IInv, TablesOK, SessionsOK, TypeOK
<1> QED
  BY <1>1, InvAlways, PTL

(* A world serves retrieval from a completed run of its own, however       *)
(* activations and supersessions of its runs interleave.                   *)
THEOREM ActiveRunAlwaysServes == Spec => []ActiveRunServes
<1>1. IInv => ActiveRunServes
  BY DEF IInv
<1> QED
  BY <1>1, InvAlways, PTL

-----------------------------------------------------------------------------
(* Which steps change what.                                                *)
LEMMA QuietSteps ==
    ASSUME NEW c \in Clients,
           \/ CallLifecycle(c) \/ CallUpsert(c) \/ CallSearch(c) \/ LockRun(c)
           \/ ResolveRun(c) \/ NoActiveRun(c) \/ RunNotFound(c) \/ LifecycleUnchanged(c)
           \/ UpsertRefused(c) \/ SearchRefused(c) \/ ReadEligible(c) \/ Rank(c) \/ Abort(c)
    PROVE  UNCHANGED tables
BY DEF CallLifecycle, CallUpsert, CallSearch, Start, LockRun, ResolveRun, NoActiveRun, RunNotFound,
       LifecycleUnchanged, UpsertRefused, SearchRefused, ReadEligible, Rank, Abort, Refuse, tables

LEMMA StatusChanges ==
    ASSUME IInv, [Next]_vars, NEW r \in Runs, status'[r] # status[r]
    PROVE  <<status[r], status'[r]>> \in
              {<<"absent", "running">>, <<"running", "completed">>, <<"running", "failed">>,
               <<"completed", "superseded">>, <<"failed", "superseded">>}
<1>1. ASSUME NEW c \in Clients, Begin(c)
      PROVE  status[r] = "absent" /\ status'[r] = "running"
  BY <1>1 DEF Begin, IInv, TablesOK
<1>2. ASSUME NEW c \in Clients, Complete(c) \/ Fail(c)
      PROVE  status[r] = "running" /\ status'[r] \in {"completed", "failed"}
  <2>1. pc[c] = "locked" /\ call[c].kind \in LifecycleKinds /\ Seen(c) = "running"
    BY <1>2 DEF Complete, Fail, Locked, LifecycleKinds
  <2>2. call[c].run \in Runs /\ status[call[c].run] = "running"
    BY <2>1, LockedRun DEF Seen
  <2> QED
    BY <1>2, <2>2 DEF Complete, Fail, Persist, IInv, TablesOK
<1>3. ASSUME NEW c \in Clients, Supersede(c)
      PROVE  status[r] \in {"completed", "failed"} /\ status'[r] = "superseded"
  <2>1. pc[c] = "locked" /\ call[c].kind \in LifecycleKinds /\ Seen(c) \in {"completed", "failed"}
    BY <1>3 DEF Supersede, Locked, LifecycleKinds
  <2>2. call[c].run \in Runs /\ status[call[c].run] \in {"completed", "failed"}
    BY <2>1, LockedRun DEF Seen
  <2> QED
    BY <1>3, <2>2 DEF Supersede, Persist, IInv, TablesOK
<1>4. ASSUME NEW c \in Clients, Activate(c) \/ Delete(c) \/ Upsert(c) PROVE FALSE
  BY <1>4 DEF Activate, Delete, Upsert
<1>5. CASE UNCHANGED tables
  BY <1>5 DEF tables
<1>6. CASE Next
  <2>1. PICK c \in Clients : \/ Begin(c) \/ CallLifecycle(c) \/ CallUpsert(c) \/ CallSearch(c)
                             \/ LockRun(c) \/ Step(c) \/ Abort(c)
    BY <1>6 DEF Next
  <2> QED
    BY <2>1, <1>1, <1>2, <1>3, <1>4, <1>5, QuietSteps DEF Step
<1>7. CASE UNCHANGED vars
  BY <1>5, <1>7 DEF vars
<1> QED
  BY <1>6, <1>7

(* Of two operations that race to settle a run one loses: the status only  *)
(* moves forward, by the row lock each takes.                              *)
THEOREM RunsSettleOnce == Spec => SettlesOnce
<1>1. IInv /\ [Next]_vars =>
        [\A r \in Runs : status'[r] # status[r] =>
           <<status[r], status'[r]>> \in
              {<<"absent", "running">>, <<"running", "completed">>, <<"running", "failed">>,
               <<"completed", "superseded">>, <<"failed", "superseded">>}]_vars
  BY StatusChanges
<1> QED
  BY <1>1, InvAlways, PTL DEF Spec, SettlesOnce

LEMMA CorpusChanges ==
    ASSUME IInv, [Next]_vars, NEW r \in Runs, DocsOf(r)' # DocsOf(r)
    PROVE  \/ status[r] = "running" /\ DocsOf(r) \subseteq DocsOf(r)'
           \/ status[r] \in {"failed", "superseded"} /\ DocsOf(r)' = {}
<1>1. ASSUME NEW c \in Clients, Upsert(c)
      PROVE  status[r] = "running" /\ DocsOf(r) \subseteq DocsOf(r)'
  <2>1. PICK d \in Docs : owner'[d] # owner[d] /\ (owner'[d] = r \/ owner[d] = r)
    BY DEF DocsOf
  <2>2. owner'[d] = r /\ status[r] = "running"
    BY <1>1, <2>1, UpsertChanges, RunAssumption
  <2>3. \A e \in Docs : owner[e] = r => owner'[e] = r
    BY <1>1, UpsertChanges, RunAssumption
  <2> QED
    BY <2>2, <2>3 DEF DocsOf
<1>2. ASSUME NEW c \in Clients, Delete(c)
      PROVE  status[r] \in {"failed", "superseded"} /\ DocsOf(r)' = {}
  BY <1>2, DeleteChanges
<1>3. CASE UNCHANGED owner
  BY <1>3 DEF DocsOf
<1>4. ASSUME NEW c \in Clients,
             Begin(c) \/ Complete(c) \/ Fail(c) \/ Supersede(c) \/ Activate(c)
      PROVE  UNCHANGED owner
  BY <1>4 DEF Begin, Complete, Fail, Supersede, Activate
<1>5. CASE Next
  <2>1. PICK c \in Clients : \/ Begin(c) \/ CallLifecycle(c) \/ CallUpsert(c) \/ CallSearch(c)
                             \/ LockRun(c) \/ Step(c) \/ Abort(c)
    BY <1>5 DEF Next
  <2>2. CASE Upsert(c)
    BY <1>1, <2>2
  <2>3. CASE Delete(c)
    BY <1>2, <2>3
  <2>4. CASE UNCHANGED tables
    BY <1>3, <2>4 DEF tables
  <2> QED
    BY <2>1, <2>2, <2>3, <2>4, <1>3, <1>4, QuietSteps DEF Step
<1>6. CASE UNCHANGED vars
  BY <1>3, <1>6 DEF vars, tables
<1> QED
  BY <1>5, <1>6

(* The documents of a completed run do not change: a batch lands while its *)
(* run is running, and only the documents of a retired run are deleted.    *)
THEOREM CorpusIsFrozen == Spec => CorpusFrozen
<1>1. IInv /\ [Next]_vars =>
        [\A r \in Runs : DocsOf(r)' # DocsOf(r) =>
            \/ status[r] = "running" /\ DocsOf(r) \subseteq DocsOf(r)'
            \/ status[r] \in {"failed", "superseded"} /\ DocsOf(r)' = {}]_vars
  BY CorpusChanges
<1> QED
  BY <1>1, InvAlways, PTL DEF Spec, CorpusFrozen

LEMMA RankedWhole ==
    ASSUME IInv, [Next]_vars, NEW c \in Clients, pc[c] = "ranking", answer'[c] # answer[c]
    PROVE  /\ status[answer[c].run] = "completed"
           /\ answer'[c].ranked = DocsOf(answer[c].run)
<1>1. PICK r \in Runs :
          /\ answer[c] = [run |-> r, eligible |-> DocsOf(r), ranked |-> None]
          /\ status[r] = "completed"
  BY DEF IInv, CallOK, RankingOK
<1>2. Rank(c)
  <2>1. Next
    BY DEF vars, session
  <2>2. PICK d \in Clients : \/ Begin(d) \/ CallLifecycle(d) \/ CallUpsert(d) \/ CallSearch(d)
                             \/ LockRun(d) \/ Step(d) \/ Abort(d)
    BY <2>1 DEF Next
  <2>3. ASSUME UNCHANGED answer PROVE FALSE
    BY <2>3
  <2>4. ASSUME Begin(d) \/ LockRun(d) \/ ResolveRun(d) \/ Complete(d) \/ Fail(d) \/ Supersede(d)
               \/ Activate(d) \/ Delete(d) \/ Upsert(d)
        PROVE  UNCHANGED answer
    BY <2>4 DEF Begin, session, LockRun, ResolveRun, Complete, Fail, Supersede, Activate, Delete,
                Upsert
  <2>5. ASSUME NoActiveRun(d) \/ RunNotFound(d) \/ LifecycleUnchanged(d) \/ UpsertRefused(d)
               \/ SearchRefused(d) \/ Abort(d)
        PROVE  UNCHANGED answer
    BY <2>5 DEF NoActiveRun, RunNotFound, LifecycleUnchanged, UpsertRefused, SearchRefused, Abort,
                Refuse
  <2>6. ASSUME CallLifecycle(d) \/ CallUpsert(d) \/ CallSearch(d) \/ ReadEligible(d) PROVE FALSE
    <3>1. pc[d] \in {"idle", "locked"} /\ \A e \in Clients \ {d} : answer'[e] = answer[e]
      BY <2>6 DEF CallLifecycle, CallUpsert, CallSearch, Start, ReadEligible, Locked, IInv,
                  SessionsOK
    <3> QED
      BY <3>1
  <2>7. ASSUME Rank(d) PROVE d = c
    BY <2>7 DEF Rank, IInv, SessionsOK
  <2> QED
    BY <2>2, <2>3, <2>4, <2>5, <2>6, <2>7 DEF Step
<1>3. answer'[c].ranked = {e \in DocsOf(r) : owner[e] # None}
  BY <1>1, <1>2 DEF Rank, IInv, SessionsOK
<1>4. {e \in DocsOf(r) : owner[e] # None} = DocsOf(r)
  BY RunAssumption DEF DocsOf
<1> QED
  BY <1>1, <1>3, <1>4 DEF DocsOf

(* A search answers from one completed run, whole, whatever the other      *)
(* clients do between its statements.                                      *)
THEOREM SearchIsWhole == Spec => SearchSeesWholeRun
<1>1. IInv /\ [Next]_vars =>
        [\A c \in Clients : pc[c] = "ranking" /\ answer'[c] # answer[c] =>
            /\ status[answer[c].run] = "completed"
            /\ answer'[c].ranked = DocsOf(answer[c].run)]_vars
  BY RankedWhole
<1> QED
  BY <1>1, InvAlways, PTL DEF Spec, SearchSeesWholeRun

=============================================================================
