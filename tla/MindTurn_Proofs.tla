---------------------------- MODULE MindTurn_Proofs ----------------------------
(***************************************************************************)
(* Proofs about MindTurn for any number of workers, processes, requests,   *)
(* threads and crashes.                                                    *)
(***************************************************************************)
EXTENDS MindTurn, FiniteSetTheorems, TLAPS

-----------------------------------------------------------------------------
(* Types.                                                                  *)
Revisions == 1..MaxHead
Session == [request : Requests, revision : Revisions, stamp : Stamps]
Reply == [revision : Revisions, stamp : Stamps, form : {"first", "rebuilt"}]
Turn == [request : Requests, response : Reply]
Objects == Workers \X Keys

Serving == {"replay", "session", "agent", "create", "append"}
Places == {"idle", "waiting", "unlocking", "leaving"} \cup Serving

TypeOK ==
    /\ processOf \in [Workers -> Processes]
    /\ turns \in [Threads -> Seq(Turn)]
    /\ sessions \in [Ids -> Session \cup {None}]
    /\ headRev \in Revisions
    /\ entry \in [Processes -> [Keys -> Objects \cup {None}]]
    /\ users \in [Processes -> [Keys -> Int]]
    /\ holder \in [Objects -> Workers \cup {None}]
    /\ pc \in [Workers -> Places]
    /\ request \in [Workers -> Requests \cup {None}]
    /\ DOMAIN mine = Workers /\ DOMAIN draft = Workers /\ DOMAIN answer = Workers
    /\ \A w \in Workers : pc[w] # "idle" => request[w] \in Requests

(* The session of a request says what a response to it says.               *)
Tells(response, r) ==
    /\ sessions[r.id] # None
    /\ sessions[r.id].request = r
    /\ sessions[r.id].revision = response.revision
    /\ sessions[r.id].stamp = response.stamp

(* What a worker drafts is a session of its request, then a response that  *)
(* a stored session of its request backs.                                  *)
DraftFits(w) ==
    /\ pc[w] = "agent" => draft[w].revision \in Revisions
    /\ pc[w] = "create" => draft[w] \in Session /\ draft[w].request = request[w]
    /\ pc[w] = "append" => draft[w] \in Reply /\ Tells(draft[w], request[w])

DraftsFit == \A w \in Workers : DraftFits(w)

(* Only on its way out has a worker an answer.                             *)
AnswersLast ==
    \A w \in Workers : pc[w] \notin {"unlocking", "leaving"} => answer[w] = None

(* A turn is stored in the thread its request names.                       *)
TurnsInThread ==
    \A t \in Threads : \A i \in 1..Len(turns[t]) : turns[t][i].request.thread = t

StoreInv ==
    /\ TypeOK
    /\ DraftsFit
    /\ AnswersLast
    /\ TurnsInThread
    /\ TurnsFollowSessions
    /\ AnswersAgree

-----------------------------------------------------------------------------
(* The steps.                                                              *)
Serve(w) ==
    \/ Replay(w) \/ NoReplay(w) \/ Rebuild(w) \/ SessionMismatch(w) \/ Resolve(w) \/ AskAgent(w)
    \/ Create(w) \/ CreateConflict(w) \/ AppendTurn(w) \/ Fail(w)

WorkerStep(w) == Arrive(w) \/ TakeLock(w) \/ DropLock(w) \/ Leave(w) \/ Serve(w)

LEMMA StepKinds ==
    ASSUME [Next]_vars
    PROVE  /\ processOf' = processOf
           /\ \/ UNCHANGED vars
              \/ MoveHead
              \/ \E w \in Workers : WorkerStep(w)
              \/ \E p \in Processes : Crash(p)
BY DEF Next, Step, WorkerStep, Serve, vars

(* A worker leaves what is local to the others.                            *)
LEMMA OthersUntouched ==
    ASSUME TypeOK, NEW w \in Workers, WorkerStep(w), NEW v \in Workers, v # w
    PROVE  /\ pc'[v] = pc[v] /\ request'[v] = request[v] /\ mine'[v] = mine[v]
           /\ draft'[v] = draft[v] /\ answer'[v] = answer[v]
<1> USE DEF TypeOK, Goto, Return
<1>1. CASE Arrive(w) \/ TakeLock(w) \/ DropLock(w) \/ Leave(w)
  BY <1>1 DEF Arrive, TakeLock, DropLock, Leave
<1>2. CASE Replay(w) \/ SessionMismatch(w) \/ CreateConflict(w) \/ Fail(w)
  BY <1>2 DEF Replay, SessionMismatch, CreateConflict, Fail
<1>3. CASE NoReplay(w) \/ Rebuild(w) \/ Resolve(w) \/ AskAgent(w) \/ Create(w)
  BY <1>3 DEF NoReplay, Rebuild, Resolve, AskAgent, Create
<1>4. CASE AppendTurn(w)
  BY <1>4 DEF AppendTurn
<1> QED BY <1>1, <1>2, <1>3, <1>4 DEF WorkerStep, Serve

(* The steps that serve a request leave the lock registry.                 *)
LEMMA ServeLeavesLocks ==
    ASSUME NEW w, Serve(w)
    PROVE  UNCHANGED <<locks, request, mine, calls>> /\ pc[w] \in Serving
BY DEF Serve, Serving, Return, Replay, NoReplay, Rebuild, SessionMismatch, Resolve, AskAgent,
       Create, CreateConflict, AppendTurn, Fail

(* The end of a serving step: an answer, and on to the way out.            *)
Returns(w) == pc'[w] = "unlocking" /\ request'[w] = request[w]

-----------------------------------------------------------------------------
(* What is stored stays: sessions are only created, turns only appended.   *)
LEMMA SessionsWritten ==
    ASSUME [Next]_vars
    PROVE  \/ sessions' = sessions
           \/ \E w \in Workers : Create(w)
BY StepKinds DEF vars, store, MoveHead, Crash, WorkerStep, Serve, Arrive, TakeLock, DropLock, Leave,
       Replay, NoReplay, Rebuild, SessionMismatch, Resolve, AskAgent, CreateConflict, AppendTurn, Fail

LEMMA SessionsKept ==
    ASSUME TypeOK, [Next]_vars, NEW i \in Ids, sessions[i] # None
    PROVE  sessions'[i] = sessions[i]
<1>1. ASSUME NEW w \in Workers, Create(w)
      PROVE  sessions'[i] = sessions[i]
  BY <1>1 DEF Create, TypeOK
<1> QED BY <1>1, SessionsWritten

LEMMA TurnsWritten ==
    ASSUME [Next]_vars
    PROVE  \/ turns' = turns
           \/ \E w \in Workers : AppendTurn(w)
BY StepKinds DEF vars, store, MoveHead, Crash, WorkerStep, Serve, Arrive, TakeLock, DropLock, Leave,
       Replay, NoReplay, Rebuild, SessionMismatch, Resolve, AskAgent, Create, CreateConflict, Fail

LEMMA RequestFields ==
    ASSUME NEW r \in Requests
    PROVE  r.id \in Ids /\ r.thread \in Threads /\ KeyOf(r) \in Keys
BY MindTurnAssumption DEF Ids, Keys, KeyOf

LEMMA AppendHas ==
    ASSUME NEW S, NEW s \in Seq(S), NEW x \in S
    PROVE  /\ Append(s, x) \in Seq(S)
           /\ Len(Append(s, x)) = Len(s) + 1 /\ Len(s) \in Nat
           /\ \A i \in 1..Len(s) : Append(s, x)[i] = s[i]
           /\ Append(s, x)[Len(s) + 1] = x
OBVIOUS

(* A turn is appended to a thread that has none of its request.            *)
LEMMA TurnAppended ==
    ASSUME TypeOK, DraftsFit, NEW w \in Workers, AppendTurn(w)
    PROVE  \E t \in Threads, x \in Turn :
              /\ t = request[w].thread
              /\ x = [request |-> request[w], response |-> draft[w]]
              /\ pc[w] = "append" /\ request[w] \in Requests
              /\ \/ turns' = turns /\ Stored(request[w]) # {}
                 \/ /\ turns' = [turns EXCEPT ![t] = Append(turns[t], x)]
                    /\ \A i \in 1..Len(turns[t]) : turns[t][i].request.id # x.request.id
<1>1. /\ pc[w] = "append" /\ request[w] \in Requests
      /\ draft[w] \in Reply
  BY DEF AppendTurn, TypeOK, DraftsFit, DraftFits
<1>2. PICK t \in Threads : t = request[w].thread
  BY <1>1, RequestFields
<1>3. PICK x \in Turn : x = [request |-> request[w], response |-> draft[w]]
  BY <1>1 DEF Turn
<1>4. Stored(request[w]) = {i \in 1..Len(turns[t]) : turns[t][i].request.id = x.request.id}
  BY <1>2, <1>3 DEF Stored
<1>5. turns' = [turns EXCEPT ![t] = IF {turns[t][i] : i \in Stored(request[w])} = {}
                                    THEN Append(@, x) ELSE @]
  BY <1>2, <1>3 DEF AppendTurn
<1>6. CASE Stored(request[w]) = {}
  <2>1. {turns[t][i] : i \in Stored(request[w])} = {}
    BY <1>6
  <2>2. turns' = [turns EXCEPT ![t] = Append(turns[t], x)]
    BY <1>5, <2>1
  <2>3. \A i \in 1..Len(turns[t]) : turns[t][i].request.id # x.request.id
    BY <1>4, <1>6
  <2> QED BY <1>1, <1>2, <1>3, <2>2, <2>3
<1>7. CASE Stored(request[w]) # {}
  <2>1. {turns[t][i] : i \in Stored(request[w])} # {}
    BY <1>7
  <2>2. turns' = turns
    BY <1>5, <2>1 DEF TypeOK
  <2> QED BY <1>1, <1>2, <1>3, <1>7, <2>2
<1> QED BY <1>6, <1>7

LEMMA TurnsKept ==
    ASSUME TypeOK, DraftsFit, [Next]_vars
    PROVE  /\ turns' \in [Threads -> Seq(Turn)]
           /\ \A t \in Threads :
                 /\ Len(turns[t]) \in Nat /\ Len(turns'[t]) \in Nat /\ Len(turns[t]) <= Len(turns'[t])
                 /\ \A i \in 1..Len(turns[t]) : i \in 1..Len(turns'[t]) /\ turns'[t][i] = turns[t][i]
<1>1. CASE turns' = turns
  BY <1>1 DEF TypeOK
<1>2. CASE turns' # turns
  <2>1. PICK w \in Workers : AppendTurn(w)
    BY <1>2, TurnsWritten
  <2>2. PICK t \in Threads, x \in Turn : turns' = [turns EXCEPT ![t] = Append(turns[t], x)]
    BY <1>2, <2>1, TurnAppended
  <2>3. PICK s \in Seq(Turn) : s = turns[t]
    BY DEF TypeOK
  <2>4. /\ turns' \in [Threads -> Seq(Turn)] /\ turns'[t] = Append(s, x)
        /\ \A u \in Threads : u # t => turns'[u] = turns[u]
    BY <2>2, <2>3, AppendHas DEF TypeOK
  <2>5. ASSUME NEW u \in Threads
        PROVE  /\ Len(turns[u]) \in Nat /\ Len(turns'[u]) \in Nat /\ Len(turns[u]) <= Len(turns'[u])
               /\ \A i \in 1..Len(turns[u]) : i \in 1..Len(turns'[u]) /\ turns'[u][i] = turns[u][i]
    <3>1. CASE u # t
      BY <2>4, <3>1 DEF TypeOK
    <3>2. CASE u = t
      BY <2>3, <2>4, <3>2, AppendHas
    <3> QED BY <3>1, <3>2
  <2> QED BY <2>4, <2>5
<1> QED BY <1>1, <1>2

-----------------------------------------------------------------------------
(* Types are kept.                                                         *)
LEMMA TypeInit == Init => TypeOK
<1> SUFFICES ASSUME Init PROVE TypeOK
  OBVIOUS
<1>1. <<>> \in Seq(Turn) /\ 1 \in Revisions
  BY MindTurnAssumption DEF Revisions
<1> QED BY <1>1, MindTurnAssumption DEF Init, TypeOK, Objects, Places

LEMMA SessionTypes ==
    ASSUME TypeOK, DraftsFit, [Next]_vars
    PROVE  sessions' \in [Ids -> Session \cup {None}]
<1>1. ASSUME NEW w \in Workers, Create(w)
      PROVE  sessions' \in [Ids -> Session \cup {None}]
  <2>1. draft[w] \in Session /\ sessions' = [sessions EXCEPT ![request[w].id] = draft[w]]
    BY <1>1 DEF Create, DraftsFit, DraftFits
  <2> QED BY <2>1 DEF TypeOK
<1> QED BY <1>1, SessionsWritten DEF TypeOK

(* One cell of the registry of one process is written.                     *)
LEMMA WriteCell ==
    ASSUME NEW P, NEW K, NEW S, NEW f \in [P -> [K -> S]], NEW p \in P, NEW k \in K, NEW x \in S
    PROVE  /\ [f EXCEPT ![p][k] = x] \in [P -> [K -> S]]
           /\ [f EXCEPT ![p][k] = x][p][k] = x
           /\ \A q \in P, j \in K : q # p \/ j # k => [f EXCEPT ![p][k] = x][q][j] = f[q][j]
OBVIOUS

LEMMA RegistryTypes ==
    ASSUME TypeOK, [Next]_vars
    PROVE  /\ entry' \in [Processes -> [Keys -> Objects \cup {None}]]
           /\ users' \in [Processes -> [Keys -> Int]]
           /\ holder' \in [Objects -> Workers \cup {None}]
<1> DEFINE Goal == /\ entry' \in [Processes -> [Keys -> Objects \cup {None}]]
                   /\ users' \in [Processes -> [Keys -> Int]]
                   /\ holder' \in [Objects -> Workers \cup {None}]
<1>1. ASSUME UNCHANGED locks
      PROVE  Goal
  BY <1>1 DEF TypeOK, locks
<1>2. ASSUME NEW w \in Workers, Arrive(w)
      PROVE  Goal
  <2>1. PICK r \in Requests :
          LET p == processOf[w]
              k == KeyOf(r)
              object == IF entry[p][k] = None THEN <<w, k>> ELSE entry[p][k]
          IN  /\ entry' = [entry EXCEPT ![p][k] = object]
              /\ users' = [users EXCEPT ![p][k] = @ + 1]
              /\ holder' = holder
    BY <1>2 DEF Arrive
  <2>2. PICK p \in Processes, k \in Keys : p = processOf[w] /\ k = KeyOf(r)
    BY RequestFields DEF TypeOK
  <2>3. <<w, k>> \in Objects
    BY DEF Objects
  <2>4. PICK o \in Objects \cup {None} : o = IF entry[p][k] = None THEN <<w, k>> ELSE entry[p][k]
    BY <2>3 DEF TypeOK
  <2>5. entry' = [entry EXCEPT ![p][k] = o] /\ users' = [users EXCEPT ![p][k] = @ + 1] /\ holder' = holder
    BY <2>1, <2>2, <2>4
  <2> QED BY <2>5, WriteCell DEF TypeOK
<1>3. ASSUME NEW w \in Workers, TakeLock(w) \/ DropLock(w)
      PROVE  Goal
  <2>1. entry' = entry /\ users' = users
        /\ (holder' = [holder EXCEPT ![mine[w]] = w] \/ holder' = [holder EXCEPT ![mine[w]] = None])
    BY <1>3 DEF TakeLock, DropLock
  <2> QED BY <2>1 DEF TypeOK
<1>4. ASSUME NEW w \in Workers, Leave(w)
      PROVE  Goal
  <2>1. PICK p \in Processes, k \in Keys : p = processOf[w] /\ k = KeyOf(request[w])
    BY <1>4, RequestFields DEF TypeOK, Leave
  <2>2. /\ users' = [users EXCEPT ![p][k] = @ - 1]
        /\ entry' = [entry EXCEPT ![p][k] = IF Left(p, k) THEN None ELSE @]
        /\ holder' = holder
    BY <1>4, <2>1 DEF Leave
  <2>3. entry[p][k] \in Objects \cup {None} /\ users[p][k] \in Int
    BY DEF TypeOK
  <2>4. entry' \in [Processes -> [Keys -> Objects \cup {None}]]
    BY <2>2, <2>3, WriteCell DEF TypeOK
  <2> QED BY <2>2, <2>3, <2>4, WriteCell DEF TypeOK
<1>5. ASSUME NEW p \in Processes, Crash(p)
      PROVE  Goal
  BY <1>5 DEF Crash, TypeOK, Objects
<1> QED BY <1>1, <1>2, <1>3, <1>4, <1>5, StepKinds, ServeLeavesLocks
        DEF vars, MoveHead, WorkerStep

(* What a worker's place says of its local state.                          *)
Answerable(w) ==
    answer[w] # None /\ answer[w].kind = "answered" =>
        \E i \in 1..Len(turns[request[w].thread]) :
            turns[request[w].thread][i] = [request |-> request[w], response |-> answer[w].response]

Local(w) ==
    /\ pc[w] \in Places /\ request[w] \in Requests \cup {None}
    /\ pc[w] # "idle" => request[w] \in Requests
    /\ DraftFits(w)
    /\ pc[w] \notin {"unlocking", "leaving"} => answer[w] = None
    /\ Answerable(w)

LEMMA LocalHolds == StoreInv => \A w \in Workers : Local(w)
BY DEF StoreInv, Local, TypeOK, DraftsFit, AnswersLast, AnswersAgree, Answerable

(* What is stored for a worker that does not move stays what it needs.     *)
LEMMA TellsKept ==
    ASSUME TypeOK, [Next]_vars, NEW r \in Requests, NEW x, Tells(x, r)
    PROVE  Tells(x, r)'
BY SessionsKept, RequestFields DEF Tells

LEMMA AnswerKept ==
    ASSUME TypeOK, DraftsFit, [Next]_vars, NEW r \in Requests, NEW x,
           \E i \in 1..Len(turns[r.thread]) : turns[r.thread][i] = [request |-> r, response |-> x]
    PROVE  \E i \in 1..Len(turns'[r.thread]) : turns'[r.thread][i] = [request |-> r, response |-> x]
<1>1. PICK i \in 1..Len(turns[r.thread]) : turns[r.thread][i] = [request |-> r, response |-> x]
  OBVIOUS
<1>2. i \in 1..Len(turns'[r.thread]) /\ turns'[r.thread][i] = turns[r.thread][i]
  BY <1>1, TurnsKept, RequestFields
<1> QED BY <1>1, <1>2

LEMMA LocalKept ==
    ASSUME StoreInv, [Next]_vars, NEW w \in Workers,
           pc'[w] = pc[w], request'[w] = request[w], draft'[w] = draft[w], answer'[w] = answer[w]
    PROVE  Local(w)'
<1>1. Local(w) /\ TypeOK /\ DraftsFit
  BY LocalHolds DEF StoreInv
<1>2. DraftFits(w)'
  <2>1. CASE pc[w] = "append"
    <3>1. PICK r \in Requests : r = request[w]
      BY <1>1, <2>1 DEF Local
    <3>2. PICK x \in Reply : x = draft[w]
      BY <1>1, <2>1 DEF Local, DraftFits
    <3>3. Tells(x, r)
      BY <1>1, <2>1, <3>1, <3>2 DEF Local, DraftFits
    <3>4. Tells(x, r)'
      BY <1>1, <3>3, TellsKept
    <3> QED BY <1>1, <2>1, <3>1, <3>2, <3>4 DEF DraftFits, Tells
  <2>2. CASE pc[w] # "append"
    BY <1>1, <2>2 DEF Local, DraftFits
  <2> QED BY <2>1, <2>2
<1>3. Answerable(w)'
  <2>1. CASE answer[w] # None /\ answer[w].kind = "answered"
    <3>1. PICK r \in Requests : r = request[w]
      BY <1>1, <2>1 DEF Local
    <3>2. PICK x : x = answer[w].response
      OBVIOUS
    <3>3. \E i \in 1..Len(turns[r.thread]) : turns[r.thread][i] = [request |-> r, response |-> x]
      BY <1>1, <2>1, <3>1, <3>2 DEF Local, Answerable
    <3>4. \E i \in 1..Len(turns'[r.thread]) : turns'[r.thread][i] = [request |-> r, response |-> x]
      BY <1>1, <3>3, AnswerKept
    <3> QED BY <3>1, <3>2, <3>4 DEF Answerable
  <2>2. CASE ~(answer[w] # None /\ answer[w].kind = "answered")
    BY <2>2 DEF Answerable
  <2> QED BY <2>1, <2>2
<1> QED BY <1>1, <1>2, <1>3 DEF Local

(* A worker that answers nothing has nothing to agree with.                *)
LEMMA Unanswered ==
    ASSUME NEW w, answer'[w] = None \/ answer'[w].kind # "answered"
    PROVE  Answerable(w)'
BY DEF Answerable

LEMMA LocalArrives ==
    ASSUME StoreInv, NEW w \in Workers, Arrive(w) \/ TakeLock(w) \/ DropLock(w) \/ Leave(w)
    PROVE  Local(w)'
<1>0. Local(w) /\ TypeOK
  BY LocalHolds DEF StoreInv
<1>1. CASE Arrive(w)
  <2>1. pc'[w] = "waiting" /\ request'[w] \in Requests /\ answer'[w] = None
    BY <1>0, <1>1 DEF Arrive, Local, TypeOK
  <2> QED BY <2>1, Unanswered DEF Local, DraftFits, Places
<1>2. CASE TakeLock(w)
  <2>1. pc'[w] = "replay" /\ request'[w] \in Requests /\ answer'[w] = None
    BY <1>0, <1>2 DEF TakeLock, Local, TypeOK
  <2> QED BY <2>1, Unanswered DEF Local, DraftFits, Places, Serving
<1>3. CASE DropLock(w)
  <2>1. pc'[w] = "leaving" /\ request'[w] \in Requests
        /\ answer' = answer /\ turns' = turns /\ request' = request
    BY <1>0, <1>3 DEF DropLock, Local, TypeOK, store
  <2>2. Answerable(w)'
    BY <1>0, <2>1 DEF Local, Answerable
  <2> QED BY <2>1, <2>2 DEF Local, DraftFits, Places
<1>4. CASE Leave(w)
  <2>1. pc'[w] = "idle" /\ request'[w] = None /\ answer'[w] = None
    BY <1>0, <1>4 DEF Leave, TypeOK
  <2> QED BY <2>1, Unanswered DEF Local, DraftFits, Places
<1> QED BY <1>1, <1>2, <1>3, <1>4

(* A response that a session of the request backs.                         *)
LEMMA ResponseTells ==
    ASSUME NEW s \in Session, NEW form \in {"first", "rebuilt"}
    PROVE  /\ Response(s, form) \in Reply
           /\ Response(s, form).revision = s.revision
           /\ Response(s, form).stamp = s.stamp
BY DEF Response, Reply, Session

LEMMA LocalServes ==
    ASSUME StoreInv, NEW w \in Workers, Serve(w), ~AppendTurn(w), [Next]_vars
    PROVE  Local(w)'
<1>0. Local(w) /\ TypeOK /\ pc[w] \in Serving /\ request' = request
  BY LocalHolds, ServeLeavesLocks DEF StoreInv
<1>1. PICK r \in Requests : r = request[w]
  BY <1>0 DEF Local, Serving
<1>2. request'[w] = r /\ r.id \in Ids /\ r.thread \in Threads /\ answer[w] = None
  BY <1>0, <1>1, RequestFields DEF Local, Serving
<1> DEFINE Refused == /\ pc'[w] = "unlocking"
                      /\ answer'[w].kind # "answered"
<1>3. ASSUME Refused
      PROVE  Local(w)'
  BY <1>2, <1>3, Unanswered DEF Local, DraftFits, Places
<1>4. CASE Replay(w)
  <2>1. /\ turns' = turns /\ pc'[w] = "unlocking"
        /\ \E i \in Stored(r) :
              answer'[w] = IF turns[r.thread][i].request = r
                           THEN Answered(turns[r.thread][i].response) ELSE Raised("conflict")
    BY <1>0, <1>1, <1>4 DEF Replay, Return, Goto, TypeOK
  <2>2. PICK i \in Stored(r) :
              answer'[w] = IF turns[r.thread][i].request = r
                           THEN Answered(turns[r.thread][i].response) ELSE Raised("conflict")
    BY <2>1
  <2>3. CASE turns[r.thread][i].request # r
    BY <1>3, <2>1, <2>2, <2>3 DEF Raised
  <2>4. CASE turns[r.thread][i].request = r
    <3>1. i \in 1..Len(turns[r.thread])
      BY DEF Stored
    <3>2. PICK s \in Seq(Turn) : s = turns[r.thread]
      BY <1>0, <1>2 DEF TypeOK
    <3>3. s[i] \in Turn
      BY <3>1, <3>2
    <3>4. s[i] = [request |-> r, response |-> s[i].response]
      BY <2>4, <3>2, <3>3 DEF Turn
    <3>5. answer'[w] = Answered(s[i].response)
      BY <2>2, <2>4, <3>2
    <3>6. Answerable(w)'
      BY <1>2, <2>1, <3>1, <3>2, <3>4, <3>5 DEF Answerable, Answered
    <3> QED BY <1>2, <2>1, <3>6 DEF Local, DraftFits, Places
  <2> QED BY <2>3, <2>4
<1>5. CASE SessionMismatch(w) \/ CreateConflict(w) \/ Fail(w)
  <2>1. Refused
    BY <1>0, <1>5 DEF SessionMismatch, CreateConflict, Fail, Return, Goto, Raised, TypeOK
  <2> QED BY <1>3, <2>1
<1>6. CASE NoReplay(w)
  <2>1. pc'[w] = "session" /\ answer'[w] = None
    BY <1>0, <1>2, <1>6 DEF NoReplay, Goto, TypeOK
  <2> QED BY <1>2, <2>1, Unanswered DEF Local, DraftFits, Places, Serving
<1>7. CASE Rebuild(w)
  <2>1. /\ pc'[w] = "append" /\ answer'[w] = None /\ sessions' = sessions
        /\ sessions[r.id] # None /\ sessions[r.id].request = r
        /\ \E form \in {"first", "rebuilt"} : draft'[w] = Response(sessions[r.id], form)
    BY <1>0, <1>1, <1>2, <1>7 DEF Rebuild, Goto, TypeOK, store
  <2>2. PICK s \in Session : s = sessions[r.id]
    BY <1>0, <1>2, <2>1 DEF TypeOK
  <2>3. draft'[w] \in Reply /\ draft'[w].revision = s.revision /\ draft'[w].stamp = s.stamp
    BY <2>1, <2>2, ResponseTells
  <2>4. DraftFits(w)'
    BY <1>2, <2>1, <2>2, <2>3 DEF DraftFits, Tells
  <2> QED BY <1>2, <2>1, <2>4, Unanswered DEF Local, Places, Serving
<1>8. CASE Resolve(w)
  <2>1. pc'[w] = "agent" /\ answer'[w] = None /\ draft'[w] = [revision |-> headRev]
    BY <1>0, <1>2, <1>8 DEF Resolve, Goto, TypeOK
  <2>2. draft'[w].revision \in Revisions
    BY <1>0, <2>1 DEF TypeOK
  <2> QED BY <1>2, <2>1, <2>2, Unanswered DEF Local, DraftFits, Places, Serving
<1>9. CASE AskAgent(w)
  <2>1. /\ pc[w] = "agent" /\ pc'[w] = "create" /\ answer'[w] = None
        /\ \E s \in Stamps : draft'[w] = [request |-> r, revision |-> draft[w].revision, stamp |-> s]
    BY <1>0, <1>1, <1>2, <1>9 DEF AskAgent, Goto, TypeOK
  <2>2. draft[w].revision \in Revisions
    BY <1>0, <2>1 DEF Local, DraftFits
  <2>3. draft'[w] \in Session /\ draft'[w].request = r
    BY <2>1, <2>2 DEF Session
  <2> QED BY <1>2, <2>1, <2>3, Unanswered DEF Local, DraftFits, Places, Serving
<1>10. CASE Create(w)
  <2>1. PICK s \in Session : s = draft[w] /\ s.request = r
    BY <1>0, <1>1, <1>10 DEF Create, Local, DraftFits
  <2>2. /\ pc'[w] = "append" /\ answer'[w] = None
        /\ sessions'[r.id] = s /\ draft'[w] = Response(s, "first")
    BY <1>0, <1>1, <1>2, <1>10, <2>1 DEF Create, Goto, TypeOK
  <2>3. s # None
    BY MindTurnAssumption DEF Session, Revisions
  <2>4. DraftFits(w)'
    BY <1>2, <2>1, <2>2, <2>3, ResponseTells DEF DraftFits, Tells
  <2> QED BY <1>2, <2>2, <2>4, Unanswered DEF Local, Places, Serving
<1> QED BY <1>4, <1>5, <1>6, <1>7, <1>8, <1>9, <1>10 DEF Serve

LEMMA LocalAppends ==
    ASSUME StoreInv, NEW w \in Workers, AppendTurn(w), [Next]_vars
    PROVE  Local(w)'
<1>0. Local(w) /\ TypeOK /\ DraftsFit /\ request' = request
  BY LocalHolds, ServeLeavesLocks DEF StoreInv, Serve
<1>1. PICK t \in Threads, x \in Turn :
              /\ t = request[w].thread
              /\ x = [request |-> request[w], response |-> draft[w]]
              /\ pc[w] = "append" /\ request[w] \in Requests
              /\ \/ turns' = turns /\ Stored(request[w]) # {}
                 \/ /\ turns' = [turns EXCEPT ![t] = Append(turns[t], x)]
                    /\ \A i \in 1..Len(turns[t]) : turns[t][i].request.id # x.request.id
  BY <1>0, TurnAppended
<1> DEFINE there == {turns[t][i] : i \in Stored(request[w])}
<1>2. /\ pc'[w] = "unlocking" /\ request'[w] = request[w]
      /\ answer'[w] \in {Answered(draft[w]), Raised("error"), Raised("conflict")}
      /\ answer'[w] = Answered(draft[w]) => there \subseteq {x} \/ Raised("conflict") = Answered(draft[w])
  BY <1>0, <1>1 DEF AppendTurn, Return, Goto, TypeOK
<1>3. Raised("conflict").kind # "answered" /\ Raised("error").kind # "answered"
      /\ Answered(draft[w]).kind = "answered" /\ Answered(draft[w]).response = draft[w]
  BY DEF Raised, Answered
<1>4. Answerable(w)' => Local(w)'
  <2>1. pc'[w] = "unlocking" /\ request'[w] \in Requests
    BY <1>1, <1>2
  <2>2. DraftFits(w)'
    BY <2>1 DEF DraftFits
  <2> QED BY <2>1, <2>2 DEF Local, Places
<1>5. CASE answer'[w] # Answered(draft[w])
  <2>1. answer'[w].kind # "answered"
    BY <1>2, <1>3, <1>5
  <2> QED BY <1>4, <2>1, Unanswered
<1>6. CASE answer'[w] = Answered(draft[w])
  <2>1. there \subseteq {x}
    BY <1>2, <1>3, <1>6
  <2>2. \E i \in 1..Len(turns'[t]) : turns'[t][i] = x
    <3>1. CASE turns' = turns /\ Stored(request[w]) # {}
      <4>1. PICK i \in Stored(request[w]) : turns[t][i] \in there
        BY <3>1
      <4>2. i \in 1..Len(turns[t]) /\ turns[t][i] = x
        BY <1>1, <2>1, <4>1 DEF Stored
      <4> QED BY <3>1, <4>2
    <3>2. CASE turns' = [turns EXCEPT ![t] = Append(turns[t], x)]
      <4>1. PICK s \in Seq(Turn) : s = turns[t]
        BY <1>0 DEF TypeOK
      <4>2. turns'[t] = Append(s, x)
        BY <1>0, <3>2, <4>1 DEF TypeOK
      <4>3. Len(s) + 1 \in 1..Len(Append(s, x)) /\ Append(s, x)[Len(s) + 1] = x
        BY AppendHas
      <4> QED BY <4>2, <4>3
    <3> QED BY <1>1, <3>1, <3>2
  <2>3. Answerable(w)'
    BY <1>1, <1>2, <1>3, <1>6, <2>2 DEF Answerable
  <2> QED BY <1>4, <2>3
<1> QED BY <1>5, <1>6

LEMMA LocalStep ==
    ASSUME StoreInv, [Next]_vars, NEW v \in Workers
    PROVE  Local(v)'
<1>1. CASE UNCHANGED vars \/ MoveHead
  BY <1>1, LocalKept DEF vars, MoveHead, local
<1>2. ASSUME NEW w \in Workers, WorkerStep(w)
      PROVE  Local(v)'
  <2>1. CASE v # w
    BY <1>2, <2>1, OthersUntouched, LocalKept DEF StoreInv
  <2>2. CASE v = w
    BY <1>2, <2>2, LocalArrives, LocalServes, LocalAppends DEF WorkerStep
  <2> QED BY <2>1, <2>2
<1>3. ASSUME NEW p \in Processes, Crash(p)
      PROVE  Local(v)'
  <2>1. CASE processOf[v] = p
    <3>1. pc'[v] = "idle" /\ request'[v] = None /\ answer'[v] = None
      BY <1>3, <2>1 DEF Crash
    <3> QED BY <3>1, Unanswered DEF Local, DraftFits, Places
  <2>2. CASE processOf[v] # p
    <3>1. pc'[v] = pc[v] /\ request'[v] = request[v] /\ draft'[v] = draft[v] /\ answer'[v] = answer[v]
      BY <1>3, <2>2 DEF Crash
    <3> QED BY <3>1, LocalKept
  <2> QED BY <2>1, <2>2
<1> QED BY <1>1, <1>2, <1>3, StepKinds

LEMMA LocalDomains ==
    ASSUME TypeOK, [Next]_vars
    PROVE  /\ pc' = [w \in Workers |-> pc'[w]] /\ request' = [w \in Workers |-> request'[w]]
           /\ DOMAIN mine' = Workers /\ DOMAIN draft' = Workers /\ DOMAIN answer' = Workers
<1> USE DEF TypeOK, Goto, Return
<1>1. CASE UNCHANGED vars \/ MoveHead
  BY <1>1 DEF vars, MoveHead, local
<1>2. ASSUME NEW w \in Workers, Arrive(w) \/ TakeLock(w) \/ DropLock(w) \/ Leave(w)
      PROVE  /\ pc' = [v \in Workers |-> pc'[v]] /\ request' = [v \in Workers |-> request'[v]]
             /\ DOMAIN mine' = Workers /\ DOMAIN draft' = Workers /\ DOMAIN answer' = Workers
  BY <1>2 DEF Arrive, TakeLock, DropLock, Leave
<1>3. ASSUME NEW w \in Workers, Replay(w) \/ SessionMismatch(w) \/ CreateConflict(w) \/ Fail(w)
      PROVE  /\ pc' = [v \in Workers |-> pc'[v]] /\ request' = [v \in Workers |-> request'[v]]
             /\ DOMAIN mine' = Workers /\ DOMAIN draft' = Workers /\ DOMAIN answer' = Workers
  BY <1>3 DEF Replay, SessionMismatch, CreateConflict, Fail
<1>4. ASSUME NEW w \in Workers,
             NoReplay(w) \/ Rebuild(w) \/ Resolve(w) \/ AskAgent(w) \/ Create(w) \/ AppendTurn(w)
      PROVE  /\ pc' = [v \in Workers |-> pc'[v]] /\ request' = [v \in Workers |-> request'[v]]
             /\ DOMAIN mine' = Workers /\ DOMAIN draft' = Workers /\ DOMAIN answer' = Workers
  BY <1>4 DEF NoReplay, Rebuild, Resolve, AskAgent, Create, AppendTurn
<1>5. ASSUME NEW p \in Processes, Crash(p)
      PROVE  /\ pc' = [v \in Workers |-> pc'[v]] /\ request' = [v \in Workers |-> request'[v]]
             /\ DOMAIN mine' = Workers /\ DOMAIN draft' = Workers /\ DOMAIN answer' = Workers
  BY <1>5 DEF Crash
<1> QED BY <1>1, <1>2, <1>3, <1>4, <1>5, StepKinds DEF WorkerStep, Serve

LEMMA TypeStep ==
    ASSUME StoreInv, [Next]_vars
    PROVE  TypeOK'
<1>1. TypeOK /\ DraftsFit
  BY DEF StoreInv
<1>2. headRev' \in Revisions
  <2>1. CASE MoveHead
    BY <1>1, <2>1, MindTurnAssumption DEF MoveHead, TypeOK, Revisions
  <2>2. CASE ~MoveHead
    <3>1. headRev' = headRev
      BY <2>2, StepKinds DEF vars, store, Crash, WorkerStep, Serve, Arrive, TakeLock, DropLock, Leave,
         Replay, NoReplay, Rebuild, SessionMismatch, Resolve, AskAgent, Create, CreateConflict,
         AppendTurn, Fail, Return
    <3> QED BY <1>1, <3>1 DEF TypeOK
  <2> QED BY <2>1, <2>2
<1>3. \A w \in Workers : /\ pc'[w] \in Places /\ request'[w] \in Requests \cup {None}
                         /\ pc'[w] # "idle" => request'[w] \in Requests
  BY LocalStep DEF Local
<1>4. pc' \in [Workers -> Places] /\ request' \in [Workers -> Requests \cup {None}]
  BY <1>1, <1>3, LocalDomains
<1>5. processOf' \in [Workers -> Processes]
  BY <1>1, StepKinds DEF TypeOK
<1> QED BY <1>1, <1>2, <1>3, <1>4, <1>5, TurnsKept, SessionTypes, RegistryTypes, LocalDomains DEF TypeOK

(* What one new turn brings to the turns.                                  *)
LEMMA TurnFacts ==
    ASSUME StoreInv, [Next]_vars, NEW t \in Threads, NEW i \in 1..Len(turns'[t])
    PROVE  /\ turns'[t][i] \in Turn
           /\ turns'[t][i].request.thread = t
           /\ Tells(turns[t][i].response, turns[t][i].request)'
           /\ \A j \in 1..Len(turns'[t]) :
                 turns'[t][i].request.id = turns'[t][j].request.id => i = j
<1>0. TypeOK /\ DraftsFit /\ TurnsInThread /\ TurnsFollowSessions /\ AnswersAgree
  BY DEF StoreInv
<1>1. turns' \in [Threads -> Seq(Turn)]
  BY <1>0, TurnsKept
<1>2. PICK s \in Seq(Turn) : s = turns[t]
  BY <1>0 DEF TypeOK
<1>3. ASSUME NEW j \in 1..Len(s)
      PROVE  /\ s[j] \in Turn /\ s[j].request.thread = t
             /\ Tells(s[j].response, s[j].request)'
             /\ \A k \in 1..Len(s) : s[j].request.id = s[k].request.id => j = k
  <2>1. s[j] \in Turn
    BY <1>2
  <2>2. s[j].request.thread = t /\ Tells(s[j].response, s[j].request)
    BY <1>0, <1>2 DEF TurnsInThread, TurnsFollowSessions, Tells
  <2>3. PICK r \in Requests, x \in Reply : r = s[j].request /\ x = s[j].response
    BY <2>1 DEF Turn
  <2>4. Tells(x, r)'
    BY <1>0, <2>2, <2>3, TellsKept
  <2> QED BY <1>0, <1>2, <2>1, <2>2, <2>3, <2>4 DEF AnswersAgree, Tells
<1>4. CASE turns'[t] = turns[t]
  BY <1>2, <1>3, <1>4 DEF Tells
<1>5. CASE turns'[t] # turns[t]
  <2>1. PICK w \in Workers : AppendTurn(w)
    BY <1>5, TurnsWritten
  <2>2. PICK u \in Threads, x \in Turn :
              /\ u = request[w].thread
              /\ x = [request |-> request[w], response |-> draft[w]]
              /\ pc[w] = "append" /\ request[w] \in Requests
              /\ turns' = [turns EXCEPT ![u] = Append(turns[u], x)]
              /\ \A j \in 1..Len(turns[u]) : turns[u][j].request.id # x.request.id
    BY <1>0, <1>5, <2>1, TurnAppended
  <2>3. u = t
    BY <1>0, <1>5, <2>2 DEF TypeOK
  <2>4. turns'[t] = Append(s, x) /\ \A j \in 1..Len(s) : s[j].request.id # x.request.id
    BY <1>0, <1>2, <2>2, <2>3 DEF TypeOK
  <2>5. x.request.thread = t /\ Tells(x.response, x.request)'
    <3>1. PICK r \in Requests, y \in Reply : r = x.request /\ y = x.response /\ r = request[w] /\ y = draft[w]
      BY <2>2 DEF Turn
    <3>2. Tells(y, r)
      BY <1>0, <2>2, <3>1 DEF DraftsFit, DraftFits
    <3>3. Tells(y, r)'
      BY <1>0, <3>2, TellsKept
    <3> QED BY <2>2, <2>3, <3>1, <3>3 DEF Tells
  <2>6. /\ Len(turns'[t]) = Len(s) + 1 /\ Len(s) \in Nat
        /\ \A j \in 1..Len(s) : turns'[t][j] = s[j]
        /\ turns'[t][Len(s) + 1] = x
    BY <2>4, AppendHas
  <2>7. CASE i \in 1..Len(s)
    <3>1. turns'[t][i] = s[i]
      BY <2>6, <2>7
    <3>2. \A j \in 1..Len(turns'[t]) : turns'[t][i].request.id = turns'[t][j].request.id => i = j
      BY <1>3, <2>4, <2>6, <2>7, <3>1
    <3> QED BY <1>3, <2>7, <3>1, <3>2 DEF Tells
  <2>8. CASE i = Len(s) + 1
    <3>1. turns'[t][i] = x
      BY <2>6, <2>8
    <3>2. \A j \in 1..Len(turns'[t]) : turns'[t][i].request.id = turns'[t][j].request.id => i = j
      BY <2>4, <2>6, <2>8, <3>1
    <3> QED BY <2>5, <3>1, <3>2 DEF Tells
  <2> QED BY <2>6, <2>7, <2>8
<1> QED BY <1>4, <1>5

LEMMA StoreInit == Init => StoreInv
<1> SUFFICES ASSUME Init PROVE StoreInv
  OBVIOUS
<1>1. TypeOK
  BY TypeInit
<1>2. \A t \in Threads : 1..Len(turns[t]) = {}
  BY DEF Init
<1>3. \A w \in Workers : pc[w] = "idle" /\ answer[w] = None
  BY DEF Init
<1> QED BY <1>1, <1>2, <1>3
        DEF StoreInv, DraftsFit, DraftFits, AnswersLast, TurnsInThread, TurnsFollowSessions, AnswersAgree

LEMMA StoreStep == StoreInv /\ [Next]_vars => StoreInv'
<1> SUFFICES ASSUME StoreInv, [Next]_vars PROVE StoreInv'
  OBVIOUS
<1>1. TypeOK'
  BY TypeStep
<1>2. DraftsFit' /\ AnswersLast'
  BY LocalStep DEF Local, DraftsFit, AnswersLast
<1>3. TurnsInThread' /\ TurnsFollowSessions'
  BY TurnFacts DEF TurnsInThread, TurnsFollowSessions, Tells
<1>4. AnswersAgree'
  <2>1. \A w \in Workers : Answerable(w)'
    BY LocalStep DEF Local
  <2> QED BY <2>1, TurnFacts DEF AnswersAgree, Answerable
<1> QED BY <1>1, <1>2, <1>3, <1>4 DEF StoreInv

-----------------------------------------------------------------------------
(* The lock registry of a process: who uses an entry, and who holds a lock.*)
Critical == Serving \cup {"unlocking"}

Occupants(p, k) ==
    {w \in Workers : processOf[w] = p /\ pc[w] # "idle" /\ KeyOf(request[w]) = k}

(* users counts the workers between arrival and departure, and an entry is *)
(* there as long as one of them is.                                        *)
UsersCounted ==
    \A p \in Processes, k \in Keys :
        /\ users[p][k] = Cardinality(Occupants(p, k))
        /\ entry[p][k] # None <=> Occupants(p, k) # {}

(* An entry is an object of its own process and key, and everyone who      *)
(* arrived for that key got that object.                                   *)
SharedObject ==
    /\ \A p \in Processes, k \in Keys : entry[p][k] # None => processOf[entry[p][k][1]] = p
    /\ \A w \in Workers : pc[w] # "idle" =>
          mine[w] = entry[processOf[w]][KeyOf(request[w])] /\ mine[w] # None

(* Who serves a request holds its lock, and a held lock is held by someone *)
(* who still serves.                                                       *)
LockHeld ==
    /\ \A w \in Workers : pc[w] \in Critical => holder[mine[w]] = w
    /\ \A o \in Objects : holder[o] # None => pc[holder[o]] \in Critical /\ mine[holder[o]] = o

RegistryInv == UsersCounted /\ SharedObject /\ LockHeld

IInv == StoreInv /\ RegistryInv

LEMMA ServePlaces ==
    ASSUME TypeOK, NEW w \in Workers, Serve(w)
    PROVE  pc'[w] \in Critical
BY DEF TypeOK, Serve, Serving, Critical, Return, Goto, Replay, NoReplay, Rebuild, SessionMismatch,
       Resolve, AskAgent, Create, CreateConflict, AppendTurn, Fail

LEMMA FiniteOccupants ==
    ASSUME NEW p, NEW k
    PROVE  /\ IsFiniteSet(Occupants(p, k))
           /\ Cardinality(Occupants(p, k)) \in Nat
           /\ Occupants(p, k) = {} <=> Cardinality(Occupants(p, k)) = 0
<1>1. Occupants(p, k) \subseteq Workers
  BY DEF Occupants
<1>2. IsFiniteSet(Occupants(p, k))
  BY <1>1, MindTurnAssumption, FS_Subset
<1> QED BY <1>2, FS_CardinalityType, FS_EmptySet

(* An occupant knows its process, its key and its object.                  *)
LEMMA OccupantOf ==
    ASSUME TypeOK, SharedObject, NEW w \in Workers, pc[w] # "idle"
    PROVE  /\ processOf[w] \in Processes /\ KeyOf(request[w]) \in Keys
           /\ w \in Occupants(processOf[w], KeyOf(request[w]))
           /\ mine[w] \in Objects /\ processOf[mine[w][1]] = processOf[w]
BY RequestFields DEF TypeOK, Occupants, SharedObject

(* Steps that leave the registry and everyone's place outside or inside.   *)
LEMMA OccupantsSame ==
    ASSUME processOf' = processOf, request' = request,
           \A w \in Workers : pc'[w] # "idle" <=> pc[w] # "idle", NEW p, NEW k
    PROVE  Occupants(p, k)' = Occupants(p, k)
BY DEF Occupants

LEMMA CountedWhenSame ==
    ASSUME UsersCounted, SharedObject, processOf' = processOf,
           UNCHANGED <<entry, users, request, mine>>,
           \A w \in Workers : pc'[w] # "idle" <=> pc[w] # "idle"
    PROVE  UsersCounted' /\ SharedObject'
<1>1. UsersCounted'
  BY OccupantsSame DEF UsersCounted
<1>2. SharedObject'
  BY DEF SharedObject
<1> QED BY <1>1, <1>2

LEMMA RegistryServe ==
    ASSUME TypeOK, RegistryInv, processOf' = processOf, NEW w \in Workers,
           Serve(w) \/ TakeLock(w) \/ DropLock(w)
    PROVE  RegistryInv'
<1>1. \A v \in Workers : v # w => pc'[v] = pc[v] /\ mine'[v] = mine[v]
  BY OthersUntouched DEF WorkerStep
<1>2. CASE Serve(w)
  <2>1. UNCHANGED <<entry, users, holder, request, mine>>
        /\ pc[w] \in Critical /\ pc'[w] \in Critical
    BY <1>2, ServeLeavesLocks, ServePlaces DEF locks, Critical
  <2>2. UsersCounted' /\ SharedObject'
    BY <1>1, <2>1, CountedWhenSame DEF RegistryInv, Critical, Serving
  <2>3. LockHeld'
    <3>1. \A v \in Workers : pc'[v] \in Critical <=> pc[v] \in Critical
      BY <1>1, <2>1
    <3>2. \A o \in Objects : holder[o] # None => holder[o] \in Workers
      BY DEF TypeOK
    <3> QED BY <2>1, <3>1, <3>2 DEF RegistryInv, LockHeld
  <2> QED BY <2>2, <2>3 DEF RegistryInv
<1>3. CASE TakeLock(w)
  <2>1. /\ UNCHANGED <<entry, users, request, mine>>
        /\ pc[w] = "waiting" /\ pc'[w] = "replay" /\ holder[mine[w]] = None
        /\ holder' = [holder EXCEPT ![mine[w]] = w]
    BY <1>3 DEF TakeLock, TypeOK
  <2>2. UsersCounted' /\ SharedObject'
    BY <1>1, <2>1, CountedWhenSame DEF RegistryInv
  <2>3. mine[w] \in Objects /\ w # None
    BY <2>1, OccupantOf, MindTurnAssumption DEF RegistryInv
  <2>4. holder'[mine[w]] = w /\ \A o \in Objects : o # mine[w] => holder'[o] = holder[o]
    BY <2>1, <2>3 DEF TypeOK
  <2>5. \A v \in Workers : pc'[v] \in Critical => holder'[mine[v]] = v
    <3> SUFFICES ASSUME NEW v \in Workers, v # w, pc[v] \in Critical
                 PROVE  holder'[mine[v]] = v
      BY <1>1, <2>4
    <3>1. mine[v] \in Objects /\ holder[mine[v]] = v /\ v # None
      BY OccupantOf, MindTurnAssumption DEF RegistryInv, LockHeld, Critical, Serving
    <3> QED BY <2>1, <2>4, <3>1
  <2>6. \A o \in Objects : holder'[o] # None => pc'[holder'[o]] \in Critical /\ mine[holder'[o]] = o
    <3> SUFFICES ASSUME NEW o \in Objects, holder'[o] # None
                 PROVE  pc'[holder'[o]] \in Critical /\ mine[holder'[o]] = o
      OBVIOUS
    <3>1. CASE o = mine[w]
      BY <2>1, <2>4, <3>1 DEF Critical, Serving
    <3>2. CASE o # mine[w]
      <4>1. holder'[o] = holder[o] /\ holder[o] \in Workers
        BY <2>4, <3>2 DEF TypeOK
      <4>2. pc[holder[o]] \in Critical /\ mine[holder[o]] = o
        BY <4>1 DEF RegistryInv, LockHeld
      <4> QED BY <1>1, <3>2, <4>1, <4>2
    <3> QED BY <3>1, <3>2
  <2>7. LockHeld'
    BY <2>1, <2>5, <2>6 DEF LockHeld
  <2> QED BY <2>2, <2>7 DEF RegistryInv
<1>4. CASE DropLock(w)
  <2>1. /\ UNCHANGED <<entry, users, request, mine>>
        /\ pc[w] = "unlocking" /\ pc'[w] = "leaving"
        /\ holder' = [holder EXCEPT ![mine[w]] = None]
    BY <1>4 DEF DropLock, TypeOK
  <2>2. UsersCounted' /\ SharedObject'
    BY <1>1, <2>1, CountedWhenSame DEF RegistryInv
  <2>3. mine[w] \in Objects /\ holder[mine[w]] = w
    BY <2>1, OccupantOf DEF RegistryInv, LockHeld, Critical
  <2>4. holder'[mine[w]] = None /\ \A o \in Objects : o # mine[w] => holder'[o] = holder[o]
    BY <2>1, <2>3 DEF TypeOK
  <2>5. \A v \in Workers : pc'[v] \in Critical => holder'[mine[v]] = v
    <3> SUFFICES ASSUME NEW v \in Workers, v # w, pc[v] \in Critical
                 PROVE  holder'[mine[v]] = v
      BY <1>1, <2>1 DEF Critical, Serving
    <3>1. mine[v] \in Objects /\ holder[mine[v]] = v
      BY OccupantOf DEF RegistryInv, LockHeld, Critical, Serving
    <3> QED BY <2>3, <2>4, <3>1
  <2>6. \A o \in Objects : holder'[o] # None => pc'[holder'[o]] \in Critical /\ mine[holder'[o]] = o
    <3> SUFFICES ASSUME NEW o \in Objects, holder'[o] # None
                 PROVE  pc'[holder'[o]] \in Critical /\ mine[holder'[o]] = o
      OBVIOUS
    <3>1. o # mine[w] /\ holder'[o] = holder[o] /\ holder[o] \in Workers
      BY <2>4 DEF TypeOK
    <3>2. pc[holder[o]] \in Critical /\ mine[holder[o]] = o
      BY <3>1 DEF RegistryInv, LockHeld
    <3> QED BY <1>1, <3>1, <3>2
  <2>7. LockHeld'
    BY <2>1, <2>5, <2>6 DEF LockHeld
  <2> QED BY <2>2, <2>7 DEF RegistryInv
<1> QED BY <1>2, <1>3, <1>4

LEMMA RegistryArrive ==
    ASSUME TypeOK, RegistryInv, processOf' = processOf, NEW w \in Workers, Arrive(w)
    PROVE  RegistryInv'
<1>1. PICK r \in Requests :
          LET p == processOf[w]
              k == KeyOf(r)
              object == IF entry[p][k] = None THEN <<w, k>> ELSE entry[p][k]
          IN  /\ pc[w] = "idle"
              /\ entry' = [entry EXCEPT ![p][k] = object]
              /\ users' = [users EXCEPT ![p][k] = @ + 1]
              /\ mine' = [mine EXCEPT ![w] = object]
              /\ request' = [request EXCEPT ![w] = r]
              /\ pc' = [pc EXCEPT ![w] = "waiting"]
              /\ holder' = holder
  BY DEF Arrive
<1>2. PICK p \in Processes, k \in Keys : p = processOf[w] /\ k = KeyOf(r)
  BY RequestFields DEF TypeOK
<1>3. PICK x \in Objects : x = IF entry[p][k] = None THEN <<w, k>> ELSE entry[p][k]
  <2>1. <<w, k>> \in Objects
    BY DEF Objects
  <2>2. entry[p][k] \in Objects \cup {None}
    BY DEF TypeOK
  <2> QED BY <2>1, <2>2
<1>4. /\ pc[w] = "idle" /\ pc'[w] = "waiting"
      /\ mine'[w] = x /\ request'[w] = r
      /\ holder' = holder
      /\ \A v \in Workers : v # w => pc'[v] = pc[v] /\ mine'[v] = mine[v] /\ request'[v] = request[v]
  BY <1>1, <1>2, <1>3 DEF TypeOK
<1>5. /\ entry' = [entry EXCEPT ![p][k] = x]
      /\ users' = [users EXCEPT ![p][k] = users[p][k] + 1]
  BY <1>1, <1>2, <1>3
<1>6. /\ entry'[p][k] = x /\ users'[p][k] = users[p][k] + 1
      /\ \A q \in Processes, j \in Keys :
            q # p \/ j # k => entry'[q][j] = entry[q][j] /\ users'[q][j] = users[q][j]
  <2>1. x \in Objects \cup {None} /\ users[p][k] + 1 \in Int
    BY DEF TypeOK
  <2>2. entry'[p][k] = x /\ \A q \in Processes, j \in Keys : q # p \/ j # k => entry'[q][j] = entry[q][j]
    BY <1>5, <2>1, WriteCell DEF TypeOK
  <2>3. users'[p][k] = users[p][k] + 1
        /\ \A q \in Processes, j \in Keys : q # p \/ j # k => users'[q][j] = users[q][j]
    BY <1>5, <2>1, WriteCell DEF TypeOK
  <2> QED BY <2>2, <2>3
<1>7. x # None /\ processOf[x[1]] = p
  BY <1>2, <1>3, MindTurnAssumption DEF RegistryInv, SharedObject, Objects
<1>8. Occupants(p, k)' = Occupants(p, k) \cup {w} /\ w \notin Occupants(p, k)
  BY <1>2, <1>4 DEF Occupants
<1>9. \A q, j : q # p \/ j # k => Occupants(q, j)' = Occupants(q, j)
  BY <1>2, <1>4 DEF Occupants
<1>10. UsersCounted'
  <2>1. Cardinality(Occupants(p, k)') = Cardinality(Occupants(p, k)) + 1
    BY <1>8, FiniteOccupants, FS_AddElement
  <2>2. users'[p][k] = Cardinality(Occupants(p, k)') /\ entry'[p][k] # None /\ Occupants(p, k)' # {}
    BY <1>6, <1>7, <1>8, <2>1 DEF RegistryInv, UsersCounted
  <2>3. ASSUME NEW q \in Processes, NEW j \in Keys, q # p \/ j # k
        PROVE  users'[q][j] = Cardinality(Occupants(q, j)') /\ (entry'[q][j] # None <=> Occupants(q, j)' # {})
    BY <1>6, <1>9, <2>3 DEF RegistryInv, UsersCounted
  <2> QED BY <2>2, <2>3 DEF UsersCounted
<1>11. SharedObject'
  <2>1. ASSUME NEW v \in Workers, v # w, pc[v] # "idle"
        PROVE  mine[v] = entry'[processOf[v]][KeyOf(request[v])] /\ mine[v] # None
    <3>1. /\ processOf[v] \in Processes /\ KeyOf(request[v]) \in Keys
          /\ v \in Occupants(processOf[v], KeyOf(request[v]))
      BY <2>1, OccupantOf DEF RegistryInv
    <3>2. mine[v] = entry[processOf[v]][KeyOf(request[v])] /\ mine[v] # None
      BY <2>1 DEF RegistryInv, SharedObject
    <3>3. CASE processOf[v] = p /\ KeyOf(request[v]) = k
      BY <1>3, <1>6, <3>1, <3>2, <3>3
    <3>4. CASE processOf[v] # p \/ KeyOf(request[v]) # k
      BY <1>6, <3>1, <3>2, <3>4
    <3> QED BY <3>3, <3>4
  <2>2. \A v \in Workers : pc'[v] # "idle" =>
            mine'[v] = entry'[processOf[v]][KeyOf(request'[v])] /\ mine'[v] # None
    BY <1>2, <1>4, <1>6, <1>7, <2>1
  <2>3. \A q \in Processes, j \in Keys : entry'[q][j] # None => processOf[entry'[q][j][1]] = q
    BY <1>6, <1>7 DEF RegistryInv, SharedObject
  <2>4. (\A r1 \in Requests : KeyOf(r1)' = KeyOf(r1))
    BY DEF KeyOf
  <2> QED BY <2>2, <2>3 DEF SharedObject, KeyOf
<1>12. LockHeld'
  <2>1. ASSUME NEW v \in Workers, pc'[v] \in Critical
        PROVE  holder'[mine'[v]] = v
    <3>1. v # w
      BY <1>4, <2>1 DEF Critical, Serving
    <3> QED BY <1>4, <2>1, <3>1 DEF RegistryInv, LockHeld
  <2>2. ASSUME NEW o \in Objects, holder'[o] # None
        PROVE  pc'[holder'[o]] \in Critical /\ mine'[holder'[o]] = o
    <3>1. holder'[o] = holder[o] /\ holder[o] \in Workers
      BY <1>4, <2>2 DEF TypeOK
    <3>2. pc[holder[o]] \in Critical /\ mine[holder[o]] = o
      BY <2>2, <3>1 DEF RegistryInv, LockHeld
    <3>3. holder[o] # w
      BY <1>4, <3>2 DEF Critical, Serving
    <3> QED BY <1>4, <3>1, <3>2, <3>3
  <2> QED BY <2>1, <2>2 DEF LockHeld
<1> QED BY <1>10, <1>11, <1>12 DEF RegistryInv

LEMMA RegistryLeave ==
    ASSUME TypeOK, RegistryInv, processOf' = processOf, NEW w \in Workers, Leave(w)
    PROVE  RegistryInv'
<1>1. PICK p \in Processes, k \in Keys : p = processOf[w] /\ k = KeyOf(request[w])
  BY RequestFields DEF TypeOK, Leave
<1>2. /\ pc[w] = "leaving" /\ pc'[w] = "idle"
      /\ users' = [users EXCEPT ![p][k] = users[p][k] - 1]
      /\ holder' = holder
      /\ \A v \in Workers : v # w => pc'[v] = pc[v] /\ mine'[v] = mine[v] /\ request'[v] = request[v]
  BY <1>1 DEF Leave, TypeOK
<1>3. PICK x \in Objects \cup {None} : x = IF users[p][k] <= 1 THEN None ELSE entry[p][k]
  BY DEF TypeOK
<1>4. entry' = [entry EXCEPT ![p][k] = x]
  BY <1>1, <1>3 DEF Leave, Left
<1>5. /\ entry'[p][k] = x /\ users'[p][k] = users[p][k] - 1
      /\ \A q \in Processes, j \in Keys :
            q # p \/ j # k => entry'[q][j] = entry[q][j] /\ users'[q][j] = users[q][j]
  <2>1. users[p][k] - 1 \in Int
    BY DEF TypeOK
  <2>2. entry'[p][k] = x /\ \A q \in Processes, j \in Keys : q # p \/ j # k => entry'[q][j] = entry[q][j]
    BY <1>4, WriteCell DEF TypeOK
  <2>3. users'[p][k] = users[p][k] - 1
        /\ \A q \in Processes, j \in Keys : q # p \/ j # k => users'[q][j] = users[q][j]
    BY <1>2, <2>1, WriteCell DEF TypeOK
  <2> QED BY <2>2, <2>3
<1>6. Occupants(p, k)' = Occupants(p, k) \ {w} /\ w \in Occupants(p, k)
  BY <1>1, <1>2 DEF Occupants
<1>7. \A q, j : q # p \/ j # k => Occupants(q, j)' = Occupants(q, j)
  BY <1>1, <1>2 DEF Occupants
<1>8. /\ Cardinality(Occupants(p, k)') = Cardinality(Occupants(p, k)) - 1
      /\ IsFiniteSet(Occupants(p, k)')
  BY <1>6, FiniteOccupants, FS_RemoveElement
<1>9. /\ users[p][k] = Cardinality(Occupants(p, k)) /\ users[p][k] \in Nat /\ entry[p][k] # None
  BY <1>6, FiniteOccupants DEF RegistryInv, UsersCounted
<1>10. Occupants(p, k)' = {} <=> users[p][k] <= 1
  <2>1. Occupants(p, k)' = {} <=> Cardinality(Occupants(p, k)') = 0
    BY <1>8, FS_EmptySet
  <2>2. users[p][k] # 0
    BY <1>6, <1>9, FiniteOccupants
  <2> QED BY <1>8, <1>9, <2>1, <2>2
<1>11. UsersCounted'
  <2>1. users'[p][k] = Cardinality(Occupants(p, k)') /\ (entry'[p][k] # None <=> Occupants(p, k)' # {})
    BY <1>3, <1>5, <1>8, <1>9, <1>10
  <2>2. ASSUME NEW q \in Processes, NEW j \in Keys, q # p \/ j # k
        PROVE  users'[q][j] = Cardinality(Occupants(q, j)') /\ (entry'[q][j] # None <=> Occupants(q, j)' # {})
    BY <1>5, <1>7, <2>2 DEF RegistryInv, UsersCounted
  <2> QED BY <2>1, <2>2 DEF UsersCounted
<1>12. SharedObject'
  <2>1. ASSUME NEW v \in Workers, v # w, pc[v] # "idle"
        PROVE  mine[v] = entry'[processOf[v]][KeyOf(request[v])] /\ mine[v] # None
    <3>1. /\ processOf[v] \in Processes /\ KeyOf(request[v]) \in Keys
          /\ v \in Occupants(processOf[v], KeyOf(request[v]))
      BY <2>1, OccupantOf DEF RegistryInv
    <3>2. mine[v] = entry[processOf[v]][KeyOf(request[v])] /\ mine[v] # None
      BY <2>1 DEF RegistryInv, SharedObject
    <3>3. CASE processOf[v] = p /\ KeyOf(request[v]) = k
      <4>1. Occupants(p, k)' # {}
        BY <1>6, <2>1, <3>1, <3>3
      <4>2. x = entry[p][k]
        BY <1>3, <1>10, <4>1
      <4> QED BY <1>5, <3>2, <3>3, <4>2
    <3>4. CASE processOf[v] # p \/ KeyOf(request[v]) # k
      BY <1>5, <3>1, <3>2, <3>4
    <3> QED BY <3>3, <3>4
  <2>2. \A v \in Workers : pc'[v] # "idle" =>
            mine'[v] = entry'[processOf[v]][KeyOf(request'[v])] /\ mine'[v] # None
    BY <1>2, <2>1
  <2>3. \A q \in Processes, j \in Keys : entry'[q][j] # None => processOf[entry'[q][j][1]] = q
    BY <1>3, <1>5 DEF RegistryInv, SharedObject
  <2> QED BY <2>2, <2>3 DEF SharedObject, KeyOf
<1>13. LockHeld'
  <2>1. ASSUME NEW v \in Workers, pc'[v] \in Critical
        PROVE  holder'[mine'[v]] = v
    <3>1. v # w
      BY <1>2, <2>1 DEF Critical, Serving
    <3> QED BY <1>2, <2>1, <3>1 DEF RegistryInv, LockHeld
  <2>2. ASSUME NEW o \in Objects, holder'[o] # None
        PROVE  pc'[holder'[o]] \in Critical /\ mine'[holder'[o]] = o
    <3>1. holder'[o] = holder[o] /\ holder[o] \in Workers
      BY <1>2, <2>2 DEF TypeOK
    <3>2. pc[holder[o]] \in Critical /\ mine[holder[o]] = o
      BY <2>2, <3>1 DEF RegistryInv, LockHeld
    <3>3. holder[o] # w
      BY <1>2, <3>2 DEF Critical, Serving
    <3> QED BY <1>2, <3>1, <3>2, <3>3
  <2> QED BY <2>1, <2>2 DEF LockHeld
<1> QED BY <1>11, <1>12, <1>13 DEF RegistryInv

LEMMA RegistryCrash ==
    ASSUME TypeOK, RegistryInv, processOf' = processOf, NEW p \in Processes, Crash(p)
    PROVE  RegistryInv'
<1>1. /\ \A k \in Keys : entry'[p][k] = None /\ users'[p][k] = 0
      /\ \A q \in Processes : q # p => entry'[q] = entry[q] /\ users'[q] = users[q]
  BY DEF Crash, TypeOK
<1>2. /\ \A w \in Workers : processOf[w] = p => pc'[w] = "idle"
      /\ \A w \in Workers : processOf[w] # p =>
            pc'[w] = pc[w] /\ request'[w] = request[w] /\ mine'[w] = mine[w]
  BY DEF Crash
<1>3. \A o \in Objects : holder'[o] = IF processOf[o[1]] = p THEN None ELSE holder[o]
  BY DEF Crash, Objects
<1>4. UsersCounted'
  <2>1. \A k : Occupants(p, k)' = {}
    BY <1>2 DEF Occupants
  <2>2. \A q, k : q # p => Occupants(q, k)' = Occupants(q, k)
    BY <1>2 DEF Occupants
  <2>3. Cardinality({}) = 0
    BY FS_EmptySet
  <2>4. \A k \in Keys : users'[p][k] = Cardinality(Occupants(p, k)')
                        /\ (entry'[p][k] # None <=> Occupants(p, k)' # {})
    BY <1>1, <2>1, <2>3
  <2>5. \A q \in Processes, k \in Keys : q # p =>
            users'[q][k] = Cardinality(Occupants(q, k)') /\ (entry'[q][k] # None <=> Occupants(q, k)' # {})
    BY <1>1, <2>2 DEF RegistryInv, UsersCounted
  <2> QED BY <2>4, <2>5 DEF UsersCounted
<1>5. SharedObject'
  <2>1. ASSUME NEW w \in Workers, pc'[w] # "idle"
        PROVE  mine'[w] = entry'[processOf[w]][KeyOf(request'[w])] /\ mine'[w] # None
    <3>1. processOf[w] # p /\ pc[w] # "idle" /\ mine'[w] = mine[w] /\ request'[w] = request[w]
      BY <1>2, <2>1
    <3>2. entry'[processOf[w]] = entry[processOf[w]]
      BY <1>1, <3>1 DEF TypeOK
    <3> QED BY <3>1, <3>2 DEF RegistryInv, SharedObject
  <2>2. ASSUME NEW q \in Processes, NEW k \in Keys, entry'[q][k] # None
        PROVE  processOf[entry'[q][k][1]] = q
    BY <1>1, <2>2 DEF RegistryInv, SharedObject
  <2> QED BY <2>1, <2>2 DEF SharedObject, KeyOf
<1>6. \A w \in Workers : pc'[w] \in Critical => holder'[mine'[w]] = w
  <2> SUFFICES ASSUME NEW w \in Workers, pc'[w] \in Critical
               PROVE  holder'[mine'[w]] = w
    OBVIOUS
  <2>1. processOf[w] # p /\ pc[w] \in Critical
    BY <1>2 DEF Critical, Serving
  <2>2. mine[w] \in Objects /\ processOf[mine[w][1]] = processOf[w]
    BY <2>1, OccupantOf DEF RegistryInv, Critical, Serving
  <2> QED BY <1>2, <1>3, <2>1, <2>2 DEF RegistryInv, LockHeld
<1>7. \A o \in Objects : holder'[o] # None => pc'[holder'[o]] \in Critical /\ mine'[holder'[o]] = o
  <2> SUFFICES ASSUME NEW o \in Objects, holder'[o] # None
               PROVE  pc'[holder'[o]] \in Critical /\ mine'[holder'[o]] = o
    OBVIOUS
  <2>1. PICK w \in Workers : w = holder[o] /\ holder'[o] = w /\ processOf[o[1]] # p
    BY <1>3 DEF TypeOK
  <2>2. pc[w] \in Critical /\ mine[w] = o
    BY <1>3, <2>1 DEF RegistryInv, LockHeld
  <2>3. processOf[w] = processOf[o[1]]
    BY <2>2, OccupantOf DEF RegistryInv, Critical, Serving
  <2> QED BY <1>2, <2>1, <2>2, <2>3
<1>8. LockHeld'
  BY <1>6, <1>7 DEF LockHeld
<1> QED BY <1>4, <1>5, <1>8 DEF RegistryInv

-----------------------------------------------------------------------------
LEMMA RegistryInit == Init => RegistryInv
<1> SUFFICES ASSUME Init PROVE RegistryInv
  OBVIOUS
<1>1. \A p, k : Occupants(p, k) = {}
  BY DEF Init, Occupants
<1>2. UsersCounted
  BY <1>1, FS_EmptySet DEF Init, UsersCounted
<1>3. SharedObject
  BY DEF Init, SharedObject
<1>4. LockHeld
  BY DEF Init, LockHeld, Critical, Serving, Objects
<1> QED BY <1>2, <1>3, <1>4 DEF RegistryInv

LEMMA RegistryStep == TypeOK /\ RegistryInv /\ [Next]_vars => RegistryInv'
<1> SUFFICES ASSUME TypeOK, RegistryInv, [Next]_vars PROVE RegistryInv'
  OBVIOUS
<1>0. processOf' = processOf
  BY StepKinds
<1>1. CASE UNCHANGED vars \/ MoveHead
  <2>1. UNCHANGED <<entry, users, holder, request, mine, pc>>
    BY <1>1 DEF vars, MoveHead, local, locks
  <2>2. UsersCounted' /\ SharedObject'
    BY <1>0, <2>1, CountedWhenSame DEF RegistryInv
  <2>3. LockHeld'
    BY <2>1 DEF RegistryInv, LockHeld
  <2> QED BY <2>2, <2>3 DEF RegistryInv
<1> QED BY <1>0, <1>1, StepKinds, RegistryServe, RegistryArrive, RegistryLeave, RegistryCrash DEF WorkerStep

THEOREM Invariance == Spec => []IInv
<1>1. Init => IInv
  BY StoreInit, RegistryInit DEF IInv
<1>2. IInv /\ [Next]_vars => IInv'
  BY StoreStep, RegistryStep DEF IInv, StoreInv
<1> QED BY <1>1, <1>2, PTL DEF Spec

(* Everything stored and everything local has its type, in every state.    *)
THEOREM TypeCorrect == Spec => []TypeOK
<1>1. IInv => TypeOK
  BY DEF IInv, StoreInv
<1> QED BY <1>1, Invariance, PTL

(* Whoever is answered is answered with the turn its thread stores, and a  *)
(* thread stores one turn per request: with any number of processes, whose *)
(* registries do not know of each other, and any number of crashes.        *)
THEOREM AnswersAlwaysAgree == Spec => []AnswersAgree
<1>1. IInv => AnswersAgree
  BY DEF IInv, StoreInv
<1> QED BY <1>1, Invariance, PTL

(* Every stored turn tells what the retrieval session of its request       *)
(* recorded, however long after it, and by whichever worker, it is stored. *)
THEOREM TurnsAlwaysFollowSessions == Spec => []TurnsFollowSessions
<1>1. IInv => TurnsFollowSessions
  BY DEF IInv, StoreInv
<1> QED BY <1>1, Invariance, PTL

(* A request id is answered in one thread only: another thread that uses   *)
(* it gets a conflict, never a turn.                                       *)
OneThreadPerId ==
    \A t, u \in Threads : \A i \in 1..Len(turns[t]), j \in 1..Len(turns[u]) :
        turns[t][i].request.id = turns[u][j].request.id => t = u /\ i = j

THEOREM IdsStayInOneThread == Spec => []OneThreadPerId
<1>1. IInv => OneThreadPerId
  <2> SUFFICES ASSUME IInv, NEW t \in Threads, NEW u \in Threads,
                      NEW i \in 1..Len(turns[t]), NEW j \in 1..Len(turns[u]),
                      turns[t][i].request.id = turns[u][j].request.id
               PROVE  t = u /\ i = j
    BY DEF OneThreadPerId
  <2>1. turns[t][i].request = turns[u][j].request
    BY DEF IInv, StoreInv, TurnsFollowSessions
  <2>2. t = u
    BY <2>1 DEF IInv, StoreInv, TurnsInThread
  <2>3. \A k, l \in 1..Len(turns[t]) : turns[t][k].request.id = turns[t][l].request.id => k = l
    BY DEF IInv, StoreInv, AnswersAgree
  <2> QED BY <2>2, <2>3
<1> QED BY <1>1, Invariance, PTL

(* In one process one worker at a time serves a request: the reference     *)
(* counted registry never lets an entry go that somebody still waits for,  *)
(* so two workers of a key never wait for different locks.                 *)
OneServesAtATime ==
    \A v, w \in Workers :
        /\ pc[v] \in Serving /\ pc[w] \in Serving
        /\ processOf[v] = processOf[w]
        /\ KeyOf(request[v]) = KeyOf(request[w])
        => v = w

THEOREM RegistryExcludes == Spec => []OneServesAtATime
<1>1. IInv => OneServesAtATime
  BY DEF IInv, RegistryInv, SharedObject, LockHeld, OneServesAtATime, Critical, Serving
<1> QED BY <1>1, Invariance, PTL

(* Nothing is left behind: an entry of the registry is in use, and a held  *)
(* lock is held by a worker that serves.                                   *)
NothingLeaks ==
    /\ \A p \in Processes, k \in Keys : entry[p][k] # None => Occupants(p, k) # {}
    /\ \A o \in Objects : holder[o] # None => pc[holder[o]] \in Critical

THEOREM RegistryNeverLeaks == Spec => []NothingLeaks
<1>1. IInv => NothingLeaks
  BY DEF IInv, RegistryInv, UsersCounted, LockHeld, NothingLeaks
<1> QED BY <1>1, Invariance, PTL
===============================================================================
