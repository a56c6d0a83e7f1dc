------------------------------ MODULE MindTurn ------------------------------
(***************************************************************************)
(* One question to the mind: MindTurnService.execute (application), over   *)
(* the retrieval sessions and the turns of a thread (PostgreSQL).          *)
(*                                                                         *)
(* A request is identified by its thread and request id.  The service      *)
(* takes a process-local, reference-counted lock for that pair, looks for  *)
(* a stored turn to replay, then for a stored retrieval session to rebuild *)
(* the response from, and only else resolves the head, asks the agent,     *)
(* creates the session and appends the turn.  Sessions and turns are two   *)
(* transactions: a crash may fall between them.                            *)
(*                                                                         *)
(* Simplifications:                                                        *)
(*  - A request is its id, thread and body; equal records are equal        *)
(*    payloads.  A stamp stands for everything two executions of a request *)
(*    may differ in: the clock and what the agent said.                    *)
(*  - Search, scoping, evidence and projections are functions of the       *)
(*    request and the revision.  Rebuilding a response from a session      *)
(*    reads documents that may have been deleted since, so it gives the    *)
(*    first response or another one.                                       *)
(*  - The transactions on one session and on one thread are atomic: the    *)
(*    first by its primary key, the second by SELECT ... FOR UPDATE.       *)
(***************************************************************************)
EXTENDS Naturals, Sequences, FiniteSets

CONSTANTS
    Workers,    \* threads that execute requests
    Processes,
    Placements, \* the functions [Workers -> Processes] a deployment may be
    Requests,   \* records [id, thread, body]
    Threads,
    Stamps,
    MaxHead,    \* bound: head revisions 1..MaxHead
    MaxCalls,   \* bound: requests a worker takes up
    None

Keys == {<<r.thread, r.id>> : r \in Requests}
Ids == {r.id : r \in Requests}
KeyOf(r) == <<r.thread, r.id>>

ASSUME MindTurnAssumption ==
    /\ Placements \subseteq [Workers -> Processes]
    /\ \A r \in Requests : r.thread \in Threads
    /\ MaxHead \in Nat \ {0} /\ MaxCalls \in Nat
    /\ IsFiniteSet(Workers)
    /\ None \notin Workers \cup (Workers \X Keys)
    /\ None \notin [request : Requests, revision : 1..MaxHead, stamp : Stamps]

VARIABLES
    processOf,  \* the process each worker is a thread of; it never changes
    turns,      \* mind_turns: per thread, [request, response] in order
    sessions,   \* retrieval_sessions: per request id, or None
    headRev,    \* the world's head
    entry,      \* _request_locks: per process and key, the lock object
    users,      \* _RequestLockEntry.users
    holder,     \* who holds a lock object; it is named by creator and key
    pc,
    request,    \* per worker, its request
    mine,       \* per worker, the lock object it got from the registry
    draft,      \* per worker, the session or response it is working on
    answer,     \* per worker, what it returns
    calls       \* per worker, how many requests it took up

store == <<turns, sessions, headRev>>
locks == <<entry, users, holder>>
local == <<pc, request, mine, draft, answer, calls>>
vars == <<processOf, store, locks, local>>

Init ==
    /\ processOf \in Placements
    /\ turns = [t \in Threads |-> <<>>]
    /\ sessions = [i \in Ids |-> None]
    /\ headRev = 1
    /\ entry = [p \in Processes |-> [k \in Keys |-> None]]
    /\ users = [p \in Processes |-> [k \in Keys |-> 0]]
    /\ holder = [o \in Workers \X Keys |-> None]
    /\ pc = [w \in Workers |-> "idle"]
    /\ request = [w \in Workers |-> None]
    /\ mine = [w \in Workers |-> None]
    /\ draft = [w \in Workers |-> None]
    /\ answer = [w \in Workers |-> None]
    /\ calls = [w \in Workers |-> 0]

(* Another client publishes a revision of the world.                       *)
MoveHead ==
    /\ headRev < MaxHead
    /\ headRev' = headRev + 1
    /\ UNCHANGED <<turns, sessions, locks, local>>

-----------------------------------------------------------------------------
(* The lock registry.                                                      *)

(* _acquire_request_lock, under the registry's guard.                      *)
Arrive(w) ==
    \E r \in Requests :
        LET p == processOf[w]
            k == KeyOf(r)
            object == IF entry[p][k] = None THEN <<w, k>> ELSE entry[p][k]
        IN  /\ pc[w] = "idle"
            /\ calls[w] < MaxCalls
            /\ calls' = [calls EXCEPT ![w] = @ + 1]
            /\ entry' = [entry EXCEPT ![p][k] = object]
            /\ users' = [users EXCEPT ![p][k] = @ + 1]
            /\ mine' = [mine EXCEPT ![w] = object]
            /\ request' = [request EXCEPT ![w] = r]
            /\ pc' = [pc EXCEPT ![w] = "waiting"]
            /\ UNCHANGED <<store, holder, draft, answer>>

TakeLock(w) ==
    /\ pc[w] = "waiting"
    /\ holder[mine[w]] = None
    /\ holder' = [holder EXCEPT ![mine[w]] = w]
    /\ pc' = [pc EXCEPT ![w] = "replay"]
    /\ UNCHANGED <<store, entry, users, request, mine, draft, answer, calls>>

(* Mutant: the lock is not released on the way out.                        *)
DropNothing(w) ==
    /\ pc[w] = "unlocking"
    /\ pc' = [pc EXCEPT ![w] = "leaving"]
    /\ UNCHANGED <<store, entry, users, holder, request, mine, draft, answer, calls>>

DropLock(w) ==
    /\ pc[w] = "unlocking"
    /\ holder' = [holder EXCEPT ![mine[w]] = None]
    /\ pc' = [pc EXCEPT ![w] = "leaving"]
    /\ UNCHANGED <<store, entry, users, request, mine, draft, answer, calls>>

(* _release_request_lock removes the entry when no user is left.           *)
Left(p, k) == users[p][k] <= 1

Leave(w) ==
    LET p == processOf[w]
        k == KeyOf(request[w])
    IN  /\ pc[w] = "leaving"
        /\ users' = [users EXCEPT ![p][k] = @ - 1]
        /\ entry' = [entry EXCEPT ![p][k] = IF Left(p, k) THEN None ELSE @]
        /\ pc' = [pc EXCEPT ![w] = "idle"]
        /\ request' = [request EXCEPT ![w] = None]
        /\ mine' = [mine EXCEPT ![w] = None]
        /\ draft' = [draft EXCEPT ![w] = None]
        /\ answer' = [answer EXCEPT ![w] = None]
        /\ UNCHANGED <<store, holder, calls>>

-----------------------------------------------------------------------------
(* _execute_unlocked.                                                      *)

Stored(r) == {i \in 1..Len(turns[r.thread]) : turns[r.thread][i].request.id = r.id}

Goto(w, place) == pc' = [pc EXCEPT ![w] = place]

Answered(response) == [kind |-> "answered", response |-> response]
Raised(kind) == [kind |-> kind, response |-> None]

Return(w, value) ==
    /\ answer' = [answer EXCEPT ![w] = value]
    /\ Goto(w, "unlocking")
    /\ UNCHANGED <<headRev, locks, request, mine, draft, calls>>

Replay(w) ==
    LET r == request[w]
    IN  /\ pc[w] = "replay"
        /\ Stored(r) # {}
        /\ \E i \in Stored(r) :
              Return(w, IF turns[r.thread][i].request = r
                        THEN Answered(turns[r.thread][i].response) ELSE Raised("conflict"))
        /\ UNCHANGED <<turns, sessions>>

NoReplay(w) ==
    /\ pc[w] = "replay"
    /\ Stored(request[w]) = {}
    /\ Goto(w, "session")
    /\ UNCHANGED <<store, locks, request, mine, draft, answer, calls>>

Response(session, form) ==
    [revision |-> session.revision, stamp |-> session.stamp, form |-> form]

(* _response_from_session.                                                 *)
Rebuild(w) ==
    LET session == sessions[request[w].id]
    IN  /\ pc[w] = "session"
        /\ session # None /\ session.request = request[w]
        /\ \E form \in {"first", "rebuilt"} :
              draft' = [draft EXCEPT ![w] = Response(session, form)]
        /\ Goto(w, "append")
        /\ UNCHANGED <<store, locks, request, mine, answer, calls>>

(* _assert_session_matches_request.                                        *)
SessionMismatch(w) ==
    LET session == sessions[request[w].id]
    IN  /\ pc[w] = "session"
        /\ session # None /\ session.request # request[w]
        /\ Return(w, Raised("conflict"))
        /\ UNCHANGED <<turns, sessions>>

Resolve(w) ==
    /\ pc[w] = "session"
    /\ sessions[request[w].id] = None
    /\ draft' = [draft EXCEPT ![w] = [revision |-> headRev]]
    /\ Goto(w, "agent")
    /\ UNCHANGED <<store, locks, request, mine, answer, calls>>

(* The clock, the search and the agent.                                    *)
AskAgent(w) ==
    /\ pc[w] = "agent"
    /\ \E s \in Stamps :
          draft' = [draft EXCEPT ![w] =
              [request |-> request[w], revision |-> draft[w].revision, stamp |-> s]]
    /\ Goto(w, "create")
    /\ UNCHANGED <<store, locks, request, mine, answer, calls>>

(* Mutant: an existing session is taken for this one.                      *)
CreateUnchecked(w) ==
    LET id == request[w].id
    IN  /\ pc[w] = "create"
        /\ sessions' = [sessions EXCEPT ![id] = IF @ = None THEN draft[w] ELSE @]
        /\ draft' = [draft EXCEPT ![w] = Response(draft[w], "first")]
        /\ Goto(w, "append")
        /\ UNCHANGED <<turns, headRev, locks, request, mine, answer, calls>>

(* INSERT ... ON CONFLICT DO NOTHING; the row that is there must be equal. *)
Create(w) ==
    LET id == request[w].id
    IN  /\ pc[w] = "create"
        /\ sessions[id] \in {None, draft[w]}
        /\ sessions' = [sessions EXCEPT ![id] = draft[w]]
        /\ draft' = [draft EXCEPT ![w] = Response(draft[w], "first")]
        /\ Goto(w, "append")
        /\ UNCHANGED <<turns, headRev, locks, request, mine, answer, calls>>

CreateConflict(w) ==
    /\ pc[w] = "create"
    /\ sessions[request[w].id] \notin {None, draft[w]}
    /\ Return(w, Raised("conflict"))
    /\ UNCHANGED <<turns, sessions>>

(* Mutant: a stored turn of the request is taken for this one.             *)
AppendUnchecked(w) ==
    /\ pc[w] = "append"
    /\ turns' = [turns EXCEPT ![request[w].thread] =
          IF Stored(request[w]) # {} THEN @
          ELSE Append(@, [request |-> request[w], response |-> draft[w]])]
    /\ Return(w, Answered(draft[w]))
    /\ UNCHANGED sessions

(* append_turn: an exact replay, a conflict, or a new turn; the commit may *)
(* be lost.                                                                *)
AppendTurn(w) ==
    LET t == request[w].thread
        turn == [request |-> request[w], response |-> draft[w]]
        there == {turns[t][i] : i \in Stored(request[w])}
    IN  /\ pc[w] = "append"
        /\ turns' = [turns EXCEPT ![t] = IF there = {} THEN Append(@, turn) ELSE @]
        /\ IF there \subseteq {turn}
           THEN \E value \in {Answered(draft[w]), Raised("error")} : Return(w, value)
           ELSE Return(w, Raised("conflict"))
        /\ UNCHANGED sessions

(* Any of it may raise: no head, no thread, the search, the agent, a lost  *)
(* connection.                                                             *)
Fail(w) ==
    /\ pc[w] \in {"replay", "session", "agent", "create", "append"}
    /\ Return(w, Raised("error"))
    /\ UNCHANGED <<turns, sessions>>

(* A process dies with its threads and its registry.                       *)
Crash(p) ==
    LET gone == {w \in Workers : processOf[w] = p}
    IN  /\ \E w \in gone : pc[w] # "idle"
        /\ entry' = [entry EXCEPT ![p] = [k \in Keys |-> None]]
        /\ users' = [users EXCEPT ![p] = [k \in Keys |-> 0]]
        /\ holder' = [o \in Workers \X Keys |-> IF o[1] \in gone THEN None ELSE holder[o]]
        /\ pc' = [w \in Workers |-> IF w \in gone THEN "idle" ELSE pc[w]]
        /\ request' = [w \in Workers |-> IF w \in gone THEN None ELSE request[w]]
        /\ mine' = [w \in Workers |-> IF w \in gone THEN None ELSE mine[w]]
        /\ draft' = [w \in Workers |-> IF w \in gone THEN None ELSE draft[w]]
        /\ answer' = [w \in Workers |-> IF w \in gone THEN None ELSE answer[w]]
        /\ UNCHANGED <<store, calls>>

-----------------------------------------------------------------------------
Step(w) ==
    /\ UNCHANGED processOf
    /\ \/ TakeLock(w) \/ DropLock(w) \/ Leave(w)
       \/ Replay(w) \/ NoReplay(w) \/ Rebuild(w) \/ SessionMismatch(w)
       \/ Resolve(w) \/ AskAgent(w) \/ Create(w) \/ CreateConflict(w) \/ AppendTurn(w)

Next ==
    \/ \E w \in Workers : Step(w)
    \/ /\ UNCHANGED processOf
       /\ \/ MoveHead
          \/ \E w \in Workers : Arrive(w) \/ Fail(w)
          \/ \E p \in Processes : Crash(p)

Spec == Init /\ [][Next]_vars

(* Threads run; a lock that stays free is taken in the end.                *)
Fairness == \A w \in Workers : WF_vars(Step(w))

FairSpec == Spec /\ Fairness

-----------------------------------------------------------------------------
(* Whoever gets an answer gets the one the thread stores: retries, rebuilt *)
(* responses and executions in other processes never give two answers to   *)
(* one request, and no thread stores a request twice.                      *)
AnswersAgree ==
    /\ \A w \in Workers : answer[w] # None /\ answer[w].kind = "answered" =>
          \E i \in 1..Len(turns[request[w].thread]) :
              turns[request[w].thread][i] =
                  [request |-> request[w], response |-> answer[w].response]
    /\ \A t \in Threads : \A i, j \in 1..Len(turns[t]) :
          turns[t][i].request.id = turns[t][j].request.id => i = j

(* A turn tells what its retrieval session recorded: the same request, the *)
(* revision pinned then, whatever the head is by now, and what the agent   *)
(* said then.                                                              *)
TurnsFollowSessions ==
    \A t \in Threads : \A i \in 1..Len(turns[t]) :
        LET turn == turns[t][i]
            session == sessions[turn.request.id]
        IN  /\ session # None
            /\ session.request = turn.request
            /\ session.revision = turn.response.revision
            /\ session.stamp = turn.response.stamp

(* Every request that is taken up ends, in an answer or in an error.       *)
RequestsEnd == \A w \in Workers : (pc[w] = "waiting") ~> (pc[w] = "idle")

=============================================================================
