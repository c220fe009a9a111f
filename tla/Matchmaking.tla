----------------------------- MODULE Matchmaking -----------------------------
(***************************************************************************)
(* The play queue of the one-process server:                               *)
(* Server/application/matchmaking_service.py, driven by the loop of        *)
(* server_runtime.py and by the lobby requests of lobby_service.py.        *)
(*                                                                         *)
(* Everything runs on one asyncio thread, so coroutines interleave only    *)
(* where one of them awaits.  The loop awaits while it sends a message and *)
(* while it sleeps; between two awaits no request is handled.  AtAwait     *)
(* says where the loop can be when a request comes in.                     *)
(*                                                                         *)
(* The queue is a Python list that the methods treat in three ways:        *)
(* enqueue appends to the list object, cancel and the two halves of tick   *)
(* replace it by a new one.  _expire_timeouts iterates over the list       *)
(* object it found, so an append made while it awaits is seen by the       *)
(* iteration only as long as nobody replaced the list (shared).            *)
(***************************************************************************)
EXTENDS Rooms, Queues, FiniteSetsExt

CONSTANTS
  Elo,        \* the rating enqueue reads for a user
  EloWindow,  \* ELO_WINDOW
  SlowSends,  \* does a send ever suspend the loop, so that requests come in?
  Wanderers   \* users who may create or join a room while they are queued

ASSUME MatchmakingAssumption ==
  /\ Elo \in [Users -> Nat]
  /\ EloWindow \in Nat
  /\ SlowSends \in BOOLEAN
  /\ Wanderers \subseteq Users

VARIABLES
  queue,      \* _queue: entries [user, old], old once it is QUEUE_TIMEOUT_SECONDS old
  pc,         \* where the server's loop is
  items,      \* the list object _expire_timeouts iterates over
  shared,     \* is _queue still that object?
  still,      \* its local list of the entries to keep
  index,      \* the position of the loop that is running
  used,       \* _try_match's set of matched users
  mate,       \* the partner who is still to be told of the match
  connected,  \* has the user a socket?
  waiting,    \* does the user's window show the queue?
  strays      \* history: users in a room whose entry a list still has, because they
              \* went there on their own or because the pass that matched them raised

mmVars == <<queue, pc, items, shared, still, index, used, mate, connected, waiting, strays>>
vars == <<roomVars, mmVars>>

Entry == [user : Users, old : BOOLEAN]

\* At an await: the loop sleeps or ticks the games, or its send (of a timeout, of
\* the match to the first or to the second player) waits for a slow socket.
AtAwait ==
  \/ pc \in {"sleep", "games"}
  \/ SlowSends /\ pc \in {"sending_timeout", "told_white", "told_black"}

TypeOK ==
  /\ RoomsTypeOK
  /\ queue \in Seq(Entry) /\ items \in Seq(Entry) /\ still \in Seq(Entry)
  /\ pc \in {"sleep", "expire", "sending_timeout", "match", "told_white", "told_black", "games"}
  /\ shared \in BOOLEAN
  /\ index \in Nat
  /\ used \subseteq Users
  /\ mate \subseteq Users
  /\ connected \in [Users -> BOOLEAN]
  /\ waiting \in [Users -> BOOLEAN]
  /\ strays \subseteq Users

Init ==
  /\ RoomsInit
  /\ queue = << >> /\ items = << >> /\ still = << >>
  /\ pc = "sleep"
  /\ shared = FALSE
  /\ index = 1
  /\ used = {} /\ mate = {}
  /\ connected = [u \in Users |-> FALSE]
  /\ waiting = [u \in Users |-> FALSE]
  /\ strays = {}

Has(list, u) == \E n \in DOMAIN list : list[n].user = u

Queued(u) == Has(queue, u)

Listed(u) == Queued(u) \/ Has(items, u) \/ Has(still, u)

-----------------------------------------------------------------------------
\* Requests.  Each handler runs to its first send without an await.

loopVars == <<pc, still, index, used, mate>>

\* Mutant: a second entry for who is queued.
EnqueueAgain(u) == Append(queue, [user |-> u, old |-> FALSE])

\* MatchmakingService.enqueue
Enqueue(u) == IF Queued(u) THEN queue ELSE Append(queue, [user |-> u, old |-> FALSE])

\* LobbyService.play
Play(u) ==
  /\ AtAwait /\ connected[u] /\ ~ InRoom(u)
  /\ queue' = Enqueue(u)
  /\ items' = IF shared THEN queue' ELSE items
  /\ waiting' = [waiting EXCEPT ![u] = TRUE]
  /\ UNCHANGED <<roomVars, loopVars, shared, connected, strays>>

\* Mutant: a user who leaves stays queued.
CancelNothing(u) == UNCHANGED <<queue, shared, strays>>

\* MatchmakingService.cancel
Cancel(u) ==
  /\ queue' \in Remaining(queue, {u})
  /\ shared' = FALSE
  /\ strays' = IF Has(items, u) \/ Has(still, u) THEN strays ELSE strays \ {u}

\* LobbyService.cancel_play
CancelPlay(u) ==
  /\ AtAwait /\ connected[u] /\ waiting[u]
  /\ Cancel(u)
  /\ waiting' = [waiting EXCEPT ![u] = FALSE]
  /\ UNCHANGED <<roomVars, loopVars, items, connected>>

\* LobbyService.create_room and join_room leave the queue alone.
EnterRoom(u) ==
  /\ AtAwait /\ connected[u]
  /\ waiting[u] => u \in Wanderers
  /\ CreateRoom(u) \/ \E r \in RoomIds : JoinRoom(r, u)
  /\ waiting' = [waiting EXCEPT ![u] = FALSE]
  /\ strays' = IF Listed(u) THEN strays \cup {u} ELSE strays
  /\ UNCHANGED <<queue, items, shared, loopVars, connected>>

\* ServerRuntime.on_client_disconnected
ClientDisconnected(u) ==
  /\ AtAwait /\ connected[u]
  /\ connected' = [connected EXCEPT ![u] = FALSE]
  /\ Cancel(u)
  /\ MarkDisconnected(u)
  /\ waiting' = [waiting EXCEPT ![u] = FALSE]
  /\ UNCHANGED <<loopVars, items>>

\* SessionService.login or authenticate, on a new socket
LogIn(u) ==
  /\ AtAwait /\ ~ connected[u]
  /\ connected' = [connected EXCEPT ![u] = TRUE]
  /\ Reconnect(u)
  /\ UNCHANGED <<queue, items, shared, loopVars, waiting, strays>>

-----------------------------------------------------------------------------
\* The loop.  Message effects on a window: a timeout or a match ends its wait.

Told(u) == [waiting EXCEPT ![u] = FALSE]

\* The whole minute passes for an entry.  What becomes old while the loop runs
\* is too late for the time it read, so the loop sleeps.
EntryTimesOut(n) ==
  /\ pc = "sleep" /\ ~ queue[n].old
  /\ queue' = [queue EXCEPT ![n].old = TRUE]
  /\ UNCHANGED <<roomVars, loopVars, items, shared, connected, waiting, strays>>

\* tick begins: _expire_timeouts
StartTick ==
  /\ pc = "sleep"
  /\ pc' = "expire"
  /\ items' = queue /\ shared' = TRUE
  /\ still' = << >>
  /\ index' = 1
  /\ UNCHANGED <<roomVars, queue, used, mate, connected, waiting, strays>>

KeepEntry ==
  /\ pc = "expire" /\ index \in DOMAIN items
  /\ ~ items[index].old
  /\ still' = Append(still, items[index])
  /\ index' = index + 1
  /\ UNCHANGED <<roomVars, queue, pc, items, shared, used, mate, connected, waiting, strays>>

SendTimeout ==
  /\ pc = "expire" /\ index \in DOMAIN items
  /\ items[index].old
  /\ waiting' = Told(items[index].user)
  /\ pc' = "sending_timeout"
  /\ UNCHANGED <<roomVars, queue, items, shared, still, index, used, mate, connected, strays>>

\* Mutant: a timed-out entry is kept.
TimeoutSentAndKept ==
  /\ pc = "sending_timeout"
  /\ pc' = "expire"
  /\ index' = index + 1
  /\ still' = Append(still, items[index])
  /\ UNCHANGED <<roomVars, queue, items, shared, used, mate, connected, waiting, strays>>

TimeoutSent ==
  /\ pc = "sending_timeout"
  /\ pc' = "expire"
  /\ index' = index + 1
  /\ UNCHANGED <<roomVars, queue, items, shared, still, used, mate, connected, waiting, strays>>

\* The queue becomes what the iteration kept; _try_match begins.
ExpireDone ==
  /\ pc = "expire" /\ index \notin DOMAIN items
  /\ queue' = still
  /\ items' = << >> /\ still' = << >> /\ shared' = FALSE
  /\ pc' = "match"
  /\ index' = 1
  /\ used' = {}
  /\ strays' = {u \in strays : Has(still, u)}
  /\ UNCHANGED <<roomVars, mate, connected, waiting>>

Near(a, b) == Elo[a] - Elo[b] \in -EloWindow .. EloWindow

\* The entry _try_match is at, and the entries it may match with it.
Seeker == queue[index].user

Candidates ==
  IF Seeker \in used
  THEN {}
  ELSE {n \in index + 1 .. Len(queue) : queue[n].user \notin used /\ Near(Seeker, queue[n].user)}

NobodyNear ==
  /\ pc = "match" /\ index \in DOMAIN queue
  /\ Candidates = {}
  /\ index' = index + 1
  /\ UNCHANGED <<roomVars, queue, pc, items, shared, still, used, mate, connected, waiting, strays>>

Opponent == queue[Min(Candidates)].user

\* A room is made for the two and white is told.
MatchFound ==
  /\ pc = "match" /\ index \in DOMAIN queue
  /\ Candidates # {}
  /\ CreateMatchedRoom(Seeker, Opponent)
  /\ used' = used \cup {Seeker, Opponent}
  /\ mate' = {Opponent}
  /\ waiting' = Told(Seeker)
  /\ pc' = "told_white"
  /\ UNCHANGED <<queue, items, shared, still, index, connected, strays>>

\* create_matched_room raises: the tick ends there, and the games are not ticked.
MatchRaises ==
  /\ pc = "match" /\ index \in DOMAIN queue
  /\ Candidates # {}
  /\ ~ CanMatch(Seeker, Opponent)
  /\ pc' = "sleep"
  /\ strays' = strays \cup used
  /\ UNCHANGED <<roomVars, queue, items, shared, still, index, used, mate, connected, waiting>>

TellBlack ==
  /\ pc = "told_white"
  /\ \E u \in mate : waiting' = Told(u)
  /\ mate' = {}
  /\ pc' = "told_black"
  /\ UNCHANGED <<roomVars, queue, items, shared, still, index, used, connected, strays>>

MatchSent ==
  /\ pc = "told_black"
  /\ pc' = "match"
  /\ index' = index + 1
  /\ UNCHANGED <<roomVars, queue, items, shared, still, used, mate, connected, waiting, strays>>

\* Mutants: the matched stay queued; nobody does.
UnmatchedAndMatched == {queue}
UnmatchedForgotten == {<< >>}

\* What _try_match leaves in the queue.
Unmatched == Remaining(queue, used)

MatchDone ==
  /\ pc = "match" /\ index \notin DOMAIN queue
  /\ queue' \in Unmatched
  /\ used' = {}
  /\ index' = 1
  /\ pc' = "games"
  /\ UNCHANGED <<roomVars, items, shared, still, mate, connected, waiting, strays>>

\* tick_all and the grace pass, which do not touch the queue.
TickGames ==
  /\ pc = "games"
  /\ pc' = "sleep"
  /\ UNCHANGED <<roomVars, queue, items, shared, still, index, used, mate, connected, waiting, strays>>

-----------------------------------------------------------------------------
Loop ==
  \/ StartTick \/ KeepEntry \/ SendTimeout \/ TimeoutSent \/ ExpireDone
  \/ NobodyNear \/ MatchFound \/ MatchRaises \/ TellBlack \/ MatchSent \/ MatchDone
  \/ TickGames

Request(u) ==
  Play(u) \/ CancelPlay(u) \/ EnterRoom(u) \/ ClientDisconnected(u) \/ LogIn(u)

Next ==
  \/ Loop
  \/ \E n \in DOMAIN queue : EntryTimesOut(n)
  \/ \E u \in Users : Request(u)

Spec == Init /\ [][Next]_vars

\* The event loop runs the loop's coroutine again and again, and time passes.
OldAge(u) == \E n \in DOMAIN queue : queue[n].user = u /\ EntryTimesOut(n)

FairSpec == Spec /\ WF_vars(Loop) /\ \A u \in Users : SF_vars(OldAge(u))

-----------------------------------------------------------------------------
\* Safety.

\* Through every replacement of the list no user gets a second entry, so nobody
\* is matched twice, or with himself.
OneEntryPerUser ==
  \A m, n \in DOMAIN queue : queue[m].user = queue[n].user => m = n

\* A window that shows the queue belongs to a user the server still has in it, in
\* the list, or in what the running iteration keeps or has yet to look at, or to
\* the player about to be told.
WaitingIsQueued ==
  \A u \in Users : waiting[u] =>
     \/ u \in mate
     \/ pc \notin {"expire", "sending_timeout"} /\ Queued(u)
     \/ \E n \in DOMAIN still : still[n].user = u
     \/ \E n \in index .. Len(items) : items[n].user = u

\* A match is made of two users whose windows are waiting for one.
MatchesThoseWhoWait ==
  [][\A u \in Users : pc = "match" /\ ~ InRoom(u) /\ userRoom'[u] # NoRoom =>
       connected[u] /\ waiting[u]]_vars

\* A match pass raises, and takes the tick of the games with it, only over a stray: a
\* user who went into a room with his entry in a list of the queue, or whom a pass
\* matched that then raised over a stray.  Whoever else was matched, timed out, left or
\* came back costs no tick, wherever the sends let requests in.
TicksAreLostToStrays ==
  [][pc = "match" /\ pc' = "sleep" => {Seeker, Opponent} \cap strays # {}]_vars

\* A stray makes every match with him raise.  His entry ends it: the expiry pass runs
\* before the match pass can raise, and no entry that is out of time survives it.
OldEntriesLeave ==
  pc \in {"match", "told_white", "told_black", "games"} => \A n \in DOMAIN queue : ~ queue[n].old

-----------------------------------------------------------------------------
\* Liveness, under FairSpec.

\* Whoever waits is answered: with a match, with the timeout, or by leaving.
WaitingIsAnswered == \A u \in Users : waiting[u] ~> ~ waiting[u]
=============================================================================
