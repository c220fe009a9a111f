------------------------------ MODULE Matchmaker ------------------------------
(***************************************************************************)
(* The play queue of the split deployment.  A gateway puts users into a    *)
(* queue in Redis (remote_proxies.py, gateway_client.py, redis_queue.py),  *)
(* the matchmaker process takes them out and publishes what became of them *)
(* (worker.py), the game shards make the rooms (game_main.py) and enter    *)
(* them into the directory in Redis (allocator.py), and the gateway tells  *)
(* the users (gateway_main.py).                                            *)
(*                                                                         *)
(* Four kinds of process share nothing but Redis.  One Redis command is    *)
(* one step; the worker's tick is many of them, and requests come in       *)
(* between any two.  An event that was published and not yet handled is in *)
(* its subscriber's buffer, and goes with the subscriber when he restarts. *)
(*                                                                         *)
(* A room is not freed when its game ends: RoomService keeps its players,  *)
(* and only the directory forgets them.  Viewers of a room are left out,   *)
(* and so are calls to a shard that time out.                              *)
(***************************************************************************)
EXTENDS Queues, SequencesExt

CONSTANTS
  Users,
  Elo,         \* the rating the gateway reads for a user
  EloWindow,   \* ELO_WINDOW
  Shards,      \* GAME_SHARDS
  NoShard,     \* what shard_for_user returns for a user without a room
  Nobody,      \* the other player of a room one user waits in
  MaxRequests, \* bound: requests to play, and to create or join a room, in one run
  MaxRestarts  \* bound: restarts of shards in one run

ASSUME MatchmakerAssumption ==
  /\ IsFiniteSet(Users) /\ IsFiniteSet(Shards)
  /\ Elo \in [Users -> Nat] /\ EloWindow \in Nat
  /\ NoShard \notin Shards /\ Nobody \notin Users
  /\ MaxRequests \in Nat /\ MaxRestarts \in Nat

VARIABLES
  queue,      \* mm:queue in the order of the join times, with mm:elo
  pc,         \* where the worker is
  items,      \* the snapshot it walks over
  unrated,    \* the users of the snapshot whose rating was gone when it was read
  index,      \* how far it is
  used,       \* its timed_out or used
  inbox,      \* create_match events in each shard's buffer
  todo,       \* what the handler a shard is in has still to send to Redis
  notices,    \* how many match_timeout events the gateway's buffer has for a user
  found,      \* how many messages that say he is in a room, likewise
  waiting,    \* does the user's window show the queue?
  inRoom,     \* the keys of each shard's _user_room
  games,      \* each shard's rooms whose games go on
  home,       \* shard_for_user: user:room and room:shard, taken together
  requests, restarts,
  due,        \* history: users who pressed Play since the worker last answered them
  lost,       \* history: users who wait although their match was refused or lost in a
              \* restart, or their entry was removed after they had pressed Play again
  rehomed     \* history: users who entered a room while a game of theirs went on

workerVars == <<pc, items, unrated, index, used>>
shardVars == <<inbox, todo, inRoom, games, home, restarts, rehomed>>
userVars == <<notices, found, waiting>>
vars == <<queue, workerVars, shardVars, userVars, requests, due, lost>>

Entry == [user : Users, old : BOOLEAN]
Match == [shard : Shards, white : Users, black : Users]
Game == [shard : Shards, white : Users, black : Users \cup {Nobody}]

\* SET user:room, and the message that tells the user.
Bind(u) == [op |-> "bind", user |-> u]
Tell(u) == [op |-> "tell", user |-> u]
Command == [op : {"bind", "tell"}, user : Users]

TypeOK ==
  /\ queue \in Seq(Entry) /\ items \in Seq(Entry)
  /\ pc \in {"sleep", "expire", "expired", "ratings", "match"}
  /\ index \in Nat
  /\ used \subseteq Users /\ unrated \subseteq Users
  /\ inbox \in [Shards -> Seq(Match)] /\ todo \in [Shards -> Seq(Command)]
  /\ notices \in [Users -> Nat] /\ found \in [Users -> Nat]
  /\ waiting \in [Users -> BOOLEAN]
  /\ due \subseteq Users /\ lost \subseteq Users /\ rehomed \subseteq Users
  /\ inRoom \in [Shards -> SUBSET Users]
  /\ games \subseteq Game
  /\ home \in [Users -> Shards \cup {NoShard}]
  /\ requests \in 0 .. MaxRequests /\ restarts \in 0 .. MaxRestarts

Init ==
  /\ queue = << >> /\ items = << >>
  /\ pc = "sleep" /\ index = 1 /\ used = {} /\ unrated = {}
  /\ inbox = [s \in Shards |-> << >>] /\ todo = [s \in Shards |-> << >>]
  /\ notices = [u \in Users |-> 0] /\ found = [u \in Users |-> 0]
  /\ waiting = [u \in Users |-> FALSE]
  /\ inRoom = [s \in Shards |-> {}]
  /\ games = {}
  /\ home = [u \in Users |-> NoShard]
  /\ requests = 0 /\ restarts = 0
  /\ due = {} /\ lost = {} /\ rehomed = {}

-----------------------------------------------------------------------------
Queued(u) == \E n \in DOMAIN queue : queue[n].user = u

PlayersOf(game) == {game.white, game.black} \ {Nobody}

Inbox(s) == ToSet(inbox[s])

\* What a shard has to do with u before he is told of his room.
Handling(u, s) ==
  (\E match \in Inbox(s) : u \in PlayersOf(match)) \/ Tell(u) \in ToSet(todo[s])

\* Something is on its way to u that takes him out of the queue's screen.
Answered(u) == notices[u] > 0 \/ found[u] > 0 \/ (\E s \in Shards : Handling(u, s))

InGame(u) == \E game \in games : u \in PlayersOf(game)

-----------------------------------------------------------------------------
\* Requests to the gateway.  Nothing there looks at rooms, or at what the worker does.

\* Mutant: an entry that is a bare user id.
EnqueueBare(u) == IF Queued(u) THEN queue ELSE Append(queue, u)

\* RedisMatchmakingQueue.enqueue
Enqueue(u) == IF Queued(u) THEN queue ELSE Append(queue, [user |-> u, old |-> FALSE])

\* A request counts towards the bound.
Request == requests < MaxRequests /\ requests' = requests + 1

\* RemoteLobbyProxy.play
Play(u) ==
  /\ ~ waiting[u]
  /\ Request
  /\ queue' = Enqueue(u)
  /\ waiting' = [waiting EXCEPT ![u] = TRUE]
  /\ due' = due \cup {u}
  /\ UNCHANGED <<workerVars, shardVars, notices, found, lost>>

\* The window leaves the queue's screen, and whatever became of that wait is over.
StopWaiting(u) ==
  /\ waiting' = [waiting EXCEPT ![u] = FALSE]
  /\ lost' = lost \ {u}

\* Mutants: everybody is removed; nobody is.
RemovedAll(us) == {<< >>}
RemovedNone(us) == {queue}

\* RedisMatchmakingQueue.remove_users removes by user, whenever he joined.
Removed(us) == Remaining(queue, us)

\* RemoteLobbyProxy.cancel_play, and on_disconnect of a user in no room.
CancelPlay(u) ==
  /\ waiting[u] \/ Queued(u)
  /\ queue' \in Removed({u})
  /\ StopWaiting(u)
  /\ UNCHANGED <<workerVars, shardVars, notices, found, due, requests>>

\* A shard has put the users into a room of its own.
Settle(us, s) ==
  /\ inRoom' = [inRoom EXCEPT ![s] = @ \cup us]
  /\ rehomed' = {u \in rehomed \cup us : u \in us => InGame(u)}

\* create_room and join_room, as the shard that has the room carries them out: the
\* binding to the room and the reply follow.
Enter(u, s) ==
  /\ todo[s] = << >> /\ u \notin inRoom[s]
  /\ Request
  /\ Settle({u}, s)
  /\ todo' = [todo EXCEPT ![s] = <<Bind(u), Tell(u)>>]
  /\ UNCHANGED <<queue, workerVars, inbox, home, restarts, userVars, due, lost>>

CreateRoom(u, s) ==
  /\ Enter(u, s)
  /\ games' = games \cup {[shard |-> s, white |-> u, black |-> Nobody]}

JoinRoom(u, game) ==
  /\ game.black = Nobody
  /\ Enter(u, game.shard)
  /\ games' = (games \ {game}) \cup {[game EXCEPT !.black = u]}

-----------------------------------------------------------------------------
\* The worker.

\* QUEUE_TIMEOUT_SECONDS pass for an entry.
GrowOld(n) ==
  /\ ~ queue[n].old
  /\ queue' = [queue EXCEPT ![n].old = TRUE]
  /\ UNCHANGED <<workerVars, shardVars, userVars, due, lost, requests>>

\* _expire_timeouts and _try_match begin with a snapshot of their own: ZRANGE.
TakeSnapshot(from, to) ==
  /\ pc = from
  /\ pc' = to
  /\ items' = queue /\ index' = 1 /\ used' = {} /\ unrated' = {}
  /\ UNCHANGED <<queue, shardVars, userVars, due, lost, requests>>

\* The ratings the expiry's snapshot reads are not used.
StartExpire == TakeSnapshot("sleep", "expire")
StartMatch == TakeSnapshot("expired", "ratings")

\* HGETALL, for those who have not cancelled since.
ReadRatings ==
  /\ pc = "ratings"
  /\ pc' = "match"
  /\ unrated' = {u \in Users : ~ Queued(u)}
  /\ UNCHANGED <<queue, items, index, used, shardVars, userVars, due, lost, requests>>

AtEntry(pass) == pc = pass /\ index \in DOMAIN items

\* The worker publishes its answers to users.
Answers(us) == used' = used \cup us /\ due' = due \ us

ExpireEntry ==
  /\ AtEntry("expire")
  /\ index' = index + 1
  /\ IF items[index].old
     THEN /\ notices' = [notices EXCEPT ![items[index].user] = @ + 1]
          /\ Answers({items[index].user})
     ELSE UNCHANGED <<notices, used, due>>
  /\ UNCHANGED <<queue, pc, items, unrated, shardVars, found, waiting, lost, requests>>

\* RedisMatchmakingQueue.snapshot
Rating(u) == IF u \in unrated THEN 1200 ELSE Elo[u]

Near(a, b) == Rating(a) - Rating(b) \in -EloWindow .. EloWindow

Seeker == items[index].user

\* The entries after the seeker's he may be matched with.
Candidates ==
  IF Seeker \in used
  THEN {}
  ELSE {n \in index + 1 .. Len(items) : items[n].user \notin used /\ Near(Seeker, items[n].user)}

SkipEntry ==
  /\ AtEntry("match")
  /\ Candidates = {}
  /\ index' = index + 1
  /\ UNCHANGED <<queue, pc, items, unrated, used, shardVars, userVars, due, lost, requests>>

\* The shard is the hash of a random room id.
PublishMatch(s) ==
  LET game == [shard |-> s, white |-> Seeker, black |-> items[Min(Candidates)].user]
  IN  /\ AtEntry("match")
      /\ Candidates # {}
      /\ Answers(PlayersOf(game))
      /\ inbox' = [inbox EXCEPT ![s] = Append(@, game)]
      /\ index' = index + 1
      /\ UNCHANGED <<queue, pc, items, unrated, todo, inRoom, games, home, restarts, rehomed, userVars, lost, requests>>

\* Users whose wait nobody will end.
Forgotten(us) == lost' = lost \cup {u \in us : waiting[u]}

\* Each pass ends by removing those it answered, also who pressed Play again since.
EndPass(from, to) ==
  /\ pc = from /\ index \notin DOMAIN items
  /\ pc' = to
  /\ queue' \in Removed(used)
  /\ Forgotten(used \cap due)
  /\ items' = << >> /\ index' = 1 /\ used' = {} /\ unrated' = {}
  /\ UNCHANGED <<shardVars, userVars, due, requests>>

ExpireDone == EndPass("expire", "expired")
MatchDone == EndPass("match", "sleep")

Worker ==
  \/ StartExpire \/ ExpireEntry \/ ExpireDone
  \/ StartMatch \/ ReadRatings
  \/ SkipEntry \/ (\E s \in Shards : PublishMatch(s)) \/ MatchDone

-----------------------------------------------------------------------------
\* The shards.  One handler runs at a time, and each of its commands is a step.

\* Mutant: the players are told before the directory has them.
TellFirst(game) == <<Tell(game.white), Tell(game.black), Bind(game.white), Bind(game.black)>>

\* bind_match, then the two match_found messages.  The worker's allocate has set
\* room:shard already, to the shard the match was published for.
Commands(game) == <<Bind(game.white), Bind(game.black), Tell(game.white), Tell(game.black)>>

CanCreate(s) == PlayersOf(Head(inbox[s])) \cap inRoom[s] = {}

\* _handle_create_match takes the next event.
TakeMatch(s) ==
  /\ todo[s] = << >> /\ inbox[s] # << >>
  /\ inbox' = [inbox EXCEPT ![s] = Tail(@)]

\* create_matched_room
CreateMatch(s) ==
  LET game == Head(inbox[s])
  IN  /\ TakeMatch(s)
      /\ CanCreate(s)
      /\ Settle(PlayersOf(game), s)
      /\ games' = games \cup {game}
      /\ todo' = [todo EXCEPT ![s] = Commands(game)]
      /\ UNCHANGED <<queue, workerVars, home, restarts, userVars, due, lost, requests>>

\* create_matched_room raises, the error is logged, and nobody is told.
RefuseMatch(s) ==
  /\ TakeMatch(s)
  /\ ~ CanCreate(s)
  /\ Forgotten(PlayersOf(Head(inbox[s])))
  /\ UNCHANGED <<queue, workerVars, todo, inRoom, games, home, restarts, rehomed, userVars, due, requests>>

\* The next command of the handler.
SendCommand(s) ==
  LET command == Head(todo[s])
  IN  /\ todo[s] # << >>
      /\ todo' = [todo EXCEPT ![s] = Tail(@)]
      /\ IF command.op = "bind"
         THEN home' = [home EXCEPT ![command.user] = s] /\ UNCHANGED found
         ELSE found' = [found EXCEPT ![command.user] = @ + 1] /\ UNCHANGED home
      /\ UNCHANGED <<queue, workerVars, inbox, inRoom, games, restarts, rehomed, notices, waiting, due, lost, requests>>

\* The game is rated and _cleanup_redis releases it: the directory forgets its two
\* players, whatever it says of them by now.
FinishGame(game) ==
  /\ game.black # Nobody /\ todo[game.shard] = << >>
  /\ games' = games \ {game}
  /\ home' = [u \in Users |-> IF u \in PlayersOf(game) THEN NoShard ELSE home[u]]
  /\ UNCHANGED <<queue, workerVars, inbox, todo, inRoom, restarts, rehomed, userVars, due, lost, requests>>

\* A shard's container is restarted: its rooms, its buffer and the handler it was in
\* are gone, and Redis keeps what it wrote there.
Restart(s) ==
  /\ restarts < MaxRestarts
  /\ restarts' = restarts + 1
  /\ inbox' = [inbox EXCEPT ![s] = << >>]
  /\ todo' = [todo EXCEPT ![s] = << >>]
  /\ inRoom' = [inRoom EXCEPT ![s] = {}]
  /\ games' = {g \in games : g.shard # s}
  /\ Forgotten({u \in Users : Handling(u, s)})
  /\ UNCHANGED <<queue, workerVars, home, rehomed, userVars, due, requests>>

Shard(s) == CreateMatch(s) \/ RefuseMatch(s) \/ SendCommand(s)

-----------------------------------------------------------------------------
\* The gateway's two listeners.

TellTimeout(u) ==
  /\ notices[u] > 0
  /\ notices' = [notices EXCEPT ![u] = @ - 1]
  /\ StopWaiting(u)
  /\ UNCHANGED <<queue, workerVars, shardVars, found, due, requests>>

TellFound(u) ==
  /\ found[u] > 0
  /\ found' = [found EXCEPT ![u] = @ - 1]
  /\ StopWaiting(u)
  /\ UNCHANGED <<queue, workerVars, shardVars, notices, due, requests>>

Listeners(u) == TellTimeout(u) \/ TellFound(u)

-----------------------------------------------------------------------------
Next ==
  \/ \E u \in Users : Play(u) \/ CancelPlay(u) \/ Listeners(u)
  \/ \E u \in Users, s \in Shards : CreateRoom(u, s)
  \/ \E u \in Users, game \in games : JoinRoom(u, game)
  \/ \E n \in DOMAIN queue : GrowOld(n)
  \/ Worker
  \/ \E s \in Shards : Shard(s) \/ Restart(s)
  \/ \E game \in games : FinishGame(game)

Spec == Init /\ [][Next]_vars

\* Each process's loop runs for ever, and time passes for who is queued.  No user
\* has to do anything, and no game has to end.
FairSpec ==
  /\ Spec
  /\ WF_vars(Worker)
  /\ \A s \in Shards : WF_vars(Shard(s))
  /\ \A u \in Users :
       /\ WF_vars(TellTimeout(u)) /\ WF_vars(TellFound(u))
       /\ WF_vars(\E n \in DOMAIN queue : queue[n].user = u /\ GrowOld(n))

-----------------------------------------------------------------------------
\* Safety.

\* Whoever waits has an entry, or an answer on its way, unless a shard refused or lost
\* his match or the worker removed him although he had pressed Play since its answer:
\* no other order of joins, cancels and the worker's removals drops him.
WaitingIsSomewhere == \A u \in Users : waiting[u] => Queued(u) \/ Answered(u) \/ u \in lost

\* The step publishes an answer of the worker's to u.
Publishes(u) ==
  \/ notices'[u] > notices[u]
  \/ \E s \in Shards : Len(inbox'[s]) > Len(inbox[s]) /\ u \in PlayersOf(Last(inbox'[s]))

\* Nobody gets two answers of the worker for one press of Play: neither a timeout and a
\* match, nor two of a kind, however the passes and his cancels interleave.
OneAnswerPerPlay == [][\A u \in Users : Publishes(u) => u \in due]_vars

\* By the time a player is told of his room the directory leads him to the shard that
\* runs the game, unless he entered the room while another game of his went on.
PlayerIsRouted ==
  \A game \in games : \A u \in PlayersOf(game) \ rehomed :
    home[u] = game.shard \/ Tell(u) \in ToSet(todo[game.shard])

-----------------------------------------------------------------------------
\* Liveness, under FairSpec.

\* Whoever waits is told, cancels, or is one of those nobody will answer.
WaitingIsAnswered == \A u \in Users : waiting[u] ~> (~ waiting[u] \/ u \in lost)
=============================================================================
