# A verification development for KungFu Chess

KungFu Chess is chess without turns: both players launch any of their standing
pieces at any time, a piece is in the air for a second per square, and what
matters is who lands first. The repository holds the game engine, a Python
asyncio server with lobby, matchmaking, ratings and disconnect handling, a
deployment of that server split over Redis, and a graphical client.

This directory holds TLA+ modules translated from the code, TLC configurations
that check them on small instances, and proofs checked by TLAPS. `PROJECT.json`
maps every definition to the lines it stands for, lists the runs, the mutants
(a plausible bug for every property, which the run must find), the hazards and
the theorems.

## 1. The system

| Component | State | Operations | Talks to |
|---|---|---|---|
| Movement rules (`rules/`) | none | squares of a piece, legality of a move | the engine's board |
| Engine (`engine/`, `realtime/`, `model/`, `engine_adapter.py`) | board, piece kind and status, motions in the air, score, winner | jump, move, forfeit, clock update | rules; called by the game service, the click controller and the client |
| Rooms (`room_service.py`) | rooms with members, roles and deadlines; user to room | create, match, join, disconnect, reconnect, expire | creates an engine by callback |
| Sockets and sessions (`transport/`, `session_service.py`) | socket to user, user to socket | open, login, auth, close | rooms (reconnect, disconnect), router |
| Matchmaking (`matchmaking_service.py`, `lobby_service.py`) | the queue | play, cancel, tick (expire, match) | rooms, sends to users |
| Games and loop (`game_service.py`, `server_runtime.py`) | engines by room, rated flag, countdown cache | move, tick, rate, forfeit | engines, rooms, user store, sends |
| Matchmaker service (`infrastructure/matchmaking/`) | Redis queue, shard load, pub/sub events | enqueue, cancel, snapshot, match, remove, allocate | gateways and shards over Redis |
| Shard and gateway (`game_main.py`, `gateway_main.py`, `infrastructure/messaging/`) | Redis command lists and replies, user to room and room to shard keys | call, reply, create match, rejoin, clean up | each other over Redis |
| Stores (`infrastructure/db/`) | users, sessions, results | single SQL statements, Redis keys with a TTL | game service, auth |
| Wire protocol (`protocol.py`) | none | make and parse messages | both ends of a socket |
| Client (`Design/board/`) | screen, a board and a clock of its own, fields and events of its network thread, login threads | log in, play, create, join, click, apply state, apply ack, land a flight | the server over one socket, the HTTP API |
| Click controller and scripts (`controller/`, `texttests/`) | the selected square | click, jump, wait | a local engine |

### What is hard here

* **Many things at once on one board.** A move is judged when it is requested
  and lands later, on a board that has changed. One clock update may land several
  pieces of both colours, and the code settles them one by one.
* **One thread, many awaits.** The server's loop and the handlers of messages
  share an asyncio thread. Nothing runs between two awaits, and everything may run
  at one. `_expire_timeouts`, `_try_match`, `tick_all` and
  `_process_disconnect_grace` read something, await a send, and go on with what
  they read.
* **Who is there.** A user may have two sockets for a while; the end of the first
  comes late. Deadlines race returns.
* **Partial failure.** The user store raises between two writes; an exception in one
  room ends the tick for all.
* **Never released.** Rooms, engines and the user-to-room entries stay.
* **Messages between processes.** In the split deployment a call may time out and
  be carried out later, an event may find nobody listening, and a user may cancel
  between the matchmaker's snapshot and its match. The end of a socket is told by a
  thread that a new login may overtake.
* **Two boards.** A window shows a board of its own, on which its own clock lands
  what the server acknowledged, while states from the server replace it. Network
  thread, login threads and screen share fields without a lock.

The full list, each at its line and with the properties that watch it, is
`hazards` in `PROJECT.json`.

## 2. Modules

| Module | Models | Extends |
|---|---|---|
| `PieceRules` | `piece_rules.py`, `rule_engine.py` | |
| `GameEngine` | `game_engine.py`, `real_time_arbiter.py`, `board.py`, `scoreboard.py`, `engine_adapter.py` | `PieceRules` |
| `AbstractGame` | what a game promises: pieces stand, fly or are taken, captures are by enemies, a decided game launches nothing | |
| `ClickController` | `controller/`, the commands of `texttests/script_runner.py` | `GameEngine` |
| `Rooms` | `room_service.py` and the records it keeps | |
| `Connections` | `connection_registry.py`, `handle_client`, the login and auth handlers | `Rooms` |
| `Presence` | what rooms are promised about who is there | `Rooms` |
| `Matchmaking` | `matchmaking_service.py`, the lobby's requests, the loop up to the games | `Rooms`, `Queues` |
| `GameServer` | `game_service.py`, `server_runtime.py` | `Rooms` |
| `AbstractResult` | what a room's players are promised about the result | |
| `Matchmaker` | the split deployment's queue: `redis_queue.py`, `worker.py`, `allocator.py`, the match handlers of `game_main.py`, the listeners of `gateway_main.py` | `Queues` |
| `GatewayCalls` | the split deployment's calls: `gateway_main.py`, `remote_proxies.py`, `redis_room_rejoin.py`, `game_bus.py`, the command handlers and the loop of `game_main.py` | `Rooms` |
| `Protocol` | `protocol.py`: a constructor per message something is decided by | |
| `GameClient` | `network_client.py` and `game_controller.py`: one player's window | `PieceRules`, `Protocol` |
| `GameWindow` | that window with the router, the session, lobby and game services as its user meets them | `GameClient`; instance of `GameEngine` |
| `RulesReference` | the rules of movement a second time, to compare with | `PieceRules` |
| `Queues` | what is left of a queue when users are taken out of it | |
| `RoomsProofs` | the lemmas about `Rooms` that the modules over it cite | `Rooms` |
| `ConnectionsProofs`, `MatchmakingProofs`, `GameServerProofs`, `GatewayCallsProofs` | theorems about the module of their name | that module, `RoomsProofs` |
| `MatchmakerProofs`, `GameWindowProofs` | theorems about the module of their name | that module |
| `GameEngineProofs` | theorems about the engine, its refinement, the clicks, the points and the rules | `MCClickController`, `RulesReference` |
| `MC...` | constants of the instances, and the properties and references that need the community modules | |

### PieceRules

A board is a function from squares to what stands there. Each generator of
`piece_rules.py` is an operator with its name that returns the set of squares the
generator returns; `IsMoveLegal` is `RuleEngine.is_move_legal`. `RulesReference`
states the rules a second time, without walks; `RulesMatchReference` proves that the two
agree on every board, with pieces of any status. A moving piece does not block a slide but
keeps its square, a jumping one blocks like a standing one.

### GameEngine

The variables are the attributes of the engine, its arbiter, its board and its
score (the comment at each names the attribute). `HandleJumpRequest`,
`HandleMoveRequest`, `ForceForfeit` and `UpdateGameClock` are the calls. An update
hands the motions whose time is up to `landing`, and the body of the `for` loop
over them is `Settle`, one motion at a time in the order of the code's sort key;
its four alternatives are the four ways through the body. No request is taken
while `landing` is not empty, since the call is synchronous. A motion's id is
represented by `launch`, a number that orders motions which can tie on the rest of
the key; ids are otherwise never looked at. A refused request changes nothing and
has no action.

Two lines of the loop body (66-67, a motion whose piece is captured) are
unreachable; the model keeps them, and `MotionDiscipline` is why they are
unreachable.

### ClickController

A move takes two clicks and the controller keeps the square of the first, not the
piece, so the clock may change what stands there in between. A click is
`HandleMoveRequest` or `HandleJumpRequest` of the engine, or changes the selection
only; a script's `wait` is the engine's clock and its landings.

### Rooms, Connections, Presence

`Rooms` gives `RoomService`'s methods as operators. A member's status and deadline
are one value: connected, in grace, expired, or gone (the deadline was cleared).
`Connections` adds sockets: `LogIn` and `Authenticate` reconnect the user to his
room, then bind the socket; `Close` is the `finally` of `handle_client`. A client may
send `auth` on a socket another user is logged in on, which the server does not
refuse: the socket then speaks for the new user, and the other one keeps a route to it
until he logs in again, which logs the socket out (`bind_user`) whomever it speaks for by
then. The history variable `strayed` holds the users another one has displaced so. An
open socket is always the one its user is routed to; the converse holds of all but the
strayed. `Presence` is the same with a Boolean for "has a route", and `Connections`
implements it, shared sockets included. `Matchmaking` and `GameServer` build on that
picture: each has a variable `connected` and no sockets.

### Matchmaking and GameServer

Both are the same loop, `ServerRuntime.run`, cut at its awaits: `pc` says where it
is, and `AtAwait` where requests may come in. `Matchmaking` has the first third of
a tick in full and the rest as one step, `GameServer` has the rest in full and the
first third as one step (`MatchPair`). `SlowSends` says whether a send can suspend
the loop: asyncio's `send` returns without suspending unless the socket's buffer is
full, so FALSE is the server on a good day and TRUE the server as it must be.

`Matchmaking` keeps Python's aliasing: `_expire_timeouts` iterates over the list
object it found, which `enqueue` extends in place and `cancel` replaces (`items`,
`shared`). Leaving a queue is `Remaining` of `Queues`, here and in `Matchmaker`: the one
list of the entries that stay, in their order. It is stated as a set with one member, by
the positions that stay, because the prover knows nothing of `SelectSeq`.

`create_matched_room` raises over a user who is in a room, and the tick ends there. Then
the users the same pass has matched already stay in the queue, in a room, and cost
further ticks. The history variable `strays` holds those whose entry outlived their way
into a room, on their own or through such a pass; it is what `TicksAreLostToStrays` allows.

In `GameServer` the match pass looks at no socket, as in the code. With slow sends a user
who has left may be matched (`MatchCancelled`), and his room takes him for present:
`ghosts` holds him until he logs in. `returned` holds who came back while he was on the
list of expired players the loop is working off. The user store may raise wherever it is
read or written: before a forfeit decides the game (`ForfeitRaises`), and while a finished
room is to be rated, whether or not it has two players (`RatingRaises`).

`GameServer` sees of an engine what `GameService` asks: is it over, who won, is
anything in the air.

### Matchmaker

Gateway, matchmaker and shards share nothing but Redis. One Redis command is one
step, so requests come in between any two commands of the worker and of a shard's
handler. `TakeSnapshot` is the read of the queue with which each pass begins,
`ReadRatings` that of the ratings (a user who cancelled in between has the default one,
`unrated`), `ExpireEntry` and `PublishMatch` publish, `EndPass` removes by user. `inbox`,
`notices` and `found` are what was published and not yet handled, `todo` is what a
shard's handler has still to send: the bindings of a room's users, then the messages that
tell them. A shard that restarts (`Restart`) loses `inbox`, `todo` and its rooms and leaves
its keys in Redis. `home` is the directory, `user:room` followed by `room:shard`; `inRoom`
are the shards' own books, which the directory does not always agree with. A call to a
shard is carried out in one step, its bindings and the reply follow.

The gateway refuses no press of Play, nor a room for who has one, and neither does the
module. What the code does to some users is kept in history variables: `lost` are those
who wait although nobody will answer them, because a shard refused their match or lost
it in a restart, or because the worker removed the entry they relied on (they had pressed
Play between its answer and its removal); `rehomed` are those who entered a room while a
game of theirs went on; `due` are those who have pressed Play since the worker's last
answer.

### GatewayCalls

A call is a command in the shard's list (`cmds`) and a wait of the gateway's only
loop (`call`, `answer`); the shard takes the list in order. `TimesOut` gives the
gateway its error and leaves the command where it is. The end of a socket is told by
a thread (`leaving`), which puts its command when it is scheduled: so it may come
behind a later login of the same user. The shard's second loop takes the matches
(`found`), which pass no list. Creating, joining and a match make or enter the room first
and write its users into the directory afterwards, a step each (`task`, `unbound`), and
the gateway may look in between. That a new room has a shard (`room:shard`) is part of the
step that makes it: the gateway looks it up only by way of a bound user or by an id that
nobody has been told yet. A shard refuses a room beyond `MaxRooms`.

Three sets of users are history: `late`, the users and calls that timed out; `overtaken`,
the users whose news came behind their login; and `outrun`, those whom a match put
into a room while they, or the news of it, were on their way out, or who left before it had
bound them. For these the gateway finds no shard to tell (`gateway_main.py:136`), so the
room takes them for present although they have no socket, or unbinds them when they
come back. Moves and `get_state` change nothing here; a game ends by itself.

### Protocol, GameClient, GameWindow

`GameClient` has the window's three kinds of threads. `Receive` is one message on the
network thread, which sets fields and puts an event; `ProcessEvent` is one event on
the screen's thread, between two frames, and reads the fields as they are by then;
`HttpAnswer`, `HttpFails` and `SendAuth` are a login thread. The window lands its own
flights (`flying`) at any time after the ack, since nothing tells which of the two
clocks is ahead. `GameWindow` adds the server's handlers as one user meets them, one
room, the real engine with a tick per landing, and everybody else: they create, join,
watch, move and stay away at any time (`Other...`, `Forfeit`, `Matched`). A handler of the
server runs in one step here, so sends do not suspend it; `GameServer` is about those
that do.

## 3. Runs

| Run | Instance | What it shows |
|---|---|---|
| `Clicks` | 4x1, king and rook against king and pawn, all launched by clicks and scripted jumps; clock steps 1 and 2 with 1 per square | types, flights, board, result, points; the settling order is strict; standing and jumping pieces are safe; refinement of `AbstractGame`; what is in the air comes down, or the game ends |
| `MatchCalm` | three users with ratings 1200, 1300, 1301, three rooms, sends do not suspend, queued users stay in the lobby | windows that wait are queued; only those are matched; everybody who waits is answered |
| `MatchSlow` | the same, sends suspend, queued users may enter rooms | one entry per user; rooms and users agree; a tick is lost only to a stray; an entry that makes the match pass raise is gone with its minute |
| `Server` | two users, two rooms, sends suspend, users who left may be matched, the store raises up to twice | results decided once, rated once but for what a failure costs; boards shown are current; presence is true, but for ghosts; no deadline is lost; a forfeit hits who was away past his deadline when the list was read; finished games are rated, absence is decided |
| `SplitMatch` | two users, one shard, three requests, one restart | who waits is queued, about to be answered, or lost; a press of Play gets one answer at most; a player is routed to his game by the time he is told of it; everybody who is not lost is answered |
| `Sockets` | three users, three sockets, two rooms; any user logs in on any socket | routes and sockets agree, but for displaced users; refinement of `Presence` |
| `Calls` | two users, one room, two commands or threads under way, one timeout, one match | once all is said the shard knows who is there; the directory leads players home at every step; who is there keeps his game; all but for the three sets of users below |
| `CallsAbsence` | the same without timeouts, under fairness | who stays away loses his game |
| `Window` | one window, a pawn and a king on 3x1, two starts of the program, a login each, one command and two messages under way | a board at rest is the server's |
| `WindowLogins` | one window, a game without moves, two starts with two presses of Login each, three messages under way | the game's screen appears, with the right color, and with the game shown as over |

Two runs must be found violated, each a sentence of the repository the code does not
keep (`findings` quotes them):

* `Launches`: `tests/test_engine.py:12` says that no move is made while a piece is in the
  air, and lines 22 to 24 that a second launch must be refused. The engine grants it, as
  `README.md:3` describes the game, and as `AbstractGame` has it.
* `MatchCancelled`: a user who cancels, or leaves, during a send of the expiry pass is put
  back into the queue and matched, though `README.md:144` says that Cancel leaves the queue.

The runs of `GatewayCalls` except three sets of users, and only those: who had a call of
his own time out, whose login overtook the news of his last disconnect, and whom a match
took by surprise. The second is forfeited although he is there, without any call timing
out, and the third may stay in his game for ever without being there; see section 5.

### Bounds, and why they are enough

* `Clicks` has a board of four squares. A landing involves the moving piece, its origin
  and its target, so what can go wrong between flights needs three pieces and three
  squares in a row; 4x1 has that, room for a head-on way of two squares, the pawn's
  double step, its promotion, and two kings that can fall in one update. The proofs
  cover the other boards.
* `CellTime`, `JumpTime` and `ClockSteps` keep the order of events, which is all the
  engine looks at: `Clicks` has updates that stop short of a landing, hit it, and
  overshoot it, also for two landings at different overshoots.
* `MatchCalm`, `MatchSlow`: a match needs two users, and the third is the one who cancels,
  joins, watches or is left over. `MaxRooms` is reached by everybody entering a room; a
  request that would need one more is not offered. That a pass has matched a pair and
  then raises over two more takes four users; the proof has them.
* `Server`: two rooms with a lone player each are two entries in one list of expired
  players, and two rooms of which one ends the other's tick; one room has the game that is
  rated. `DbFailures`: two failures are a retry that fails again. A third user, who watches
  or has a room beside a game of two, is in the proofs only.
* `Calls`: one user's late command, overtaken news and the other's call need two users,
  one room both may be in, and a list of two; one match makes that room too. The users are
  interchangeable (symmetry, in the safety run only). The liveness run leaves the
  timeouts out, since who had one is excepted anyway. The proofs cover all sizes for the
  three safety properties.
* `Window`, `WindowLogins`: a board that lags behind the server's needs one flight, one
  landing on each side and one state between an ack and its landing; a pawn one step
  from promotion and a king that can meet it have those, with `MaxEvents` 2. What the
  logins do needs no moves, so `WindowLogins` takes a board of one square, and two login
  threads and three messages in exchange. Two starts are one rejoin.
* `SplitMatch` has two users: every race of its queue is one between the worker and one
  user, and the second user makes the match. Three requests let one of them press Play
  again during the pass that answers him. One restart at any moment leaves keys in Redis
  of rooms the shard does not know any more. Two shards, where a user may enter a room of
  one while a game of his goes on in the other (`rehomed`), are in the proofs, with any
  number of requests and restarts.
* The engine's runs switch deadlock checking off: a game that is over, with nothing
  landing, really stops. So do the runs of `GatewayCalls` (everybody gone and every game
  over) and the window's runs (the program closed for good). The other runs check for
  deadlock.

### Fairness

* Engine under clicks (`ClickFairSpec`): weak fairness of the clock and of the landing
  loop. `ServerRuntime.run` calls the clock every 50 ms for ever (a script waits now and
  then), and a call that began runs to its end. Nothing is assumed of players.
* Server (`GameServer`): weak fairness of the loop, because the event loop runs a
  coroutine that is ready, and a send to a dead socket ends with an exception that
  `send_to_user` catches. `Matchmaking` adds strong fairness that a queue entry becomes
  old: real time goes on, but the model lets it pass only while the loop sleeps (the
  loop reads the clock once per pass), and sleeping comes and goes.
* Window: weak fairness of its three kinds of threads and of the server's tick, and
  strong fairness of the server's handling of what it received, only because the bound
  `MaxEvents` holds a handler back now and then. Nothing is assumed of the player or
  of the others.
* Split deployment: weak fairness of the worker, of each shard's match loop and of the
  gateway's two listeners, all of them endless loops with a timeout on what they read,
  and of the time that passes for an entry. Restarts, requests and the ends of games are
  not assumed to happen. In `GatewayCalls`: weak fairness of taking an answer, of the
  shard's command loop and grace pass, of the bindings of a room it has begun, of each
  thread that tells of a disconnect, and of the deadlines.

## 4. Proofs

`theorems` in `PROJECT.json` lists 39 results; every invariant, action property and
refinement that a passing run checks is one of them. They hold for every value of the
constants under the named assumptions of the modules (`BoardSizeAssumption`,
`PiecesAssumption`, `ClockAssumption`, `RoomsAssumption`, `CallsAssumption` and their
like), which TLC evaluates on the runs. `NoPieceAssumption` and `NobodyAssumption` say
that Python's `None` is no piece and no role. Two theorems have a hypothesis besides, the
one of their run: `WaitingIsQueued` and `MatchesThoseWhoWait` are of a server whose sends do
not suspend and of queued users who stay in the lobby (`Wanderers = {}`); the run
`MatchCancelled` shows that the second fails without it.

**The engine** (`GameEngineProofs`): the type invariant, `MotionDiscipline`,
`BoardShowsTheLiving`, that a game has a winner exactly when it is over, and
`KingTakenEndsGame`; `SettleOrderIsStrict`; the action properties `StandingPieceSafe` and
`JumperOutOfReach`; and that the engine implements `AbstractGame`. None of these is
inductive alone. That a captured piece is on no square follows only if it was on one
square, that of its standing, when it was captured; a piece stands on one square only
if a landing finds its origin or nothing; and a landing's piece is not captured only
because nothing in the air is ever captured except by its own landing. So `IInv` joins
types, the discipline of flights, the uniqueness of places, the emptiness left by
captures and the state of the result. One lemma shows that a launch keeps it
(`LaunchIInv`, for jumps and moves alike), one that a clock update does, and one for
each way a motion settles. The settling order has an invariant of its own,
`LaunchOrder`: a motion that has not aged is numbered below the count of its ties, so
the next launch gets a number none of them has.

**Clicks** (in the same module): every step of the controller is one of the
engine or changes nothing of it, so `ClickSpec` implies the engine's `Spec`, and the
engine's theorems hold under any script.

**Points** (in the same module): `ScoreMatchesCaptures` sums with a fold of the community
modules, a recursive function over the subsets of the captured. `Adds(f, v, S)` says that
f is such a function for the values v; that one exists, that it does not depend on the
larger set (`AddsAgree`), and that one element more adds its value whichever the fold takes
first (`AddsOneMore`) are proved by looking at a least counterexample, since sets
ordered by inclusion are well-founded. `CaptureStep` is the engine's part: a step captures one
piece at most, for its enemy, at the kind it had; and what is promoted has just landed,
so the captured keep their kind.

**The rules** (in the same module): `RulesMatchReference`, which no run shows on a small
board. The code walks a ray square by square until something stops it; the
reference looks at the squares strictly between two squares. The walk's squares are those
of the segment (`WalkIsSegment`), and the segment is on one of the eight rays with nothing
but squares of the board between (`SegmentIsRay`, `RayReaches`). Knights, kings and pawns
are a comparison of coordinates.

**Rooms and sockets**: `RoomsProofs` proves that every operation of `RoomService` keeps
the rooms' types, `MembershipAgrees` and `RoomsInOrder` (the created rooms are numbered
without gaps, so that a fresh one is empty). `ConnectionsProofs` uses those lemmas for
`RoutesAgree`, `PresenceFollowsSockets` and the refinement of `Presence`, whoever logs in
on whichever socket. A new socket is a new object, which no old route leads to; with that,
an open socket speaks only for a user whose route leads to it.

**The server's loop** (`GameServerProofs`, on `RoomsProofs`' lemmas): `PresenceIsTrue`,
`ClearedMeansOver`, `FailuresCostWhiteOnly`, `QuietRoomIsShown`, `ForfeitsOnlyTheAbsent` and
the refinement of `AbstractResult`, whether sends suspend or not. The loop goes on
after an await with a list it read before. `PunishedIsOver` ties the place in the loop
to the first entry of that list, which makes the clearing of its deadline right;
`DoomedAreAway` says that every entry of the list is still true, or its user has come back
since it was read. `RatingBooks` counts the ratings against the failures.

**The queue in the server** (`MatchmakingProofs`). `QueueInv` is why no user has two
entries although the expiry pass builds a second list while `enqueue` and `cancel` work
on the first: what was kept stood, before its index, in the list the pass goes through
(`KeptWasPassed`), and that list is the queue itself as long as nobody replaced it
(`SharedIsQueue`). `TicksAreLostToStrays` follows from `ListedAreStrays`, for slow sends
and any wanderers: who is in a room and in one of the lists is a stray, or was matched
by the running pass, which does not look at him again. On a calm server `CalmInv` adds
that every entry the passes still come to is that of a user who waits and is in no room
(`EntriesWait`, `WaitingIsFree`), so the match pass finds two who wait. That there is a
nearest candidate is the well-foundedness of the naturals.

**The queue in Redis** (`MatchmakerProofs`). The worker goes by a snapshot, and users press
Play and cancel under it. `DueInv`: whoever has an entry the worker has not answered in this
pass, in the queue or still ahead in the snapshot, has pressed Play since its last answer to
him, so an answer to him is the first. `WaitInv`: whoever waits has an entry, an answer on
its way or is lost; and if the worker has answered him in this pass, his entry will be
removed and does not count, so that he is lost exactly if he pressed Play again. For the
directory, `RouteInv`: a binding a shard has still to send is of a game that goes on there
and is followed by the message that tells the player (`BindingsLead`), games are rooms of
their shard (`GamesAreRooms`), and who is in two games is `rehomed` (`OneGame`), which carries
the directory's truth over the end of games and over restarts.

**The window** (`GameWindowProofs`). A window is right not at every moment but once the last
message is in, and `WindowInv` says what that means while messages are on their way: of the
messages that decide a question, those in `wire` and before them those in `events`, the
last one tells the truth, or there is none and the screen shows it already (`Heard`). For
the board the deciding messages are states, acks and the ways into a room, for the end
of the game states and `game_over`. `ServerTells` is the lemma for all steps of the server:
whatever it does is harmless if what it tells is true and enough. `Outsider` is needed for
who is in no room: he has heard nothing of any room since he connected, so that entering
one starts from a clean window. The color rests on `RoleIsTold`: all that is on the way
since the last connection names the present role.

**The gateway's calls** (`GatewayCallsProofs`): `DirectoryLeadsHome`,
the shard's `MembershipAgrees`, `QuietPresenceIsTrue` and `PresentKeepsHisGame`, for any
number of timeouts, commands and matches under way. A login unbinds its user when the shard
says it has no room for him; that is right because every create or join of his was
put into the list before the login and is carried out before it (`CallOrder`,
`RefusedIsOut`). Who is there is right because a socket is bound after the shard's
answer, by when all older news of the user has been taken from the list
(`NewsIsBefore`, `PresentIsKnown`); and who has none is absent to the shard, or has news
of it in the list or in a thread (`AbsentIsTold`). Between a room and its bindings the
shard does nothing else (`TaskIsOpen`), and who is to be bound has a socket and no older
news in the list, or is `outrun` (`UnboundAreThere`); that a create or a join is of a user
with a socket is `CallersInv`.

Only model-checked is all liveness (`FlightEnds`, `WaitingIsAnswered`, `FinishedIsRated`,
`AbsenceIsDecided`, `RoomIsShown`): the prover handles neither `ENABLED` nor fairness.

## 5. Not modelled, and observations

Not modelled: the accounts, session and result stores (single statements of a database;
that the store may raise is in `GameServer`), the HTTP API (stateless queries), the
encoding of messages, rendering, the console client, load test and observability. A
history record that could not be written is logged and dropped (`game_service.py:207`),
which no module shows, and neither is the arithmetic of ratings. The server never
offers jumps (`try_player_move` only moves), the scripts do.

In the split deployment: restarts of the gateway and of the matchmaker (a matchmaker that
stops between publishing a match and removing its users would match them again,
`worker.py:92`), several shards under `GatewayCalls` (`Matchmaker` has them), and the single
server that takes its matches from a remote matchmaker (`app.py:24`, `event_listener.py`),
whose handler of `create_match` is the shard's with its own sockets.

Observations the properties do not decide, because nothing in the repository
promises otherwise, or because they concern cases the properties except:

* A move that the collision check drops is acknowledged all the same, and its piece stays
  in status moving for ever (`real_time_arbiter.py:53`), while `README.md:157` tells players
  that a moving piece cannot be selected until its animation ends.
* When a game ends with pieces in the air, their motions stay and the final board is
  never broadcast (`game_service.py:128`). When both kings fall in one update the later
  capture's side wins.
* A piece that is blocked by a friend is idle on an origin another piece may have taken:
  it is on no square then (`game_engine.py:86`).
* Rooms and engines are never released, though `Server_Design.md:136` lists it and
  `README.md:159` offers the way back to the lobby: in the one-process server the players
  of a finished game stay in its room and can neither play, create nor join.
* A lone creator's lost game is never rated, so no `game_over` is sent for it. Whoever
  joins his finished room later is rated with him.
* A forfeit can hit a player who came back while another forfeit's message was being
  sent (`server_runtime.py:93`); these are the users `ForfeitsOnlyTheAbsent` adds to the
  absent.
* The store is read for every finished room at every tick until the room is rated, also for
  one with a single player, which never is (`game_service.py:169`); while the store is down
  each such read ends the tick, and with it the grace pass.
* When several users share a socket by `auth`, each keeps his route to it. One of them who
  logs in elsewhere logs out the one it speaks for by then (`connection_registry.py:42`),
  whose requests are refused from there on although messages still reach him.
* A queued user may enter a room. Until his minute is over, each match pass of the
  in-process server that reaches him raises, and the games of the whole server lose
  that tick (`matchmaking_service.py:86`). In the split deployment it is the shard
  that refuses the match, and his opponent's window shows the queue for ever
  (`game_main.py:245`); they are in `lost` of `Matchmaker`.
* In the split deployment, who is told of his timeout and presses Play before the worker's
  removal is told that he is queued (`redis_queue.py:23`) and is then removed by name
  (`worker.py:47`): no timeout comes any more, which `README.md:149` promises after about a
  minute. He is in `lost` as well.
* Across the gateway, a login that overtakes the thread telling of the last disconnect
  (`gateway_main.py:139`) leaves its user absent to the shard, which forfeits him
  although he plays. A user who leaves after the matchmaker has read the queue and
  before the shard has bound him is reported to no shard (`gateway_main.py:136`): he
  counts as present, and his opponent waits for ever. A login that times out unbinds a
  player whose room lives on (`redis_room_rejoin.py:38`), and a create that timed out is
  carried out later.
* In the window, a selection outlives what stood on its square: the second click may
  send an enemy's piece, which the server refuses (`game_controller.py:355`). Going back to the
  lobby leaves fields that a late second login may find (`my_color`).

## 6. What is left

1. An abstract queue that both `Matchmaking` and `Matchmaker` implement: a user waits, is
   answered once, and is in no match after he left. On a slow server the code does not
   keep the last part (`MatchCancelled`).
2. Restarts of the matchmaker between publishing and removing, and of the gateway.
3. An abstract window for `GameWindow` to implement: what its user has been told of his
   room, without messages. Its invariants say so at rest only.
