--------------------------- MODULE MatchmakerProofs ---------------------------
(***************************************************************************)
(* The play queue of the split deployment, for any numbers of users, of    *)
(* shards, of requests and of restarts, whatever the users do.             *)
(*                                                                         *)
(* Who has an entry the worker has not answered has pressed Play since its *)
(* last answer (DueInv).  Whoever waits has an entry, an answer on its way *)
(* or is lost; and if the worker has answered him in this pass, then his   *)
(* entry does not count, and he has pressed Play again when the answer is  *)
(* gone (WaitInv).  A binding that a shard has still to send belongs to a  *)
(* game that goes on there and is followed by the message that tells the   *)
(* user (BindingsLead), so a player who has been told of his room and is   *)
(* in no other game is bound to its shard (RouteInv).                      *)
(***************************************************************************)
EXTENDS Matchmaker, FiniteSetTheorems, SequenceTheorems, TLAPS

OnePerUser(q) == \A m, n \in DOMAIN q : q[m].user = q[n].user => m = n

\* The worker has yet to look at u's entry.
Ahead(u) == \E n \in index .. Len(items) : items[n].user = u

\* The two ways in which a shard is about to tell u.
InInbox(u, s) == \E m \in DOMAIN inbox[s] : u \in PlayersOf(inbox[s][m])
Telling(u, s) == \E m \in DOMAIN todo[s] : todo[s][m] = Tell(u)

\* A shard is about to bind u.
Binding(u, s) == \E m \in DOMAIN todo[s] : todo[s][m] = Bind(u)

WorkerInv ==
  /\ TypeOK
  /\ index >= 1
  /\ OnePerUser(queue) /\ OnePerUser(items)
  /\ pc \in {"sleep", "expired"} => items = << >> /\ used = {}
  /\ pc = "ratings" => used = {}
  /\ pc = "expire" => \A n \in index .. Len(items) : items[n].user \notin used

DueInv(u) == (Queued(u) \/ Ahead(u)) /\ u \notin used => u \in due

WaitInv(u) ==
  /\ waiting[u] => Queued(u) \/ Answered(u) \/ u \in lost
  /\ waiting[u] /\ u \in used => Answered(u) \/ u \in lost \/ u \in due

UserInv == \A u \in Users : DueInv(u) /\ WaitInv(u)

GamesAreRooms == \A game \in games : PlayersOf(game) \subseteq inRoom[game.shard]

OneGame ==
  \A game, other \in games : \A u \in Users \ rehomed :
    u \in PlayersOf(game) /\ u \in PlayersOf(other) => game = other

\* A player who is in one game is bound to its shard, or will be.
HomeIsRight ==
  \A game \in games : \A u \in PlayersOf(game) \ rehomed :
    home[u] = game.shard \/ Binding(u, game.shard)

BindingsLead ==
  \A s \in Shards : \A m \in DOMAIN todo[s] : todo[s][m].op = "bind" =>
    /\ \E game \in games : game.shard = s /\ todo[s][m].user \in PlayersOf(game)
    /\ \E n \in DOMAIN todo[s] : n > m /\ todo[s][n] = Tell(todo[s][m].user)

InboxesAgree == \A s \in Shards : \A m \in DOMAIN inbox[s] : inbox[s][m].shard = s

RouteInv == GamesAreRooms /\ OneGame /\ HomeIsRight /\ BindingsLead /\ InboxesAgree

SplitInv == WorkerInv /\ UserInv /\ RouteInv

-----------------------------------------------------------------------------
\* The lists.

\* What remains of a list has the entries of the other users, each once.
LEMMA RemainingEntries ==
  ASSUME NEW seq \in Seq(Entry), NEW us, NEW q \in Remaining(seq, us)
  PROVE  /\ q \in Seq(Entry)
         /\ \A u : (\E i \in DOMAIN q : q[i].user = u) <=> (u \notin us /\ \E n \in DOMAIN seq : seq[n].user = u)
         /\ OnePerUser(seq) => OnePerUser(q)
<1> DEFINE N == {n \in DOMAIN seq : seq[n].user \notin us}
<1>1. PICK f \in InOrder(N) : q = [i \in DOMAIN f |-> seq[f[i]]]
  BY DEF Remaining
<1>2. Cardinality(N) \in Nat
  <2>1. DOMAIN seq = 1 .. Len(seq) /\ Len(seq) \in Nat
    BY LenProperties
  <2>2. IsFiniteSet(DOMAIN seq) /\ N \in SUBSET DOMAIN seq
    BY <2>1, FS_Interval
  <2> QED
    BY <2>2, FS_Subset, FS_CardinalityType
<1>3. /\ f \in [1 .. Cardinality(N) -> N]
      /\ \A i, j \in DOMAIN f : f[i] = f[j] => i = j
      /\ \A n \in N : \E i \in DOMAIN f : f[i] = n
  BY <1>1 DEF InOrder, Bijection, Injection, Surjection, IsInjective
<1>4. \A n \in N : n \in DOMAIN seq /\ seq[n].user \notin us /\ seq[n] \in Entry
  BY ElementOfSeq, LenProperties
<1>5. \A n \in DOMAIN seq : seq[n].user \notin us => n \in N
  OBVIOUS
<1> HIDE DEF N
<1>6. DOMAIN q = DOMAIN f /\ \A i \in DOMAIN f : f[i] \in N /\ q[i] = seq[f[i]]
  BY <1>1, <1>3
<1>7. q \in [1 .. Cardinality(N) -> Entry]
  BY <1>1, <1>3, <1>4, <1>6
<1>8. q \in Seq(Entry)
  BY <1>2, <1>7
<1>9. ASSUME NEW u
      PROVE  (\E i \in DOMAIN q : q[i].user = u) <=> (u \notin us /\ \E n \in DOMAIN seq : seq[n].user = u)
  BY <1>3, <1>4, <1>5, <1>6
<1>10. OnePerUser(seq) => OnePerUser(q)
  BY <1>3, <1>4, <1>6 DEF OnePerUser
<1> QED
  BY <1>8, <1>9, <1>10

\* What enqueue leaves.
LEMMA EnqueuedEntries ==
  ASSUME queue \in Seq(Entry), NEW u \in Users, NEW q, q = Enqueue(u)
  PROVE  /\ q \in Seq(Entry)
         /\ \A v : (\E n \in DOMAIN q : q[n].user = v) <=> (v = u \/ Queued(v))
         /\ OnePerUser(queue) => OnePerUser(q)
<1>1. CASE Queued(u)
  BY <1>1 DEF Enqueue, Queued
<1>2. CASE ~ Queued(u)
  <2> DEFINE e == [user |-> u, old |-> FALSE]
  <2>1. q = Append(queue, e) /\ e \in Entry /\ e.user = u
    BY <1>2 DEF Enqueue, Entry
  <2> HIDE DEF e
  <2>2. /\ q \in Seq(Entry) /\ q[Len(queue) + 1] = e
        /\ \A n \in DOMAIN queue : n \in DOMAIN q /\ q[n] = queue[n]
        /\ \A n \in DOMAIN q : n \in DOMAIN queue \/ n = Len(queue) + 1
        /\ Len(queue) + 1 \in DOMAIN q
    BY <2>1, AppendProperties, LenProperties
  <2> QED
    BY <1>2, <2>1, <2>2 DEF Queued, OnePerUser
<1> QED
  BY <1>1, <1>2

\* The users of the lists' entries.
LEMMA ListUsers ==
  ASSUME TypeOK
  PROVE  /\ \A n \in DOMAIN queue : queue[n].user \in Users
         /\ \A n \in DOMAIN items : items[n].user \in Users
         /\ DOMAIN queue = 1 .. Len(queue) /\ DOMAIN items = 1 .. Len(items)
         /\ Len(queue) \in Nat /\ Len(items) \in Nat /\ index \in Nat
<1>1. ASSUME NEW q \in Seq(Entry)
      PROVE  (\A n \in DOMAIN q : q[n].user \in Users) /\ DOMAIN q = 1 .. Len(q) /\ Len(q) \in Nat
  <2>1. \A n \in 1 .. Len(q) : q[n] \in Entry
    BY ElementOfSeq
  <2> QED
    BY <2>1, LenProperties DEF Entry
<1> QED
  BY <1>1 DEF TypeOK

-----------------------------------------------------------------------------
\* The shards' buffers.

\* A match is of two users.
LEMMA MatchPlayers ==
  ASSUME NEW match \in Match
  PROVE  /\ PlayersOf(match) = {match.white, match.black} /\ PlayersOf(match) \subseteq Users
         /\ match \in Game /\ match.shard \in Shards
BY MatchmakerAssumption DEF Match, Game, PlayersOf

LEMMA HandlingParts == \A u : \A s \in Shards : Handling(u, s) <=> InInbox(u, s) \/ Telling(u, s)
BY DEF Handling, InInbox, Telling, Inbox, ToSet

\* A match that is published is behind the others.
LEMMA PublishedMatch ==
  ASSUME TypeOK, NEW s \in Shards, NEW game \in Match,
         inbox' = [inbox EXCEPT ![s] = Append(@, game)]
  PROVE  /\ inbox' \in [Shards -> Seq(Match)]
         /\ \A u : \A t \in Shards : InInbox(u, t)' <=> InInbox(u, t) \/ (t = s /\ u \in PlayersOf(game))
         /\ InboxesAgree /\ game.shard = s => InboxesAgree'
         /\ \A t \in Shards : Len(inbox'[t]) > Len(inbox[t]) => inbox'[t][Len(inbox'[t])] = game
<1>1. /\ inbox[s] \in Seq(Match)
      /\ \A t \in Shards : inbox'[t] = IF t = s THEN Append(inbox[s], game) ELSE inbox[t]
  BY DEF TypeOK
<1> DEFINE k == Len(inbox[s]) + 1
<1>2. /\ inbox'[s] \in Seq(Match)
      /\ \A m \in DOMAIN inbox[s] : m \in DOMAIN inbox'[s] /\ inbox'[s][m] = inbox[s][m]
      /\ \A m \in DOMAIN inbox'[s] : m \in DOMAIN inbox[s] \/ m = k
      /\ k \in DOMAIN inbox'[s] /\ inbox'[s][k] = game /\ Len(inbox'[s]) = k
  <2> DEFINE box == inbox[s]
  <2>1. box \in Seq(Match) /\ inbox'[s] = Append(box, game) /\ k = Len(box) + 1
    BY <1>1
  <2> HIDE DEF box, k
  <2>2. /\ inbox'[s] \in Seq(Match) /\ Len(inbox'[s]) = k /\ inbox'[s][k] = game
        /\ \A m \in 1 .. Len(box) : inbox'[s][m] = box[m]
    <3>1. /\ Append(box, game) \in Seq(Match) /\ Len(Append(box, game)) = Len(box) + 1
          /\ Append(box, game)[Len(box) + 1] = game
          /\ \A m \in 1 .. Len(box) : Append(box, game)[m] = box[m]
      BY <2>1, AppendProperties
    <3> QED
      BY <2>1, <3>1
  <2>3. DOMAIN box = 1 .. Len(box) /\ DOMAIN inbox'[s] = 1 .. k /\ Len(box) \in Nat
    BY <2>1, <2>2, LenProperties
  <2>4. /\ \A m \in DOMAIN box : m \in DOMAIN inbox'[s] /\ inbox'[s][m] = box[m]
        /\ \A m \in DOMAIN inbox'[s] : m \in DOMAIN box \/ m = k
        /\ k \in DOMAIN inbox'[s]
    BY <2>1, <2>2, <2>3
  <2> QED
    BY <2>2, <2>4 DEF box
<1> HIDE DEF k
<1>3. \A t \in Shards : \A m \in DOMAIN inbox[t] : m \in DOMAIN inbox'[t] /\ inbox'[t][m] = inbox[t][m]
  BY <1>1, <1>2
<1>4. \A t \in Shards : \A m \in DOMAIN inbox'[t] :
        (m \in DOMAIN inbox[t] /\ inbox'[t][m] = inbox[t][m]) \/ (t = s /\ m = k /\ inbox'[t][m] = game)
  BY <1>1, <1>2
<1>5. \A u : \A t \in Shards : InInbox(u, t)' <=> InInbox(u, t) \/ (t = s /\ u \in PlayersOf(game))
  BY <1>2, <1>3, <1>4 DEF InInbox, PlayersOf
<1>6. InboxesAgree /\ game.shard = s => InboxesAgree'
  BY <1>4 DEF InboxesAgree
<1>7. ASSUME NEW t \in Shards, Len(inbox'[t]) > Len(inbox[t]) PROVE inbox'[t][Len(inbox'[t])] = game
  <2>1. t = s
    <3>1. inbox[t] \in Seq(Match) /\ Len(inbox[t]) \in Nat
      BY LenProperties DEF TypeOK
    <3> QED
      BY <1>1, <1>7, <3>1
  <2> QED
    BY <1>2, <2>1
<1> QED
  BY <1>1, <1>2, <1>5, <1>6, <1>7 DEF TypeOK

\* The shard takes its first match.
LEMMA TakenMatch ==
  ASSUME TypeOK, NEW s \in Shards, inbox[s] # << >>, inbox' = [inbox EXCEPT ![s] = Tail(@)]
  PROVE  /\ inbox' \in [Shards -> Seq(Match)] /\ Head(inbox[s]) \in Match
         /\ \A u : \A t \in Shards :
              InInbox(u, t) <=> InInbox(u, t)' \/ (t = s /\ u \in PlayersOf(Head(inbox[s])))
         /\ InboxesAgree => InboxesAgree' /\ Head(inbox[s]).shard = s
         /\ \A t \in Shards : ~ (Len(inbox'[t]) > Len(inbox[t]))
<1> DEFINE game == Head(inbox[s])
<1>1. /\ inbox[s] \in Seq(Match)
      /\ \A t \in Shards : inbox'[t] = IF t = s THEN Tail(inbox[s]) ELSE inbox[t]
  BY DEF TypeOK
<1>2. /\ inbox'[s] \in Seq(Match) /\ game \in Match
      /\ Len(inbox'[s]) = Len(inbox[s]) - 1 /\ Len(inbox[s]) \in Nat \ {0}
      /\ \A m \in 1 .. Len(inbox'[s]) : inbox'[s][m] = inbox[s][m + 1]
      /\ game = inbox[s][1]
  <2> DEFINE box == inbox[s]
  <2>1. box \in Seq(Match) /\ box # << >> /\ inbox'[s] = Tail(box) /\ game = Head(box)
    BY <1>1
  <2> HIDE DEF box, game
  <2>2. Len(box) \in Nat \ {0}
    BY <2>1, EmptySeq
  <2>3. /\ game \in Match /\ inbox'[s] \in Seq(Match) /\ Len(inbox'[s]) = Len(box) - 1
        /\ \A m \in 1 .. Len(inbox'[s]) : inbox'[s][m] = box[m + 1]
    BY <2>1, HeadTailProperties
  <2>4. game = box[1]
    BY <2>1, <2>2
  <2> QED
    BY <2>2, <2>3, <2>4 DEF box
<1>3. DOMAIN inbox[s] = 1 .. Len(inbox[s]) /\ DOMAIN inbox'[s] = 1 .. Len(inbox[s]) - 1
  BY <1>1, <1>2, LenProperties
<1> HIDE DEF game
<1>4. /\ 1 \in DOMAIN inbox[s]
      /\ \A m \in DOMAIN inbox'[s] : m \in Nat /\ m + 1 \in DOMAIN inbox[s] /\ m + 1 # 1 /\ inbox'[s][m] = inbox[s][m + 1]
      /\ \A m \in DOMAIN inbox[s] : m = 1 \/ (m - 1 \in DOMAIN inbox'[s] /\ inbox'[s][m - 1] = inbox[s][m])
  BY <1>2, <1>3
<1>5. ASSUME NEW u, NEW t \in Shards
      PROVE  InInbox(u, t) <=> InInbox(u, t)' \/ (t = s /\ u \in PlayersOf(game))
  <2>1. CASE t # s
    BY <1>1, <2>1 DEF InInbox, PlayersOf
  <2>2. CASE t = s
    <3>1. ASSUME InInbox(u, s) PROVE InInbox(u, s)' \/ u \in PlayersOf(game)
      <4>1. PICK m \in DOMAIN inbox[s] : u \in PlayersOf(inbox[s][m])
        BY <3>1 DEF InInbox
      <4> QED
        BY <1>2, <1>4, <4>1 DEF InInbox, PlayersOf
    <3>2. ASSUME InInbox(u, s)' PROVE InInbox(u, s)
      <4>1. PICK m \in DOMAIN inbox'[s] : u \in PlayersOf(inbox'[s][m])
        BY <3>2 DEF InInbox, PlayersOf
      <4> QED
        BY <1>4, <4>1 DEF InInbox
    <3>3. ASSUME u \in PlayersOf(game) PROVE InInbox(u, s)
      BY <1>2, <1>4, <3>3 DEF InInbox
    <3> QED
      BY <2>2, <3>1, <3>2, <3>3
  <2> QED
    BY <2>1, <2>2
<1>6. InboxesAgree => InboxesAgree' /\ game.shard = s
  BY <1>1, <1>2, <1>4 DEF InboxesAgree
<1>7. ASSUME NEW t \in Shards PROVE ~ (Len(inbox'[t]) > Len(inbox[t]))
  <2>1. inbox[t] \in Seq(Match) /\ Len(inbox[t]) \in Nat
    BY LenProperties DEF TypeOK
  <2> QED
    BY <1>1, <1>2, <2>1
<1> QED
  BY <1>1, <1>2, <1>5, <1>6, <1>7 DEF TypeOK, game

\* A shard that restarts takes all of its matches and commands along.
LEMMA ClearedMatches ==
  ASSUME TypeOK, NEW s \in Shards, inbox' = [inbox EXCEPT ![s] = << >>], todo' = [todo EXCEPT ![s] = << >>]
  PROVE  /\ inbox' \in [Shards -> Seq(Match)] /\ todo' \in [Shards -> Seq(Command)]
         /\ \A u : \A t \in Shards : t # s => (Handling(u, t)' <=> Handling(u, t))
         /\ \A u : ~ Handling(u, s)'
         /\ InboxesAgree => InboxesAgree'
         /\ \A t \in Shards : ~ (Len(inbox'[t]) > Len(inbox[t]))
<1>1. /\ << >> \in Seq(Match) /\ << >> \in Seq(Command) /\ DOMAIN << >> = {} /\ Len(<< >>) = 0
      /\ \A t \in Shards : inbox'[t] = IF t = s THEN << >> ELSE inbox[t]
      /\ \A t \in Shards : todo'[t] = IF t = s THEN << >> ELSE todo[t]
  BY EmptySeq DEF TypeOK
<1>2. \A t \in Shards : Len(inbox[t]) \in Nat
  BY LenProperties DEF TypeOK
<1>3. \A u : \A t \in Shards : t # s => (InInbox(u, t)' <=> InInbox(u, t)) /\ (Telling(u, t)' <=> Telling(u, t))
  BY <1>1 DEF InInbox, Telling, PlayersOf, Tell
<1>4. \A u : ~ InInbox(u, s)' /\ ~ Telling(u, s)'
  BY <1>1 DEF InInbox, Telling
<1>5. \A u : \A t \in Shards : Handling(u, t)' <=> InInbox(u, t)' \/ Telling(u, t)'
  BY DEF Handling, InInbox, Telling, Inbox, ToSet, Tell
<1>6. InboxesAgree => InboxesAgree'
  BY <1>1 DEF InboxesAgree
<1>7. \A t \in Shards : ~ (Len(inbox'[t]) > Len(inbox[t]))
  BY <1>1, <1>2
<1> QED
  BY <1>1, <1>3, <1>4, <1>5, <1>6, <1>7, HandlingParts DEF TypeOK

-----------------------------------------------------------------------------
\* The worker's bookkeeping.

\* A match is of two users whose entries are both still to be looked at, and who
\* are not answered in this pass.
LEMMA CandidatesAreAhead ==
  ASSUME WorkerInv, index \in DOMAIN items, Candidates # {}, NEW s \in Shards,
         NEW game, game = [shard |-> s, white |-> Seeker, black |-> items[Min(Candidates)].user]
  PROVE  /\ game \in Match
         /\ \A u \in PlayersOf(game) : Ahead(u) /\ u \notin used
<1>1. /\ \A n \in DOMAIN items : items[n].user \in Users
      /\ DOMAIN items = 1 .. Len(items) /\ Len(items) \in Nat /\ index \in Nat
  BY ListUsers DEF WorkerInv
<1>2. /\ Seeker \notin used
      /\ Candidates \subseteq index + 1 .. Len(items)
      /\ \A n \in Candidates : items[n].user \notin used
  BY DEF Candidates
<1>3. Candidates \subseteq Nat /\ \A n \in Candidates : n \in DOMAIN items /\ n \in index .. Len(items)
  BY <1>1, <1>2
<1>4. Min(Candidates) \in Candidates
  <2> DEFINE R == {p \in Nat \X Nat : p[1] < p[2]}
  <2>1. IsWellFoundedOn(R, Nat)
    BY NatLessThanWellFounded, Zenon DEF OpToRel
  <2> HIDE DEF R
  <2>2. PICK x \in Candidates : \A y \in Candidates : <<y, x>> \notin R
    BY <1>3, <2>1, WFMin
  <2>3. \A y \in Candidates : x <= y
    <3> TAKE y \in Candidates
    <3>1. x \in Nat /\ y \in Nat
      BY <1>3
    <3>2. ~ (y < x)
      BY <2>2, <3>1 DEF R
    <3> QED
      BY <3>1, <3>2
  <2> QED
    BY <2>2, <2>3 DEF Min
<1> DEFINE b == items[Min(Candidates)].user
<1>5. b \in Users /\ Ahead(b) /\ b \notin used
  BY <1>1, <1>2, <1>3, <1>4 DEF Ahead
<1>6. Seeker \in Users /\ Ahead(Seeker) /\ Seeker \notin used
  BY <1>1, <1>2 DEF Ahead, Seeker
<1> HIDE DEF b
<1>7. game = [shard |-> s, white |-> Seeker, black |-> b]
  BY DEF b
<1> QED
  BY <1>5, <1>6, <1>7 DEF Match, PlayersOf

\* Requests and the passing of time change the queue only.
LEMMA QueueChangesKeepWorker ==
  ASSUME WorkerInv, queue' \in Seq(Entry), OnePerUser(queue'), TypeOK', UNCHANGED workerVars
  PROVE  WorkerInv'
BY DEF WorkerInv, OnePerUser, workerVars

LEMMA RequestsKeepWorker ==
  ASSUME WorkerInv, NEW u \in Users, Play(u) \/ CancelPlay(u) \/ Listeners(u)
  PROVE  WorkerInv'
<1>1. TypeOK /\ queue \in Seq(Entry)
  BY DEF WorkerInv, TypeOK
<1>2. queue' \in Seq(Entry) /\ OnePerUser(queue')
  <2>1. CASE Play(u)
    BY <1>1, <2>1, EnqueuedEntries DEF Play, WorkerInv
  <2>2. CASE CancelPlay(u)
    BY <1>1, <2>2, RemainingEntries DEF CancelPlay, Removed, WorkerInv
  <2>3. CASE Listeners(u)
    BY <1>1, <2>3 DEF Listeners, TellTimeout, TellFound, WorkerInv
  <2> QED
    BY <2>1, <2>2, <2>3
<1>3. UNCHANGED <<workerVars, shardVars>>
  BY DEF Play, CancelPlay, Listeners, TellTimeout, TellFound
<1>4. TypeOK'
  <2>1. /\ notices' \in [Users -> Nat] /\ found' \in [Users -> Nat]
        /\ lost' \subseteq lost /\ due' \subseteq due \cup {u}
        /\ waiting' \in [Users -> BOOLEAN] /\ requests' \in 0 .. MaxRequests
    <3>1. CASE Play(u)
      BY <1>1, <3>1, MatchmakerAssumption DEF Play, Request, TypeOK
    <3>2. CASE CancelPlay(u)
      BY <1>1, <3>2 DEF CancelPlay, StopWaiting, TypeOK
    <3>3. CASE Listeners(u)
      <4>1. notices[u] \in Nat /\ found[u] \in Nat
        BY <1>1 DEF TypeOK
      <4>2. /\ notices[u] > 0 => notices[u] - 1 \in Nat
            /\ found[u] > 0 => found[u] - 1 \in Nat
        BY <4>1
      <4>3. /\ notices' = notices \/ (notices' = [notices EXCEPT ![u] = notices[u] - 1] /\ notices[u] - 1 \in Nat)
            /\ found' = found \/ (found' = [found EXCEPT ![u] = found[u] - 1] /\ found[u] - 1 \in Nat)
        BY <3>3, <4>2 DEF Listeners, TellTimeout, TellFound
      <4>4. notices' \in [Users -> Nat] /\ found' \in [Users -> Nat]
        BY <1>1, <4>3 DEF TypeOK
      <4> QED
        BY <1>1, <3>3, <4>4 DEF Listeners, TellTimeout, TellFound, StopWaiting, TypeOK
    <3> QED
      BY <3>1, <3>2, <3>3
  <2> QED
    BY <1>1, <1>2, <1>3, <2>1 DEF TypeOK, workerVars, shardVars
<1> QED
  BY <1>2, <1>3, <1>4, QueueChangesKeepWorker

LEMMA TimePassesKeepsWorker ==
  ASSUME WorkerInv, NEW n \in DOMAIN queue, GrowOld(n)
  PROVE  /\ WorkerInv' /\ DOMAIN queue' = DOMAIN queue
         /\ \A m \in DOMAIN queue : queue'[m].user = queue[m].user
<1> DEFINE e == [queue[n] EXCEPT !.old = TRUE]
<1>1. /\ queue' = [queue EXCEPT ![n] = e]
      /\ UNCHANGED <<workerVars, shardVars, userVars, requests, due, lost>>
  BY DEF GrowOld
<1>2. TypeOK /\ queue \in Seq(Entry)
  BY DEF WorkerInv, TypeOK
<1>3. n \in 1 .. Len(queue) /\ queue[n] \in Entry
  BY <1>2, LenProperties, ElementOfSeq
<1>4. e \in Entry /\ e.user = queue[n].user
  BY <1>3 DEF Entry
<1> HIDE DEF e
<1>5. /\ queue' \in Seq(Entry) /\ DOMAIN queue' = DOMAIN queue
      /\ \A m \in DOMAIN queue : queue'[m].user = queue[m].user
  BY <1>1, <1>2, <1>3, <1>4, ExceptSeq, LenProperties
<1>6. OnePerUser(queue')
  BY <1>5 DEF WorkerInv, OnePerUser
<1>7. TypeOK'
  BY <1>1, <1>2, <1>5 DEF TypeOK, workerVars, shardVars, userVars
<1> QED
  BY <1>1, <1>5, <1>6, <1>7, QueueChangesKeepWorker

\* A user is put into a room.
LEMMA SettleTypes ==
  ASSUME TypeOK, NEW us, us \subseteq Users, NEW s \in Shards, Settle(us, s)
  PROVE  /\ inRoom' \in [Shards -> SUBSET Users] /\ rehomed' \subseteq Users
         /\ \A t \in Shards : inRoom'[t] = IF t = s THEN inRoom[s] \cup us ELSE inRoom[t]
         /\ \A u : u \notin rehomed' => (u \in us /\ ~ InGame(u)) \/ (u \notin us /\ u \notin rehomed)
BY DEF Settle, TypeOK

\* What the handlers send.
LEMMA HandlerCommands ==
  ASSUME NEW seq
  PROVE  /\ \A u \in Users : seq = <<Bind(u), Tell(u)>> =>
              /\ seq \in Seq(Command) /\ DOMAIN seq = 1 .. 2
              /\ seq[1] = Bind(u) /\ seq[2] = Tell(u)
         /\ \A game \in Match : seq = Commands(game) =>
              /\ seq \in Seq(Command) /\ DOMAIN seq = 1 .. 4
              /\ seq[1] = Bind(game.white) /\ seq[2] = Bind(game.black)
              /\ seq[3] = Tell(game.white) /\ seq[4] = Tell(game.black)
<1>1. \A u \in Users : Bind(u) \in Command /\ Tell(u) \in Command
  BY DEF Bind, Tell, Command
<1>2. \A game \in Match : game.white \in Users /\ game.black \in Users
  BY DEF Match
<1>3. ASSUME NEW a \in Command, NEW b \in Command, seq = <<a, b>>
      PROVE  seq \in Seq(Command) /\ DOMAIN seq = 1 .. 2 /\ seq[1] = a /\ seq[2] = b
  BY <1>3
<1>4. ASSUME NEW a \in Command, NEW b \in Command, NEW c \in Command, NEW d \in Command, seq = <<a, b, c, d>>
      PROVE  seq \in Seq(Command) /\ DOMAIN seq = 1 .. 4 /\ seq[1] = a /\ seq[2] = b /\ seq[3] = c /\ seq[4] = d
  BY <1>4
<1> QED
  BY <1>1, <1>2, <1>3, <1>4 DEF Commands

LEMMA EnterTypes ==
  ASSUME TypeOK, NEW u \in Users, NEW s \in Shards, Enter(u, s)
  PROVE  /\ inRoom' \in [Shards -> SUBSET Users] /\ rehomed' \subseteq Users
         /\ todo' \in [Shards -> Seq(Command)] /\ requests' \in 0 .. MaxRequests
         /\ UNCHANGED <<queue, workerVars, inbox, home, restarts, userVars, due, lost>>
<1>1. inRoom' \in [Shards -> SUBSET Users] /\ rehomed' \subseteq Users
  BY SettleTypes DEF Enter
<1>2. <<Bind(u), Tell(u)>> \in Seq(Command)
  BY HandlerCommands
<1>3. requests' \in 0 .. MaxRequests
  BY MatchmakerAssumption DEF Enter, Request, TypeOK
<1>4. todo' \in [Shards -> Seq(Command)]
  <2> DEFINE new == <<Bind(u), Tell(u)>>
  <2>1. new \in Seq(Command) /\ todo' = [todo EXCEPT ![s] = new]
    BY <1>2 DEF Enter
  <2> HIDE DEF new
  <2> QED
    BY <2>1 DEF TypeOK
<1> QED
  BY <1>1, <1>3, <1>4 DEF Enter

\* The shards' steps and the entering of rooms leave the lists alone.
LEMMA ShardsKeepWorker ==
  ASSUME WorkerInv,
         \/ \E u \in Users, s \in Shards : CreateRoom(u, s)
         \/ \E u \in Users, game \in games : JoinRoom(u, game)
         \/ \E s \in Shards : Shard(s) \/ Restart(s)
         \/ \E game \in games : FinishGame(game)
  PROVE  WorkerInv'
<1>1. TypeOK
  BY DEF WorkerInv
<1>2. UNCHANGED <<queue, workerVars>>
  BY DEF CreateRoom, JoinRoom, Enter, Shard, CreateMatch, RefuseMatch, SendCommand, Restart, FinishGame
<1>3. ASSUME NEW us, us \subseteq Users, Forgotten(us) PROVE lost' \subseteq Users
  BY <1>1, <1>3 DEF Forgotten, TypeOK
<1>4. TypeOK'
  <2>1. ASSUME NEW u \in Users, NEW s \in Shards, CreateRoom(u, s) PROVE TypeOK'
    <3>1. games' \subseteq Game
      BY <1>1, <2>1 DEF CreateRoom, TypeOK, Game
    <3>2. Enter(u, s)
      BY <2>1 DEF CreateRoom
    <3> QED
      BY <1>1, <3>1, <3>2, EnterTypes DEF TypeOK, workerVars, userVars
  <2>2. ASSUME NEW u \in Users, NEW game \in games, JoinRoom(u, game) PROVE TypeOK'
    <3>1. game \in Game /\ game.shard \in Shards
      BY <1>1 DEF TypeOK, Game
    <3>2. [game EXCEPT !.black = u] \in Game
      BY <3>1 DEF Game
    <3>3. games' \subseteq Game
      BY <1>1, <2>2, <3>2 DEF JoinRoom, TypeOK
    <3>4. Enter(u, game.shard)
      BY <2>2 DEF JoinRoom
    <3> QED
      BY <1>1, <3>1, <3>3, <3>4, EnterTypes DEF TypeOK, workerVars, userVars
  <2>3. ASSUME NEW s \in Shards, CreateMatch(s) PROVE TypeOK'
    <3> DEFINE game == Head(inbox[s])
    <3>1. /\ inbox' \in [Shards -> Seq(Match)] /\ game \in Match
      BY <1>1, <2>3, TakenMatch DEF CreateMatch, TakeMatch
    <3>2. /\ Settle(PlayersOf(game), s) /\ games' = games \cup {game}
          /\ todo' = [todo EXCEPT ![s] = Commands(game)]
          /\ UNCHANGED <<queue, workerVars, home, restarts, userVars, due, lost, requests>>
      BY <2>3 DEF CreateMatch
    <3> HIDE DEF game
    <3>3. /\ PlayersOf(game) \subseteq Users /\ game \in Game
      BY <3>1, MatchPlayers
    <3>4. inRoom' \in [Shards -> SUBSET Users] /\ rehomed' \subseteq Users
      BY <1>1, <3>2, <3>3, SettleTypes
    <3>5. todo' \in [Shards -> Seq(Command)]
      BY <1>1, <3>1, <3>2, HandlerCommands DEF TypeOK
    <3> QED
      BY <1>1, <3>1, <3>2, <3>3, <3>4, <3>5 DEF TypeOK, workerVars, userVars
  <2>4. ASSUME NEW s \in Shards, RefuseMatch(s) PROVE TypeOK'
    <3>1. inbox' \in [Shards -> Seq(Match)] /\ Head(inbox[s]) \in Match
      BY <1>1, <2>4, TakenMatch DEF RefuseMatch, TakeMatch
    <3>2. lost' \subseteq Users
      BY <1>3, <2>4, <3>1, MatchPlayers DEF RefuseMatch
    <3> QED
      BY <1>1, <1>2, <2>4, <3>1, <3>2 DEF RefuseMatch, TypeOK, workerVars, userVars
  <2>5. ASSUME NEW s \in Shards, SendCommand(s) PROVE TypeOK'
    <3> DEFINE box == todo[s]
    <3>1. box \in Seq(Command) /\ box # << >>
      BY <1>1, <2>5 DEF SendCommand, TypeOK
    <3>2. Head(box) \in Command /\ Tail(box) \in Seq(Command)
      <4> HIDE DEF box
      <4> QED
        BY <3>1, HeadTailProperties
    <3>3. Head(box).user \in Users
      BY <3>2 DEF Command
    <3>4. /\ todo' = [todo EXCEPT ![s] = Tail(box)]
          /\ \/ home' = [home EXCEPT ![Head(box).user] = s] /\ UNCHANGED found
             \/ found' = [found EXCEPT ![Head(box).user] = @ + 1] /\ UNCHANGED home
          /\ UNCHANGED <<queue, workerVars, inbox, inRoom, games, restarts, rehomed, notices, waiting, due,
                         lost, requests>>
      BY <2>5 DEF SendCommand
    <3> HIDE DEF box
    <3>5. todo' \in [Shards -> Seq(Command)]
      BY <1>1, <3>2, <3>4 DEF TypeOK
    <3>6. home' \in [Users -> Shards \cup {NoShard}] /\ found' \in [Users -> Nat]
      <4>1. \A u \in Users : found[u] + 1 \in Nat
        BY <1>1 DEF TypeOK
      <4> QED
        BY <1>1, <3>3, <3>4, <4>1 DEF TypeOK
    <3> QED
      BY <1>1, <3>4, <3>5, <3>6 DEF TypeOK, workerVars
  <2>6. ASSUME NEW s \in Shards, Restart(s) PROVE TypeOK'
    <3>1. inbox' \in [Shards -> Seq(Match)] /\ todo' \in [Shards -> Seq(Command)]
      BY <1>1, <2>6, ClearedMatches DEF Restart
    <3>2. lost' \subseteq Users
      BY <1>3, <2>6 DEF Restart
    <3>3. inRoom' \in [Shards -> SUBSET Users] /\ games' \subseteq Game
      BY <1>1, <2>6 DEF Restart, TypeOK
    <3>4. restarts' \in 0 .. MaxRestarts /\ UNCHANGED <<home, rehomed, userVars, due, requests>>
      BY <1>1, <2>6, MatchmakerAssumption DEF Restart, TypeOK
    <3> QED
      BY <1>1, <1>2, <3>1, <3>2, <3>3, <3>4 DEF TypeOK, workerVars, userVars
  <2>7. ASSUME NEW game \in games, FinishGame(game) PROVE TypeOK'
    BY <1>1, <1>2, <2>7 DEF FinishGame, TypeOK, workerVars, userVars
  <2> QED
    BY <2>1, <2>2, <2>3, <2>4, <2>5, <2>6, <2>7 DEF Shard
<1> QED
  BY <1>2, <1>4, QueueChangesKeepWorker DEF WorkerInv, TypeOK

\* The worker's own steps.
LEMMA WorkerKeepsWorker ==
  ASSUME WorkerInv, Worker
  PROVE  WorkerInv'
<1>1. TypeOK /\ queue \in Seq(Entry) /\ items \in Seq(Entry)
  BY DEF WorkerInv, TypeOK
<1>2. /\ \A n \in DOMAIN items : items[n].user \in Users
      /\ DOMAIN items = 1 .. Len(items) /\ Len(items) \in Nat /\ index \in Nat
  BY <1>1, ListUsers
<1>3. << >> \in Seq(Entry) /\ OnePerUser(<< >>)
  BY EmptySeq DEF OnePerUser
<1>4. CASE StartExpire \/ StartMatch
  <2>1. TypeOK'
    BY <1>1, <1>4 DEF StartExpire, StartMatch, TakeSnapshot, TypeOK, shardVars, userVars
  <2> QED
    BY <1>4, <2>1 DEF StartExpire, StartMatch, TakeSnapshot, WorkerInv, OnePerUser
<1>5. CASE ExpireEntry
  <2> DEFINE u == items[index].user
  <2>1. /\ pc = "expire" /\ index \in DOMAIN items /\ index' = index + 1 /\ UNCHANGED <<pc, queue, items>>
        /\ used' \subseteq used \cup {u} /\ due' \subseteq due
        /\ (notices' = [notices EXCEPT ![u] = @ + 1] \/ UNCHANGED notices)
        /\ UNCHANGED <<unrated, shardVars, found, waiting, lost, requests>>
    BY <1>5 DEF ExpireEntry, AtEntry, Answers
  <2>2. \A n \in index + 1 .. Len(items) : n \in DOMAIN items /\ n \in index .. Len(items) /\ n # index
    BY <1>2
  <2>3. \A n \in index + 1 .. Len(items) : items[n].user \notin used /\ items[n].user # u
    BY <2>1, <2>2 DEF WorkerInv, OnePerUser
  <2>4. u \in Users
    BY <1>2, <2>1
  <2> HIDE DEF u
  <2>5. TypeOK'
    <3>1. notices[u] + 1 \in Nat
      BY <1>1, <2>4 DEF TypeOK
    <3>2. notices' \in [Users -> Nat]
      BY <1>1, <2>1, <2>4, <3>1 DEF TypeOK
    <3> QED
      BY <1>1, <1>2, <2>1, <2>4, <3>2 DEF TypeOK, shardVars
  <2> QED
    BY <1>2, <2>1, <2>3, <2>5 DEF WorkerInv, OnePerUser
<1>6. CASE SkipEntry
  <2>1. TypeOK'
    BY <1>1, <1>6 DEF SkipEntry, AtEntry, TypeOK, shardVars, userVars
  <2> QED
    BY <1>2, <1>6, <2>1 DEF SkipEntry, AtEntry, WorkerInv, OnePerUser
<1>7. ASSUME NEW s \in Shards, PublishMatch(s) PROVE WorkerInv'
  <2> DEFINE game == [shard |-> s, white |-> Seeker, black |-> items[Min(Candidates)].user]
  <2>1. /\ pc = "match" /\ index \in DOMAIN items /\ Candidates # {}
        /\ used' = used \cup PlayersOf(game) /\ inbox' = [inbox EXCEPT ![s] = Append(@, game)]
        /\ index' = index + 1 /\ due' = due \ PlayersOf(game)
        /\ UNCHANGED <<queue, pc, items, unrated, todo, inRoom, games, home, restarts, rehomed, userVars,
                       lost, requests>>
    BY <1>7 DEF PublishMatch, AtEntry, Answers
  <2>2. game \in Match /\ game.shard = s
    BY <2>1, CandidatesAreAhead
  <2> HIDE DEF game
  <2>3. inbox' \in [Shards -> Seq(Match)] /\ PlayersOf(game) \subseteq Users
    BY <1>1, <2>1, <2>2, PublishedMatch, MatchPlayers
  <2>4. TypeOK'
    BY <1>1, <2>1, <2>3 DEF TypeOK, userVars
  <2> QED
    BY <1>2, <2>1, <2>4 DEF WorkerInv, OnePerUser
<1>8. CASE ExpireDone \/ MatchDone
  <2>1. queue' \in Seq(Entry) /\ OnePerUser(queue')
    BY <1>1, <1>8, RemainingEntries DEF ExpireDone, MatchDone, EndPass, Removed, WorkerInv
  <2>2. TypeOK'
    <3>1. /\ pc' \in {"sleep", "expired"} /\ items' = << >> /\ index' = 1 /\ used' = {}
          /\ unrated' = {} /\ lost' \subseteq lost \cup used
          /\ UNCHANGED <<shardVars, userVars, due, requests>>
      BY <1>8 DEF ExpireDone, MatchDone, EndPass, Forgotten
    <3> QED
      BY <1>1, <1>3, <2>1, <3>1 DEF TypeOK, shardVars, userVars
  <2> QED
    BY <1>3, <1>8, <2>1, <2>2 DEF ExpireDone, MatchDone, EndPass, WorkerInv, OnePerUser
<1>9. CASE ReadRatings
  <2>1. TypeOK'
    BY <1>1, <1>9 DEF ReadRatings, TypeOK, shardVars, userVars
  <2> QED
    BY <1>9, <2>1 DEF ReadRatings, WorkerInv, OnePerUser
<1> QED
  BY <1>4, <1>5, <1>6, <1>7, <1>8, <1>9 DEF Worker

LEMMA WorkerPreserved == WorkerInv /\ [Next]_vars => WorkerInv'
<1> SUFFICES ASSUME WorkerInv, [Next]_vars PROVE WorkerInv'
  OBVIOUS
<1>1. CASE UNCHANGED vars
  BY <1>1 DEF vars, workerVars, shardVars, userVars, WorkerInv, TypeOK, OnePerUser
<1> QED
  BY <1>1, RequestsKeepWorker, TimePassesKeepsWorker, ShardsKeepWorker, WorkerKeepsWorker DEF Next

-----------------------------------------------------------------------------
\* What the steps do to a user.

\* Nothing is changed that an answer of u's consists of.
LEMMA AnsweredFrame ==
  ASSUME UNCHANGED <<notices, found, inbox, todo>>
  PROVE  \A u : Answered(u)' <=> Answered(u)
BY DEF Answered, Handling, Inbox, PlayersOf, Tell

LEMMA ListsFrame ==
  ASSUME UNCHANGED <<queue, items, index>>
  PROVE  \A u : (Queued(u)' <=> Queued(u)) /\ (Ahead(u)' <=> Ahead(u))
BY DEF Queued, Ahead

\* Who waits and is forgotten is lost.
LEMMA ForgottenAreLost ==
  ASSUME NEW us, Forgotten(us)
  PROVE  \A u : u \in lost' <=> u \in lost \/ (u \in us /\ waiting[u])
BY DEF Forgotten

LEMMA RequestsKeepUsers ==
  ASSUME SplitInv, NEW w \in Users, Play(w) \/ CancelPlay(w) \/ Listeners(w)
  PROVE  UserInv'
<1>1. WorkerInv /\ TypeOK /\ UserInv /\ queue \in Seq(Entry)
  BY DEF SplitInv, WorkerInv, TypeOK
<1>2. UNCHANGED <<items, index, used, inbox, todo>>
  BY DEF Play, CancelPlay, Listeners, TellTimeout, TellFound, workerVars, shardVars
<1>3. \A v : Ahead(v)' <=> Ahead(v)
  BY <1>2 DEF Ahead
<1>4. \A v : \A s \in Shards : Handling(v, s)' <=> Handling(v, s)
  BY <1>2 DEF Handling, Inbox, PlayersOf, Tell
<1> SUFFICES ASSUME NEW v \in Users PROVE DueInv(v)' /\ WaitInv(v)'
  BY DEF UserInv
<1>5. DueInv(v) /\ WaitInv(v)
  BY <1>1 DEF UserInv
<1>6. CASE Play(w)
  <2>1. Queued(v)' <=> v = w \/ Queued(v)
    <3>1. PICK q : q = queue' /\ q = Enqueue(w)
      BY <1>6 DEF Play
    <3>2. \A u : (\E n \in DOMAIN q : q[n].user = u) <=> (u = w \/ Queued(u))
      BY <1>1, <3>1, EnqueuedEntries
    <3> QED
      BY <3>1, <3>2 DEF Queued
  <2>2. /\ waiting'[v] = IF v = w THEN TRUE ELSE waiting[v]
        /\ v \in due' <=> v \in due \/ v = w
        /\ UNCHANGED <<notices, found, lost>>
    BY <1>1, <1>6 DEF Play, TypeOK
  <2>3. Answered(v)' <=> Answered(v)
    BY <1>4, <2>2 DEF Answered
  <2> QED
    BY <1>2, <1>3, <1>5, <2>1, <2>2, <2>3 DEF DueInv, WaitInv
<1>7. CASE CancelPlay(w)
  <2>1. Queued(v)' <=> v # w /\ Queued(v)
    <3> DEFINE us == {w}
    <3>1. queue' \in Remaining(queue, us)
      BY <1>7 DEF CancelPlay, Removed
    <3> HIDE DEF us
    <3>2. \A u : (\E n \in DOMAIN queue' : queue'[n].user = u) <=> (u \notin us /\ \E n \in DOMAIN queue : queue[n].user = u)
      BY <1>1, <3>1, RemainingEntries
    <3> QED
      BY <3>2 DEF Queued, us
  <2>2. /\ waiting'[v] = IF v = w THEN FALSE ELSE waiting[v]
        /\ v # w => (v \in lost' <=> v \in lost)
        /\ UNCHANGED <<notices, found, due>>
    BY <1>1, <1>7 DEF CancelPlay, StopWaiting, TypeOK
  <2>3. Answered(v)' <=> Answered(v)
    BY <1>4, <2>2 DEF Answered
  <2> QED
    BY <1>2, <1>3, <1>5, <2>1, <2>2, <2>3 DEF DueInv, WaitInv
<1>8. CASE Listeners(w)
  <2>1. Queued(v)' <=> Queued(v)
    BY <1>8 DEF Listeners, TellTimeout, TellFound, Queued
  <2>2. /\ waiting'[v] = IF v = w THEN FALSE ELSE waiting[v]
        /\ v # w => (v \in lost' <=> v \in lost) /\ notices'[v] = notices[v] /\ found'[v] = found[v]
        /\ UNCHANGED due
    BY <1>1, <1>8 DEF Listeners, TellTimeout, TellFound, StopWaiting, TypeOK
  <2>3. v # w => (Answered(v)' <=> Answered(v))
    BY <1>4, <2>2 DEF Answered
  <2> QED
    BY <1>2, <1>3, <1>5, <2>1, <2>2, <2>3 DEF DueInv, WaitInv
<1> QED
  BY <1>6, <1>7, <1>8

\* The worker answers whom it has not answered in this pass, who therefore has pressed
\* Play; the end of the pass removes the entries of the answered.
LEMMA WorkerKeepsUsers ==
  ASSUME SplitInv, Worker \/ \E n \in DOMAIN queue : GrowOld(n)
  PROVE  UserInv'
<1>1. WorkerInv /\ TypeOK /\ UserInv /\ queue \in Seq(Entry)
  BY DEF SplitInv, WorkerInv, TypeOK
<1>2. UNCHANGED <<todo, found, waiting>>
  BY DEF Worker, StartExpire, StartMatch, TakeSnapshot, ReadRatings, ExpireEntry, SkipEntry, PublishMatch,
     ExpireDone, MatchDone, EndPass, GrowOld, shardVars, userVars
<1>3. \A v : \A s \in Shards : Telling(v, s)' <=> Telling(v, s)
  BY <1>2 DEF Telling, Tell
<1>4. DOMAIN items = 1 .. Len(items) /\ DOMAIN queue = 1 .. Len(queue) /\ Len(items) \in Nat /\ index \in Nat
  BY <1>1, ListUsers
<1> SUFFICES ASSUME NEW v \in Users PROVE DueInv(v)' /\ WaitInv(v)'
  BY DEF UserInv
<1>5. DueInv(v) /\ WaitInv(v)
  BY <1>1 DEF UserInv
<1>6. ASSUME UNCHANGED <<inbox, notices>> PROVE Answered(v)' <=> Answered(v)
  BY <1>2, <1>6, AnsweredFrame
<1>7. CASE \E n \in DOMAIN queue : GrowOld(n)
  <2>1. /\ UNCHANGED <<items, index, used, notices, inbox, due, lost>>
        /\ Queued(v)' <=> Queued(v)
    BY <1>1, <1>7, TimePassesKeepsWorker DEF GrowOld, Queued, workerVars, shardVars, userVars
  <2>2. Ahead(v)' <=> Ahead(v)
    BY <2>1 DEF Ahead
  <2> QED
    BY <1>2, <1>5, <1>6, <2>1, <2>2 DEF DueInv, WaitInv
<1>8. CASE StartExpire \/ StartMatch
  <2>1. /\ items' = queue /\ index' = 1 /\ used' = {} /\ used = {}
        /\ UNCHANGED <<queue, inbox, notices, due, lost>>
    BY <1>1, <1>8 DEF StartExpire, StartMatch, TakeSnapshot, WorkerInv, shardVars, userVars
  <2>2. (Ahead(v)' <=> Queued(v)) /\ (Queued(v)' <=> Queued(v))
    BY <1>4, <2>1 DEF Ahead, Queued
  <2> QED
    BY <1>2, <1>5, <1>6, <2>1, <2>2 DEF DueInv, WaitInv
<1>9. CASE ReadRatings
  <2>1. UNCHANGED <<queue, items, index, used, inbox, notices, due, lost>>
    BY <1>9 DEF ReadRatings, shardVars, userVars
  <2> QED
    BY <1>2, <1>5, <1>6, <2>1, ListsFrame DEF DueInv, WaitInv
<1>10. CASE ExpireEntry
  <2> DEFINE w == items[index].user
  <2>1. /\ pc = "expire" /\ index \in DOMAIN items /\ index' = index + 1 /\ UNCHANGED <<queue, items, inbox, lost>>
        /\ \/ notices' = [notices EXCEPT ![w] = @ + 1] /\ used' = used \cup {w} /\ due' = due \ {w}
           \/ UNCHANGED <<notices, used, due>>
    BY <1>10 DEF ExpireEntry, AtEntry, Answers, shardVars
  <2>2. index \in index .. Len(items) /\ \A n \in index' .. Len(items) : n \in index .. Len(items)
    BY <1>4, <2>1
  <2>3. (Ahead(v)' => Ahead(v)) /\ (Queued(v)' <=> Queued(v))
    BY <2>1, <2>2 DEF Ahead, Queued
  <2>4. w \in Users
    BY <1>1, <2>1, ListUsers
  <2> HIDE DEF w
  <2>5. CASE UNCHANGED <<notices, used, due>>
    BY <1>2, <1>5, <1>6, <2>1, <2>3, <2>5 DEF DueInv, WaitInv
  <2>6. CASE notices' = [notices EXCEPT ![w] = @ + 1] /\ used' = used \cup {w} /\ due' = due \ {w}
    <3>1. CASE v = w
      <4>1. notices'[v] = notices[v] + 1 /\ notices[v] \in Nat
        BY <1>1, <2>4, <2>6, <3>1 DEF TypeOK
      <4>2. Answered(v)' /\ v \in used'
        <5>1. notices'[v] > 0
          BY <4>1
        <5> QED
          BY <2>6, <3>1, <5>1 DEF Answered
      <4> QED
        BY <4>2 DEF DueInv, WaitInv
    <3>2. CASE v # w
      <4>1. /\ notices'[v] = notices[v]
            /\ v \in used' <=> v \in used
            /\ v \in due' <=> v \in due
        BY <1>1, <2>6, <3>2 DEF TypeOK
      <4>2. \A s \in Shards : Handling(v, s)' <=> Handling(v, s)
        BY <1>2, <2>1 DEF Handling, Inbox, PlayersOf, Tell
      <4>3. Answered(v)' <=> Answered(v)
        BY <1>2, <4>1, <4>2 DEF Answered
      <4> QED
        BY <1>2, <1>5, <2>1, <2>3, <4>1, <4>3 DEF DueInv, WaitInv
    <3> QED
      BY <3>1, <3>2
  <2> QED
    BY <2>1, <2>5, <2>6
<1>11. CASE SkipEntry
  <2>1. index' = index + 1 /\ UNCHANGED <<queue, items, inbox, used, notices, due, lost>>
    BY <1>11 DEF SkipEntry, shardVars, userVars
  <2>2. \A n \in index' .. Len(items) : n \in index .. Len(items)
    BY <1>4, <2>1
  <2>3. (Ahead(v)' => Ahead(v)) /\ (Queued(v)' <=> Queued(v))
    BY <2>1, <2>2 DEF Ahead, Queued
  <2> QED
    BY <1>2, <1>5, <1>6, <2>1, <2>3 DEF DueInv, WaitInv
<1>12. ASSUME NEW s \in Shards, PublishMatch(s) PROVE DueInv(v)' /\ WaitInv(v)'
  <2> DEFINE game == [shard |-> s, white |-> Seeker, black |-> items[Min(Candidates)].user]
  <2>1. /\ index \in DOMAIN items /\ Candidates # {}
        /\ used' = used \cup PlayersOf(game) /\ due' = due \ PlayersOf(game)
        /\ inbox' = [inbox EXCEPT ![s] = Append(@, game)]
        /\ index' = index + 1 /\ UNCHANGED <<queue, items, notices, lost>>
    BY <1>12 DEF PublishMatch, AtEntry, Answers, userVars
  <2>2. game \in Match
    BY <1>1, <2>1, CandidatesAreAhead
  <2> HIDE DEF game
  <2>3. \A n \in index' .. Len(items) : n \in index .. Len(items)
    BY <1>4, <2>1
  <2>4. (Ahead(v)' => Ahead(v)) /\ (Queued(v)' <=> Queued(v))
    BY <2>1, <2>3 DEF Ahead, Queued
  <2>5. \A t \in Shards : InInbox(v, t)' <=> InInbox(v, t) \/ (t = s /\ v \in PlayersOf(game))
    BY <1>1, <2>1, <2>2, PublishedMatch
  <2>6. \A t \in Shards : Handling(v, t)' <=> InInbox(v, t)' \/ Telling(v, t)'
    BY DEF Handling, InInbox, Telling, Inbox, ToSet, Tell
  <2>7. Answered(v)' <=> Answered(v) \/ v \in PlayersOf(game)
    BY <1>2, <1>3, <2>1, <2>5, <2>6, HandlingParts DEF Answered
  <2>8. (v \in used' <=> v \in used \/ v \in PlayersOf(game)) /\ (v \in due' <=> v \in due /\ v \notin PlayersOf(game))
    BY <2>1
  <2> QED
    BY <1>2, <1>5, <2>1, <2>4, <2>7, <2>8 DEF DueInv, WaitInv
<1>13. CASE ExpireDone \/ MatchDone
  <2> DEFINE gone == used \cap due
  <2>1. /\ queue' \in Remaining(queue, used) /\ items' = << >> /\ index' = 1 /\ used' = {}
        /\ Forgotten(gone) /\ UNCHANGED <<inbox, notices, due>>
    BY <1>13 DEF ExpireDone, MatchDone, EndPass, Removed, shardVars, userVars
  <2>2. \A u : (\E i \in DOMAIN queue' : queue'[i].user = u) <=> (u \notin used /\ \E n \in DOMAIN queue : queue[n].user = u)
    BY <1>1, <2>1, RemainingEntries
  <2>3. Queued(v)' <=> v \notin used /\ Queued(v)
    BY <2>2 DEF Queued
  <2>4. ~ Ahead(v)'
    BY <2>1, EmptySeq DEF Ahead
  <2>5. v \in lost' <=> v \in lost \/ (v \in used /\ v \in due /\ waiting[v])
    BY <2>1, ForgottenAreLost
  <2> QED
    BY <1>2, <1>5, <1>6, <2>1, <2>3, <2>4, <2>5 DEF DueInv, WaitInv
<1> QED
  BY <1>7, <1>8, <1>9, <1>10, <1>11, <1>12, <1>13 DEF Worker

\* The handlers bring an answer nearer to its user, or lose it.
LEMMA ShardsKeepUsers ==
  ASSUME SplitInv,
         \/ \E w \in Users, s \in Shards : Enter(w, s)
         \/ \E s \in Shards : Shard(s) \/ Restart(s)
         \/ \E game \in games : FinishGame(game)
  PROVE  UserInv'
<1>1. TypeOK /\ UserInv
  BY DEF SplitInv, WorkerInv
<1>2. UNCHANGED <<queue, items, index, used, notices, waiting, due>>
  BY DEF Enter, Shard, CreateMatch, RefuseMatch, SendCommand, Restart, FinishGame, workerVars, userVars
<1> SUFFICES ASSUME NEW v \in Users PROVE DueInv(v)' /\ WaitInv(v)'
  BY DEF UserInv
<1>3. DueInv(v) /\ WaitInv(v)
  BY <1>1 DEF UserInv
<1>4. SUFFICES /\ v \in lost => v \in lost'
               /\ Answered(v) /\ waiting[v] => Answered(v)' \/ v \in lost'
  BY <1>2, <1>3, ListsFrame DEF DueInv, WaitInv
<1>5. \A t \in Shards : Handling(v, t)' <=> InInbox(v, t)' \/ Telling(v, t)'
  BY DEF Handling, InInbox, Telling, Inbox, ToSet, Tell
<1>6. ASSUME NEW w \in Users, NEW s \in Shards, Enter(w, s)
      PROVE  Answered(v) => Answered(v)'
  <2>1. todo[s] = << >> /\ todo' = [todo EXCEPT ![s] = <<Bind(w), Tell(w)>>] /\ UNCHANGED <<found, inbox>>
    BY <1>6 DEF Enter, userVars
  <2>2. \A t \in Shards : Handling(v, t) => Handling(v, t)'
    <3>1. \A t \in Shards : t # s => todo'[t] = todo[t]
      BY <1>1, <2>1 DEF TypeOK
    <3>2. \A t \in Shards : (InInbox(v, t)' <=> InInbox(v, t)) /\ (Telling(v, t) => Telling(v, t)')
      BY <2>1, <3>1 DEF InInbox, Telling, PlayersOf, Tell
    <3> QED
      BY <1>5, <3>2, HandlingParts
  <2> QED
    BY <1>2, <2>1, <2>2 DEF Answered
<1>7. ASSUME NEW s \in Shards, CreateMatch(s)
      PROVE  Answered(v) => Answered(v)'
  <2> DEFINE game == Head(inbox[s])
  <2>1. /\ todo[s] = << >> /\ inbox[s] # << >> /\ inbox' = [inbox EXCEPT ![s] = Tail(@)]
        /\ todo' = [todo EXCEPT ![s] = Commands(game)] /\ UNCHANGED found
    BY <1>7 DEF CreateMatch, TakeMatch, userVars
  <2>2. game \in Match /\ \A t \in Shards : InInbox(v, t) <=> InInbox(v, t)' \/ (t = s /\ v \in PlayersOf(game))
    BY <1>1, <2>1, TakenMatch
  <2> HIDE DEF game
  <2>3. todo'[s] = Commands(game) /\ \A t \in Shards : t # s => todo'[t] = todo[t]
    BY <1>1, <2>1 DEF TypeOK
  <2>4. /\ DOMAIN todo'[s] = 1 .. 4 /\ todo'[s][3] = Tell(game.white) /\ todo'[s][4] = Tell(game.black)
    BY <2>2, <2>3, HandlerCommands
  <2>5. v \in PlayersOf(game) => Telling(v, s)'
    BY <2>2, <2>4, MatchPlayers DEF Telling, Tell
  <2>6. \A t \in Shards : Telling(v, t) => Telling(v, t)'
    BY <2>1, <2>3 DEF Telling, Tell
  <2>7. \A t \in Shards : Handling(v, t) => Handling(v, t)'
    BY <1>5, <2>2, <2>5, <2>6, HandlingParts
  <2> QED
    BY <1>2, <2>1, <2>7 DEF Answered
<1>8. ASSUME NEW s \in Shards, RefuseMatch(s)
      PROVE  (v \in lost => v \in lost') /\ (Answered(v) /\ waiting[v] => Answered(v)' \/ v \in lost')
  <2> DEFINE us == PlayersOf(Head(inbox[s]))
  <2>1. /\ inbox[s] # << >> /\ inbox' = [inbox EXCEPT ![s] = Tail(@)] /\ Forgotten(us)
        /\ UNCHANGED <<todo, found>>
    BY <1>8 DEF RefuseMatch, TakeMatch, userVars
  <2>2. \A t \in Shards : InInbox(v, t) <=> InInbox(v, t)' \/ (t = s /\ v \in us)
    BY <1>1, <2>1, TakenMatch
  <2>3. \A t \in Shards : Telling(v, t)' <=> Telling(v, t)
    BY <2>1 DEF Telling, Tell
  <2> HIDE DEF us
  <2>4. \A t \in Shards : Handling(v, t) => Handling(v, t)' \/ v \in us
    BY <1>5, <2>2, <2>3, HandlingParts
  <2> QED
    BY <1>2, <2>1, <2>4, ForgottenAreLost DEF Answered
<1>9. ASSUME NEW s \in Shards, SendCommand(s)
      PROVE  Answered(v) => Answered(v)'
  <2> DEFINE box == todo[s]
  <2>1. /\ box \in Seq(Command) /\ box # << >> /\ todo' = [todo EXCEPT ![s] = Tail(box)] /\ UNCHANGED inbox
        /\ IF Head(box).op = "bind" THEN found' = found
           ELSE found' = [found EXCEPT ![Head(box).user] = found[Head(box).user] + 1]
    BY <1>1, <1>9 DEF SendCommand, TypeOK
  <2>2. /\ Len(box) \in Nat \ {0} /\ Head(box) = box[1] /\ Head(box) \in Command
        /\ DOMAIN box = 1 .. Len(box) /\ DOMAIN Tail(box) = 1 .. Len(box) - 1
        /\ \A m \in 1 .. Len(box) - 1 : Tail(box)[m] = box[m + 1]
    <3> HIDE DEF box
    <3>1. Len(box) \in Nat \ {0}
      BY <2>1, EmptySeq
    <3>2. /\ Head(box) \in Command /\ Tail(box) \in Seq(Command) /\ Len(Tail(box)) = Len(box) - 1
          /\ \A m \in 1 .. Len(Tail(box)) : Tail(box)[m] = box[m + 1]
      BY <2>1, HeadTailProperties
    <3>3. DOMAIN box = 1 .. Len(box) /\ DOMAIN Tail(box) = 1 .. Len(Tail(box)) /\ Head(box) = box[1]
      BY <2>1, <3>1, <3>2, LenProperties
    <3> QED
      BY <3>1, <3>2, <3>3
  <2>3. todo'[s] = Tail(box) /\ \A t \in Shards : t # s => todo'[t] = todo[t]
    BY <1>1, <2>1 DEF TypeOK
  <2>4. Telling(v, s) => Telling(v, s)' \/ Head(box) = Tell(v)
    <3> SUFFICES ASSUME NEW m \in DOMAIN box, box[m] = Tell(v), m # 1 PROVE Telling(v, s)'
      BY <2>2 DEF Telling
    <3>1. m - 1 \in 1 .. Len(box) - 1 /\ (m - 1) + 1 = m
      BY <2>2
    <3>2. m - 1 \in DOMAIN todo'[s] /\ todo'[s][m - 1] = Tell(v)
      BY <2>2, <2>3, <3>1
    <3> QED
      BY <3>2 DEF Telling, Tell
  <2>5. \A t \in Shards : (InInbox(v, t)' <=> InInbox(v, t)) /\ (t # s => (Telling(v, t)' <=> Telling(v, t)))
    BY <2>1, <2>3 DEF InInbox, Telling, PlayersOf, Tell
  <2>6. found[v] \in Nat
    BY <1>1 DEF TypeOK
  <2>7. Head(box) = Tell(v) => found'[v] = found[v] + 1
    BY <1>1, <2>1 DEF Tell, TypeOK
  <2>8. found'[v] = found[v] \/ found'[v] = found[v] + 1
    BY <1>1, <2>1 DEF TypeOK
  <2> HIDE DEF box
  <2>9. \A t \in Shards : Handling(v, t) => Handling(v, t)' \/ Head(box) = Tell(v)
    BY <1>5, <2>4, <2>5, HandlingParts
  <2>10. /\ found[v] > 0 => found'[v] > 0
         /\ Head(box) = Tell(v) => found'[v] > 0
    BY <2>6, <2>7, <2>8
  <2> QED
    BY <1>2, <2>9, <2>10 DEF Answered
<1>10. ASSUME NEW s \in Shards, Restart(s)
       PROVE  (v \in lost => v \in lost') /\ (Answered(v) /\ waiting[v] => Answered(v)' \/ v \in lost')
  <2> DEFINE us == {u \in Users : Handling(u, s)}
  <2>1. /\ inbox' = [inbox EXCEPT ![s] = << >>] /\ todo' = [todo EXCEPT ![s] = << >>] /\ Forgotten(us)
        /\ UNCHANGED found
    BY <1>10 DEF Restart, userVars
  <2>2. \A t \in Shards : t # s => (Handling(v, t)' <=> Handling(v, t))
    BY <1>1, <2>1, ClearedMatches
  <2>3. Handling(v, s) <=> v \in us
    OBVIOUS
  <2> HIDE DEF us
  <2>4. \A t \in Shards : Handling(v, t) => Handling(v, t)' \/ v \in us
    BY <2>2, <2>3
  <2> QED
    BY <1>2, <2>1, <2>4, ForgottenAreLost DEF Answered
<1>11. ASSUME NEW game \in games, FinishGame(game) PROVE Answered(v)' <=> Answered(v)
  BY <1>11, AnsweredFrame DEF FinishGame, userVars
<1>12. (\/ \E w \in Users, s \in Shards : Enter(w, s)
        \/ \E s \in Shards : CreateMatch(s) \/ SendCommand(s)
        \/ \E game \in games : FinishGame(game)) => lost' = lost
  BY DEF Enter, CreateMatch, SendCommand, FinishGame
<1> QED
  BY <1>6, <1>7, <1>8, <1>9, <1>10, <1>11, <1>12 DEF Shard

-----------------------------------------------------------------------------
\* The directory.

LEMMA RouteFrame ==
  ASSUME RouteInv, UNCHANGED <<inbox, todo, inRoom, games, home, rehomed>>
  PROVE  RouteInv'
BY DEF RouteInv, GamesAreRooms, OneGame, HomeIsRight, BindingsLead, InboxesAgree, Binding, Bind, Tell, PlayersOf

\* Users who enter a room are bound to it by commands that come before the messages to
\* them, and are in no other game unless they count as rehomed.  Who was in the room
\* already is bound to its shard.
LEMMA SettleKeepsRoutes ==
  ASSUME TypeOK, GamesAreRooms, OneGame, HomeIsRight, BindingsLead,
         NEW s \in Shards, NEW us, us \subseteq Users,
         todo[s] = << >>, Settle(us, s), home' = home,
         NEW g \in games', g.shard = s, us \subseteq PlayersOf(g), PlayersOf(g) \subseteq Users,
         \A h \in games' : h = g \/ h \in games,
         \A h \in games : h \in games' \/ h.shard = s,
         \A v \in PlayersOf(g) \ us : \E h \in games \ games' : v \in PlayersOf(h) /\ h.shard = s,
         \A t \in Shards : t # s => todo'[t] = todo[t],
         \A v \in us : Binding(v, s)',
         \A m \in DOMAIN todo'[s] : todo'[s][m].op = "bind" =>
           /\ todo'[s][m].user \in us
           /\ \E n \in DOMAIN todo'[s] : n > m /\ todo'[s][n] = Tell(todo'[s][m].user)
  PROVE  GamesAreRooms' /\ OneGame' /\ HomeIsRight' /\ BindingsLead'
<1>1. /\ \A t \in Shards : inRoom'[t] = IF t = s THEN inRoom[s] \cup us ELSE inRoom[t]
      /\ \A u : u \notin rehomed' => (u \in us /\ ~ InGame(u)) \/ (u \notin us /\ u \notin rehomed)
  <2>1. Settle(us, s)
    OBVIOUS
  <2>2. \A t \in Shards : inRoom'[t] = IF t = s THEN inRoom[s] \cup us ELSE inRoom[t]
    BY <2>1 DEF Settle, TypeOK
  <2>3. \A u : u \notin rehomed' => (u \in us /\ ~ InGame(u)) \/ (u \notin us /\ u \notin rehomed)
    BY <2>1 DEF Settle
  <2> QED
    BY <2>2, <2>3
<1>2. \A h \in games : h.shard \in Shards /\ PlayersOf(h) \subseteq Users
  BY DEF TypeOK, Game, PlayersOf
<1>3. \A u : u \notin rehomed' /\ u \in us => \A h \in games : u \notin PlayersOf(h)
  BY <1>1 DEF InGame
<1>4. \A u : u \notin rehomed' /\ u \notin us => u \notin rehomed
  BY <1>1
<1>5. GamesAreRooms'
  <2>1. PlayersOf(g) \subseteq inRoom'[s]
    BY <1>1 DEF GamesAreRooms
  <2>2. \A h \in games' : PlayersOf(h) \subseteq inRoom'[h.shard]
    BY <1>1, <1>2, <2>1 DEF GamesAreRooms
  <2> QED
    BY <2>2 DEF GamesAreRooms, PlayersOf
<1>6. OneGame'
  <2> SUFFICES ASSUME NEW h \in games', NEW k \in games', NEW u \in Users, u \notin rehomed',
                      u \in PlayersOf(h), u \in PlayersOf(k)
               PROVE  h = k
    BY DEF OneGame, PlayersOf
  <2>1. ASSUME NEW x \in games', NEW y \in games', u \in PlayersOf(x), u \in PlayersOf(y), x = g, y # g
        PROVE  FALSE
    <3>1. y \in games
      BY <2>1
    <3>2. u \notin us /\ u \notin rehomed
      BY <1>3, <1>4, <2>1, <3>1
    <3>3. PICK old \in games \ games' : u \in PlayersOf(old)
      BY <2>1, <3>2
    <3> QED
      BY <2>1, <3>1, <3>2, <3>3 DEF OneGame
  <2>2. h # g /\ k # g => h = k
    <3> SUFFICES ASSUME h # g, k # g PROVE h = k
      OBVIOUS
    <3>1. h \in games /\ k \in games
      OBVIOUS
    <3>2. u \notin rehomed
      BY <1>3, <1>4, <3>1
    <3> QED
      BY <3>1, <3>2 DEF OneGame
  <2> QED
    BY <2>1, <2>2
<1>7. HomeIsRight'
  <2> SUFFICES ASSUME NEW h \in games', NEW u \in PlayersOf(h), u \notin rehomed'
               PROVE  home'[u] = h.shard \/ Binding(u, h.shard)'
    BY DEF HomeIsRight, Binding, Bind, PlayersOf
  <2>1. CASE u \in us
    BY <1>3, <2>1
  <2>2. ASSUME u \notin us, NEW k \in games, u \in PlayersOf(k), k.shard = h.shard
        PROVE  home'[u] = h.shard \/ Binding(u, h.shard)'
    <3>1. u \notin rehomed
      BY <1>4, <2>2
    <3>2. home[u] = k.shard \/ Binding(u, k.shard)
      BY <2>2, <3>1 DEF HomeIsRight
    <3>3. CASE k.shard = s
      BY <2>2, <3>2, <3>3, EmptySeq DEF Binding
    <3>4. CASE k.shard # s
      BY <1>2, <2>2, <3>2, <3>4 DEF Binding, Bind
    <3> QED
      BY <3>3, <3>4
  <2>3. CASE u \notin us /\ h \in games
    BY <2>2, <2>3
  <2>4. CASE u \notin us /\ h = g
    <3>1. PICK old \in games \ games' : u \in PlayersOf(old) /\ old.shard = s
      BY <2>4
    <3> QED
      BY <2>2, <2>4, <3>1
  <2> QED
    BY <2>1, <2>3, <2>4
<1>8. BindingsLead'
  <2> SUFFICES ASSUME NEW t \in Shards, NEW m \in DOMAIN todo'[t], todo'[t][m].op = "bind"
               PROVE  /\ \E h \in games' : h.shard = t /\ todo'[t][m].user \in PlayersOf(h)
                      /\ \E n \in DOMAIN todo'[t] : n > m /\ todo'[t][n] = Tell(todo'[t][m].user)
    BY DEF BindingsLead, PlayersOf, Tell
  <2>1. CASE t = s
    BY <2>1
  <2>2. CASE t # s
    BY <2>2 DEF BindingsLead
  <2> QED
    BY <2>1, <2>2
<1> QED
  BY <1>5, <1>6, <1>7, <1>8

LEMMA EnterKeepsRoutes ==
  ASSUME TypeOK, RouteInv, NEW w \in Users, NEW s \in Shards, Enter(w, s),
         NEW g \in games', g.shard = s, w \in PlayersOf(g), PlayersOf(g) \subseteq Users,
         \A h \in games' : h = g \/ h \in games,
         \A h \in games : h \in games' \/ h.shard = s,
         \A v \in PlayersOf(g) \ {w} : \E h \in games \ games' : v \in PlayersOf(h) /\ h.shard = s
  PROVE  RouteInv'
<1> DEFINE us == {w}
<1>1. /\ todo[s] = << >> /\ Settle(us, s) /\ todo' = [todo EXCEPT ![s] = <<Bind(w), Tell(w)>>]
      /\ UNCHANGED <<inbox, home>>
  BY DEF Enter
<1>2. todo'[s] = <<Bind(w), Tell(w)>> /\ \A t \in Shards : t # s => todo'[t] = todo[t]
  BY <1>1 DEF TypeOK
<1>3. DOMAIN todo'[s] = 1 .. 2 /\ todo'[s][1] = Bind(w) /\ todo'[s][2] = Tell(w)
  BY <1>2, HandlerCommands
<1>4. Binding(w, s)'
  BY <1>3 DEF Binding, Bind
<1>5. ASSUME NEW m \in DOMAIN todo'[s], todo'[s][m].op = "bind"
      PROVE  /\ todo'[s][m].user \in us
             /\ \E n \in DOMAIN todo'[s] : n > m /\ todo'[s][n] = Tell(todo'[s][m].user)
  <2>1. m = 1
    BY <1>3, <1>5 DEF Tell
  <2>2. todo'[s][m].user = w
    BY <1>3, <2>1 DEF Bind
  <2> QED
    BY <1>3, <2>1, <2>2
<1>6. us \subseteq Users /\ us \subseteq PlayersOf(g) /\ \A v \in us : v = w
  OBVIOUS
<1>7. \A v \in PlayersOf(g) \ us : \E h \in games \ games' : v \in PlayersOf(h) /\ h.shard = s
  OBVIOUS
<1> HIDE DEF us
<1>8. GamesAreRooms' /\ OneGame' /\ HomeIsRight' /\ BindingsLead'
  BY <1>1, <1>2, <1>4, <1>5, <1>6, <1>7, SettleKeepsRoutes DEF RouteInv
<1> QED
  BY <1>1, <1>8 DEF RouteInv, InboxesAgree

LEMMA RoomsKeepRoutes ==
  ASSUME SplitInv,
         \/ \E u \in Users, s \in Shards : CreateRoom(u, s)
         \/ \E u \in Users, game \in games : JoinRoom(u, game)
  PROVE  RouteInv'
<1>1. TypeOK /\ RouteInv
  BY DEF SplitInv, WorkerInv
<1>2. \A g \in games : g \in Game /\ g.shard \in Shards /\ PlayersOf(g) \subseteq Users
  BY <1>1 DEF TypeOK, Game, PlayersOf
<1>3. ASSUME NEW w \in Users, NEW s \in Shards, CreateRoom(w, s) PROVE RouteInv'
  <2> DEFINE g == [shard |-> s, white |-> w, black |-> Nobody]
  <2>1. Enter(w, s) /\ games' = games \cup {g} /\ PlayersOf(g) = {w} /\ g.shard = s
    BY <1>3, MatchmakerAssumption DEF CreateRoom, PlayersOf
  <2> HIDE DEF g
  <2>2. /\ g \in games' /\ w \in PlayersOf(g) /\ PlayersOf(g) \subseteq Users
        /\ \A h \in games' : h = g \/ h \in games
        /\ \A h \in games : h \in games'
        /\ \A v \in PlayersOf(g) : v = w
    BY <2>1
  <2> QED
    BY <1>1, <2>1, <2>2, EnterKeepsRoutes
<1>4. ASSUME NEW w \in Users, NEW old \in games, JoinRoom(w, old) PROVE RouteInv'
  <2> DEFINE g == [old EXCEPT !.black = w]
             s == old.shard
  <2>1. Enter(w, s) /\ games' = (games \ {old}) \cup {g} /\ old.black = Nobody
    BY <1>4 DEF JoinRoom
  <2>2. old \in Game /\ s \in Shards /\ PlayersOf(old) \subseteq Users
    BY <1>2
  <2>3. PlayersOf(g) = PlayersOf(old) \cup {w} /\ g.shard = s /\ s = old.shard /\ g # old
    BY <2>1, <2>2, MatchmakerAssumption DEF PlayersOf, Game
  <2> HIDE DEF g, s
  <2>4. /\ g \in games' /\ old \in games \ games' /\ w \in PlayersOf(g) /\ PlayersOf(g) \subseteq Users
        /\ \A h \in games' : h = g \/ h \in games
        /\ \A h \in games : h \in games' \/ h.shard = s
        /\ \A v \in PlayersOf(g) \ {w} : v \in PlayersOf(old)
    BY <2>1, <2>2, <2>3
  <2> QED
    BY <1>1, <2>1, <2>2, <2>3, <2>4, EnterKeepsRoutes
<1> QED
  BY <1>3, <1>4

LEMMA ShardsKeepRoutes ==
  ASSUME SplitInv, NEW s \in Shards, Shard(s) \/ Restart(s)
  PROVE  RouteInv'
<1>1. TypeOK /\ RouteInv
  BY DEF SplitInv, WorkerInv
<1>2. \A g \in games : g.shard \in Shards /\ PlayersOf(g) \subseteq Users
  BY <1>1 DEF TypeOK, Game, PlayersOf
<1>3. CASE CreateMatch(s)
  <2> DEFINE game == Head(inbox[s])
             us == PlayersOf(game)
  <2>1. /\ todo[s] = << >> /\ inbox[s] # << >> /\ inbox' = [inbox EXCEPT ![s] = Tail(@)]
        /\ Settle(us, s) /\ games' = games \cup {game}
        /\ todo' = [todo EXCEPT ![s] = Commands(game)] /\ UNCHANGED home
    BY <1>3 DEF CreateMatch, TakeMatch
  <2>2. game \in Match /\ game.shard = s /\ InboxesAgree'
    BY <1>1, <2>1, TakenMatch DEF RouteInv
  <2> HIDE DEF game
  <2>3. us = {game.white, game.black} /\ us \subseteq Users
    BY <2>2, MatchPlayers
  <2>4. todo'[s] = Commands(game) /\ \A t \in Shards : t # s => todo'[t] = todo[t]
    BY <1>1, <2>1 DEF TypeOK
  <2>5. /\ DOMAIN todo'[s] = 1 .. 4
        /\ todo'[s][1] = Bind(game.white) /\ todo'[s][2] = Bind(game.black)
        /\ todo'[s][3] = Tell(game.white) /\ todo'[s][4] = Tell(game.black)
    BY <2>2, <2>4, HandlerCommands
  <2>6. \A v \in us : Binding(v, s)'
    BY <2>3, <2>5 DEF Binding, Bind
  <2>7. ASSUME NEW m \in DOMAIN todo'[s], todo'[s][m].op = "bind"
        PROVE  /\ todo'[s][m].user \in us
               /\ \E n \in DOMAIN todo'[s] : n > m /\ todo'[s][n] = Tell(todo'[s][m].user)
    <3>1. m = 1 \/ m = 2
      BY <2>5, <2>7 DEF Tell
    <3>2. CASE m = 1
      <4>1. todo'[s][m].user = game.white /\ 3 \in DOMAIN todo'[s] /\ 3 > m
        BY <2>5, <3>2 DEF Bind
      <4> QED
        BY <2>3, <2>5, <4>1
    <3>3. CASE m = 2
      <4>1. todo'[s][m].user = game.black /\ 4 \in DOMAIN todo'[s] /\ 4 > m
        BY <2>5, <3>3 DEF Bind
      <4> QED
        BY <2>3, <2>5, <4>1
    <3> QED
      BY <3>1, <3>2, <3>3
  <2>8. /\ game \in games' /\ us \subseteq PlayersOf(game) /\ PlayersOf(game) \subseteq us
        /\ \A h \in games' : h = game \/ h \in games
        /\ \A h \in games : h \in games'
    BY <2>1
  <2> HIDE DEF us
  <2>9. GamesAreRooms' /\ OneGame' /\ HomeIsRight' /\ BindingsLead'
    BY <1>1, <2>1, <2>2, <2>3, <2>4, <2>6, <2>7, <2>8, SettleKeepsRoutes DEF RouteInv
  <2> QED
    BY <2>2, <2>9 DEF RouteInv
<1>4. CASE RefuseMatch(s)
  <2>1. inbox[s] # << >> /\ inbox' = [inbox EXCEPT ![s] = Tail(@)]
    BY <1>4 DEF RefuseMatch, TakeMatch
  <2>2. InboxesAgree'
    BY <1>1, <2>1, TakenMatch DEF RouteInv
  <2>3. UNCHANGED <<todo, inRoom, games, home, rehomed>>
    BY <1>4 DEF RefuseMatch
  <2> QED
    BY <1>1, <2>2, <2>3 DEF RouteInv, GamesAreRooms, OneGame, HomeIsRight, BindingsLead, Binding, Bind, Tell, PlayersOf
<1>5. CASE SendCommand(s)
  <2> DEFINE box == todo[s]
  <2>1. /\ box \in Seq(Command) /\ box # << >> /\ todo' = [todo EXCEPT ![s] = Tail(box)]
        /\ UNCHANGED <<inbox, inRoom, games, rehomed>>
        /\ IF Head(box).op = "bind" THEN home' = [home EXCEPT ![Head(box).user] = s]
           ELSE home' = home
    BY <1>1, <1>5 DEF SendCommand, TypeOK
  <2>2. /\ Len(box) \in Nat \ {0} /\ Head(box) = box[1] /\ Head(box) \in Command
        /\ DOMAIN box = 1 .. Len(box) /\ DOMAIN Tail(box) = 1 .. Len(box) - 1
        /\ \A m \in 1 .. Len(box) - 1 : Tail(box)[m] = box[m + 1]
    <3> HIDE DEF box
    <3>1. Len(box) \in Nat \ {0}
      BY <2>1, EmptySeq
    <3>2. /\ Head(box) \in Command /\ Tail(box) \in Seq(Command) /\ Len(Tail(box)) = Len(box) - 1
          /\ \A m \in 1 .. Len(Tail(box)) : Tail(box)[m] = box[m + 1]
      BY <2>1, HeadTailProperties
    <3>3. DOMAIN box = 1 .. Len(box) /\ DOMAIN Tail(box) = 1 .. Len(Tail(box)) /\ Head(box) = box[1]
      BY <2>1, <3>1, <3>2, LenProperties
    <3> QED
      BY <3>1, <3>2, <3>3
  <2>3. todo'[s] = Tail(box) /\ \A t \in Shards : t # s => todo'[t] = todo[t]
    BY <1>1, <2>1 DEF TypeOK
  <2>4. /\ 1 \in DOMAIN box
        /\ \A m \in DOMAIN todo'[s] : m \in Nat /\ m + 1 \in DOMAIN box /\ todo'[s][m] = box[m + 1]
        /\ \A m \in DOMAIN box : m # 1 => m - 1 \in DOMAIN todo'[s] /\ todo'[s][m - 1] = box[m]
    BY <2>2, <2>3
  <2>5. GamesAreRooms' /\ OneGame' /\ InboxesAgree'
    BY <1>1, <2>1 DEF RouteInv, GamesAreRooms, OneGame, InboxesAgree, PlayersOf
  <2>6. BindingsLead'
    <3> SUFFICES ASSUME NEW t \in Shards, NEW m \in DOMAIN todo'[t], todo'[t][m].op = "bind"
                 PROVE  /\ \E h \in games : h.shard = t /\ todo'[t][m].user \in PlayersOf(h)
                        /\ \E n \in DOMAIN todo'[t] : n > m /\ todo'[t][n] = Tell(todo'[t][m].user)
      BY <2>1 DEF BindingsLead, PlayersOf, Tell
    <3>1. CASE t # s
      BY <1>1, <2>3, <3>1 DEF RouteInv, BindingsLead
    <3>2. CASE t = s
      <4>1. m \in Nat /\ m + 1 \in DOMAIN box /\ todo'[s][m] = box[m + 1]
        BY <2>4, <3>2
      <4>2. /\ \E h \in games : h.shard = s /\ box[m + 1].user \in PlayersOf(h)
            /\ \E n \in DOMAIN box : n > m + 1 /\ box[n] = Tell(box[m + 1].user)
        BY <1>1, <3>2, <4>1 DEF RouteInv, BindingsLead
      <4>3. PICK n \in DOMAIN box : n > m + 1 /\ box[n] = Tell(box[m + 1].user)
        BY <4>2
      <4>4. n \in Nat /\ n # 1 /\ n - 1 > m
        BY <2>2, <4>1, <4>3
      <4>5. n - 1 \in DOMAIN todo'[s] /\ todo'[s][n - 1] = box[n]
        BY <2>4, <4>4
      <4> QED
        BY <3>2, <4>1, <4>2, <4>3, <4>4, <4>5
    <3> QED
      BY <3>1, <3>2
  <2>7. HomeIsRight'
    <3> SUFFICES ASSUME NEW g \in games, NEW v \in PlayersOf(g), v \notin rehomed
                 PROVE  home'[v] = g.shard \/ Binding(v, g.shard)'
      BY <2>1 DEF HomeIsRight, Binding, Bind, PlayersOf
    <3>1. v \in Users /\ g.shard \in Shards
      BY <1>2
    <3>2. home[v] = g.shard \/ Binding(v, g.shard)
      BY <1>1 DEF RouteInv, HomeIsRight
    <3>3. CASE Head(box).op = "bind" /\ Head(box).user = v
      <4>1. PICK h \in games : h.shard = s /\ box[1].user \in PlayersOf(h)
        BY <1>1, <2>2, <2>4, <3>3 DEF RouteInv, BindingsLead
      <4>2. h = g
        BY <1>1, <2>2, <3>1, <3>3, <4>1 DEF RouteInv, OneGame
      <4>3. home'[v] = s
        BY <1>1, <2>1, <3>1, <3>3 DEF TypeOK
      <4> QED
        BY <4>1, <4>2, <4>3
    <3>4. CASE ~ (Head(box).op = "bind" /\ Head(box).user = v)
      <4>1. home'[v] = home[v]
        BY <1>1, <2>1, <3>1, <3>4 DEF TypeOK
      <4>2. Binding(v, g.shard) => Binding(v, g.shard)'
        <5>1. CASE g.shard # s
          BY <2>3, <3>1, <5>1 DEF Binding, Bind
        <5>2. ASSUME g.shard = s, NEW m \in DOMAIN box, box[m] = Bind(v)
              PROVE  Binding(v, s)'
          <6>1. m # 1
            BY <2>2, <3>4, <5>2 DEF Bind
          <6> QED
            BY <2>4, <5>2, <6>1 DEF Binding, Bind
        <5> QED
          BY <5>1, <5>2 DEF Binding
      <4> QED
        BY <3>2, <4>1, <4>2
    <3> QED
      BY <3>3, <3>4
  <2> QED
    BY <2>5, <2>6, <2>7 DEF RouteInv
<1>6. CASE Restart(s)
  <2>1. /\ inbox' = [inbox EXCEPT ![s] = << >>] /\ todo' = [todo EXCEPT ![s] = << >>]
        /\ inRoom' = [inRoom EXCEPT ![s] = {}] /\ games' = {g \in games : g.shard # s}
        /\ UNCHANGED <<home, rehomed>>
    BY <1>6 DEF Restart
  <2>2. InboxesAgree'
    BY <1>1, <2>1, ClearedMatches DEF RouteInv
  <2>3. /\ DOMAIN << >> = {}
        /\ \A t \in Shards : inRoom'[t] = IF t = s THEN {} ELSE inRoom[t]
        /\ \A t \in Shards : todo'[t] = IF t = s THEN << >> ELSE todo[t]
    BY <1>1, <2>1 DEF TypeOK
  <2>4. GamesAreRooms' /\ OneGame'
    BY <1>1, <1>2, <2>1, <2>3 DEF RouteInv, GamesAreRooms, OneGame, PlayersOf
  <2>5. HomeIsRight'
    <3> SUFFICES ASSUME NEW g \in games, g.shard # s, NEW v \in PlayersOf(g), v \notin rehomed
                 PROVE  home[v] = g.shard \/ Binding(v, g.shard)'
      BY <2>1 DEF HomeIsRight, Binding, Bind, PlayersOf
    <3>1. home[v] = g.shard \/ Binding(v, g.shard)
      BY <1>1 DEF RouteInv, HomeIsRight
    <3> QED
      BY <1>2, <2>3, <3>1 DEF Binding, Bind
  <2>6. BindingsLead'
    <3> SUFFICES ASSUME NEW t \in Shards, NEW m \in DOMAIN todo'[t], todo'[t][m].op = "bind"
                 PROVE  /\ \E h \in games' : h.shard = t /\ todo'[t][m].user \in PlayersOf(h)
                        /\ \E n \in DOMAIN todo'[t] : n > m /\ todo'[t][n] = Tell(todo'[t][m].user)
      BY DEF BindingsLead, PlayersOf, Tell
    <3>1. t # s
      BY <2>3
    <3> QED
      BY <1>1, <2>1, <2>3, <3>1 DEF RouteInv, BindingsLead
  <2> QED
    BY <2>2, <2>4, <2>5, <2>6 DEF RouteInv
<1> QED
  BY <1>3, <1>4, <1>5, <1>6 DEF Shard

\* The directory forgets the players of one game, who are in no other.
LEMMA FinishKeepsRoutes ==
  ASSUME SplitInv, NEW game \in games, FinishGame(game)
  PROVE  RouteInv'
<1>1. TypeOK /\ RouteInv
  BY DEF SplitInv, WorkerInv
<1>2. /\ games' = games \ {game} /\ todo[game.shard] = << >>
      /\ home' = [u \in Users |-> IF u \in PlayersOf(game) THEN NoShard ELSE home[u]]
      /\ UNCHANGED <<inbox, todo, inRoom, rehomed>>
  BY DEF FinishGame
<1>3. GamesAreRooms' /\ OneGame' /\ InboxesAgree'
  BY <1>1, <1>2 DEF RouteInv, GamesAreRooms, OneGame, InboxesAgree, PlayersOf
<1>4. HomeIsRight'
  <2> SUFFICES ASSUME NEW g \in games, g # game, NEW v \in PlayersOf(g), v \notin rehomed
               PROVE  home'[v] = g.shard \/ Binding(v, g.shard)
    BY <1>2 DEF HomeIsRight, Binding, Bind, PlayersOf
  <2>1. v \in Users
    BY <1>1 DEF TypeOK, Game, PlayersOf
  <2>2. v \notin PlayersOf(game)
    BY <1>1, <2>1 DEF RouteInv, OneGame
  <2>3. home'[v] = home[v]
    BY <1>2, <2>1, <2>2
  <2> QED
    BY <1>1, <2>3 DEF RouteInv, HomeIsRight
<1>5. BindingsLead'
  <2> SUFFICES ASSUME NEW t \in Shards, NEW m \in DOMAIN todo[t], todo[t][m].op = "bind"
               PROVE  /\ \E h \in games' : h.shard = t /\ todo[t][m].user \in PlayersOf(h)
                      /\ \E n \in DOMAIN todo[t] : n > m /\ todo[t][n] = Tell(todo[t][m].user)
    BY <1>2 DEF BindingsLead, PlayersOf, Tell
  <2>1. DOMAIN << >> = {}
    OBVIOUS
  <2>2. t # game.shard
    BY <1>2, <2>1
  <2> QED
    BY <1>1, <1>2, <2>2 DEF RouteInv, BindingsLead
<1> QED
  BY <1>3, <1>4, <1>5 DEF RouteInv

-----------------------------------------------------------------------------
LEMMA SplitInitially == Init => SplitInv
<1> SUFFICES ASSUME Init PROVE SplitInv
  OBVIOUS
<1>1. << >> \in Seq(Entry) /\ << >> \in Seq(Match) /\ << >> \in Seq(Command) /\ Len(<< >>) = 0 /\ DOMAIN << >> = {}
  BY EmptySeq
<1>2. TypeOK
  BY <1>1, MatchmakerAssumption DEF Init, TypeOK
<1>3. WorkerInv
  BY <1>2 DEF Init, WorkerInv, OnePerUser
<1>4. \A v : ~ Queued(v) /\ ~ Ahead(v)
  BY <1>1 DEF Init, Queued, Ahead
<1>5. UserInv
  BY <1>4 DEF Init, UserInv, DueInv, WaitInv
<1>6. RouteInv
  BY <1>1 DEF Init, RouteInv, GamesAreRooms, OneGame, HomeIsRight, BindingsLead, InboxesAgree
<1> QED
  BY <1>3, <1>5, <1>6 DEF SplitInv

LEMMA SplitPreserved == SplitInv /\ [Next]_vars => SplitInv'
<1> SUFFICES ASSUME SplitInv, [Next]_vars PROVE SplitInv'
  OBVIOUS
<1>1. WorkerInv' /\ TypeOK
  BY WorkerPreserved DEF SplitInv, WorkerInv
<1>2. CASE UNCHANGED vars
  <2>1. UNCHANGED <<queue, items, index, used, notices, found, inbox, todo, waiting, due, lost, inRoom, games,
                    home, rehomed>>
    BY <1>2 DEF vars, workerVars, shardVars, userVars
  <2>2. UserInv'
    BY <2>1, AnsweredFrame, ListsFrame DEF SplitInv, UserInv, DueInv, WaitInv
  <2> QED
    BY <1>1, <2>1, <2>2, RouteFrame DEF SplitInv
<1>3. ASSUME Next PROVE UserInv' /\ RouteInv'
  <2>1. ASSUME NEW u \in Users, Play(u) \/ CancelPlay(u) \/ Listeners(u) PROVE UserInv' /\ RouteInv'
    <3>1. UNCHANGED <<inbox, todo, inRoom, games, home, rehomed>>
      BY <2>1 DEF Play, CancelPlay, Listeners, TellTimeout, TellFound, shardVars
    <3> QED
      BY <2>1, <3>1, RequestsKeepUsers, RouteFrame DEF SplitInv
  <2>2. ASSUME \/ \E u \in Users, s \in Shards : CreateRoom(u, s)
               \/ \E u \in Users, game \in games : JoinRoom(u, game)
        PROVE  UserInv' /\ RouteInv'
    <3>1. \E u \in Users, s \in Shards : Enter(u, s)
      BY <1>1, <2>2 DEF CreateRoom, JoinRoom, TypeOK, Game
    <3> QED
      BY <2>2, <3>1, ShardsKeepUsers, RoomsKeepRoutes
  <2>3. ASSUME Worker \/ \E n \in DOMAIN queue : GrowOld(n) PROVE UserInv' /\ RouteInv'
    <3>1. UNCHANGED <<todo, inRoom, games, home, rehomed>>
      BY <2>3 DEF Worker, StartExpire, StartMatch, TakeSnapshot, ReadRatings, ExpireEntry, SkipEntry, PublishMatch,
         ExpireDone, MatchDone, EndPass, GrowOld, shardVars
    <3>2. InboxesAgree'
      <4>1. CASE \E s \in Shards : PublishMatch(s)
        <5>1. PICK s \in Shards : PublishMatch(s)
          BY <4>1
        <5> DEFINE game == [shard |-> s, white |-> Seeker, black |-> items[Min(Candidates)].user]
        <5>2. /\ index \in DOMAIN items /\ Candidates # {} /\ inbox' = [inbox EXCEPT ![s] = Append(@, game)]
              /\ game.shard = s
          BY <5>1 DEF PublishMatch, AtEntry
        <5>3. game \in Match
          BY <5>2, CandidatesAreAhead DEF SplitInv
        <5> HIDE DEF game
        <5> QED
          BY <1>1, <5>2, <5>3, PublishedMatch DEF SplitInv, RouteInv
      <4>2. CASE UNCHANGED inbox
        BY <4>2 DEF SplitInv, RouteInv, InboxesAgree
      <4> QED
        BY <2>3, <4>1, <4>2 DEF Worker, StartExpire, StartMatch, TakeSnapshot, ReadRatings, ExpireEntry, SkipEntry,
           ExpireDone, MatchDone, EndPass, GrowOld, shardVars
    <3>3. RouteInv'
      BY <3>1, <3>2 DEF SplitInv, RouteInv, GamesAreRooms, OneGame, HomeIsRight, BindingsLead, Binding, Bind, Tell,
         PlayersOf
    <3> QED
      BY <2>3, <3>3, WorkerKeepsUsers
  <2>4. ASSUME NEW s \in Shards, Shard(s) \/ Restart(s) PROVE UserInv' /\ RouteInv'
    BY <2>4, ShardsKeepUsers, ShardsKeepRoutes
  <2>5. ASSUME NEW game \in games, FinishGame(game) PROVE UserInv' /\ RouteInv'
    BY <2>5, ShardsKeepUsers, FinishKeepsRoutes
  <2> QED
    BY <1>3, <2>1, <2>2, <2>3, <2>4, <2>5 DEF Next
<1> QED
  BY <1>1, <1>2, <1>3 DEF SplitInv

LEMMA SplitIsKept == Spec => []SplitInv
  BY SplitInitially, SplitPreserved, PTL DEF Spec

\* Whatever users press and whatever shards restart, between any two commands to Redis:
\* who waits has an entry, an answer on its way, a match that was refused or lost in a
\* restart, or an entry the worker removed after he had pressed Play again.
THEOREM NobodyIsForgotten == Spec => []WaitingIsSomewhere
<1>1. SplitInv => WaitingIsSomewhere
  BY DEF SplitInv, UserInv, WaitInv, WaitingIsSomewhere
<1> QED
  BY SplitIsKept, <1>1, PTL

\* The worker publishes no second answer to a user who has not pressed Play since the
\* first, in one pass or in two, whatever he cancelled in between.
THEOREM OneAnswerEach == Spec => OneAnswerPerPlay
<1>1. ASSUME SplitInv, [Next]_vars, NEW u \in Users, Publishes(u) PROVE u \in due
  <2>1. TypeOK /\ WorkerInv /\ DueInv(u)
    BY <1>1 DEF SplitInv, WorkerInv, UserInv
  <2>2. /\ notices[u] \in Nat
        /\ \A s \in Shards : inbox[s] \in Seq(Match) /\ Len(inbox[s]) \in Nat
    BY <2>1, LenProperties DEF TypeOK
  <2>3. CASE ExpireEntry
    <3> DEFINE w == items[index].user
    <3>1. /\ pc = "expire" /\ index \in DOMAIN items /\ UNCHANGED inbox
          /\ notices' = [notices EXCEPT ![w] = @ + 1] \/ notices' = notices
      BY <2>3 DEF ExpireEntry, AtEntry, shardVars
    <3>2. w \in Users /\ index \in index .. Len(items)
      BY <2>1, <3>1, ListUsers
    <3> HIDE DEF w
    <3>3. u = w
      BY <1>1, <2>1, <2>2, <3>1, <3>2 DEF Publishes, TypeOK
    <3>4. w \notin used /\ Ahead(w)
      BY <2>1, <3>1, <3>2 DEF WorkerInv, Ahead, w
    <3> QED
      BY <2>1, <3>3, <3>4 DEF DueInv
  <2>4. ASSUME NEW s \in Shards, PublishMatch(s) PROVE u \in due
    <3> DEFINE game == [shard |-> s, white |-> Seeker, black |-> items[Min(Candidates)].user]
    <3>1. /\ index \in DOMAIN items /\ Candidates # {} /\ UNCHANGED notices
          /\ inbox' = [inbox EXCEPT ![s] = Append(@, game)]
      BY <2>4 DEF PublishMatch, AtEntry, userVars
    <3>2. game \in Match /\ \A v \in PlayersOf(game) : Ahead(v) /\ v \notin used
      BY <2>1, <3>1, CandidatesAreAhead
    <3> HIDE DEF game
    <3>3. \A t \in Shards : Len(inbox'[t]) > Len(inbox[t]) => inbox'[t][Len(inbox'[t])] = game
      BY <2>1, <3>1, <3>2, PublishedMatch
    <3>4. ~ (notices'[u] > notices[u])
      BY <2>2, <3>1
    <3>5. u \in PlayersOf(game)
      BY <1>1, <3>3, <3>4 DEF Publishes, Last, PlayersOf
    <3> QED
      BY <2>1, <3>2, <3>5 DEF DueInv
  <2>5. ASSUME notices'[u] = notices[u] \/ notices'[u] = notices[u] - 1,
               \A t \in Shards : ~ (Len(inbox'[t]) > Len(inbox[t]))
        PROVE  FALSE
    BY <1>1, <2>2, <2>5 DEF Publishes
  <2>6. CASE UNCHANGED <<inbox, notices>>
    BY <2>2, <2>5, <2>6
  <2>7. ASSUME NEW v \in Users, TellTimeout(v) PROVE FALSE
    <3>1. notices' = [notices EXCEPT ![v] = @ - 1] /\ UNCHANGED inbox
      BY <2>7 DEF TellTimeout, shardVars
    <3> QED
      BY <2>1, <2>2, <2>5, <3>1 DEF TypeOK
  <2>8. ASSUME NEW s \in Shards, TakeMatch(s) PROVE \A t \in Shards : ~ (Len(inbox'[t]) > Len(inbox[t]))
    BY <2>1, <2>8, TakenMatch DEF TakeMatch
  <2>9. ASSUME NEW s \in Shards, CreateMatch(s) \/ RefuseMatch(s) PROVE FALSE
    BY <2>5, <2>8, <2>9 DEF CreateMatch, RefuseMatch, userVars
  <2>10. ASSUME NEW s \in Shards, Restart(s) PROVE FALSE
    BY <2>1, <2>5, <2>10, ClearedMatches DEF Restart, userVars
  <2>11. ASSUME \/ \E v \in Users : Play(v) \/ CancelPlay(v) \/ TellFound(v)
                \/ \E v \in Users, s \in Shards : CreateRoom(v, s)
                \/ \E v \in Users, game \in games : JoinRoom(v, game)
                \/ \E n \in DOMAIN queue : GrowOld(n)
                \/ StartExpire \/ ExpireDone \/ StartMatch \/ ReadRatings \/ SkipEntry \/ MatchDone
                \/ \E s \in Shards : SendCommand(s)
                \/ \E game \in games : FinishGame(game)
                \/ UNCHANGED vars
         PROVE  UNCHANGED <<inbox, notices>>
    BY <2>11 DEF Play, CancelPlay, TellFound, CreateRoom, JoinRoom, Enter, GrowOld, StartExpire, ExpireDone,
       StartMatch, ReadRatings, SkipEntry, MatchDone, TakeSnapshot, EndPass, SendCommand, FinishGame, vars,
       shardVars, userVars
  <2> QED
    BY <1>1, <2>3, <2>4, <2>6, <2>7, <2>9, <2>10, <2>11 DEF Next, Worker, Shard, Listeners
<1>2. SplitInv /\ [Next]_vars => \A u \in Users : Publishes(u) => u \in due
  BY <1>1
<1>3. SplitInv /\ [Next]_vars => [\A u \in Users : Publishes(u) => u \in due]_vars
  BY <1>2
<1> QED
  BY SplitIsKept, <1>3, PTL DEF Spec, OneAnswerPerPlay

\* By the time a player is told of his room the directory leads him to its shard, while
\* the gateway may read between any two of the shard's commands and when shards restart.
THEOREM PlayersAreRouted == Spec => []PlayerIsRouted
<1>1. ASSUME SplitInv, NEW game \in games, NEW u \in PlayersOf(game) \ rehomed
      PROVE  home[u] = game.shard \/ Tell(u) \in ToSet(todo[game.shard])
  <2>1. game.shard \in Shards
    BY <1>1 DEF SplitInv, WorkerInv, TypeOK, Game
  <2>2. CASE home[u] = game.shard
    BY <2>2
  <2>3. ASSUME NEW m \in DOMAIN todo[game.shard], todo[game.shard][m] = Bind(u)
        PROVE  Tell(u) \in ToSet(todo[game.shard])
    <3>1. todo[game.shard][m].op = "bind" /\ todo[game.shard][m].user = u
      BY <2>3 DEF Bind
    <3>2. \E n \in DOMAIN todo[game.shard] : todo[game.shard][n] = Tell(u)
      BY <1>1, <2>1, <2>3, <3>1 DEF SplitInv, RouteInv, BindingsLead
    <3> QED
      BY <3>2 DEF ToSet
  <2> QED
    BY <1>1, <2>2, <2>3 DEF SplitInv, RouteInv, HomeIsRight, Binding
<1>2. SplitInv => PlayerIsRouted
  BY <1>1 DEF PlayerIsRouted
<1> QED
  BY SplitIsKept, <1>2, PTL
=============================================================================
