-------------------------- MODULE MatchmakingProofs --------------------------
(***************************************************************************)
(* The play queue of the one-process server, for any numbers of users,     *)
(* ratings and rooms.                                                      *)
(*                                                                         *)
(* Wherever requests come in, the list, the list the expiry pass walks     *)
(* over and the list of what it keeps have one entry per user each, since  *)
(* what is kept was passed already (KeptWasPassed); and nothing that is    *)
(* kept is old.  Whoever is in a room and in a list is a stray, or was     *)
(* matched by the running pass, which does not look at him again           *)
(* (ListedAreStrays), so only a stray makes a match raise.  If no send     *)
(* suspends the loop and queued users stay out of rooms, the lists and the *)
(* users' windows agree entry by entry (EntriesWait).                      *)
(***************************************************************************)
EXTENDS Matchmaking, RoomsProofs, SequenceTheorems

OnePerUser(q) == \A m, n \in DOMAIN q : q[m].user = q[n].user => m = n

Expiring == pc \in {"expire", "sending_timeout"}

\* The iteration sees the list object itself only while nobody replaced it.
SharedIsQueue == shared => Expiring /\ items = queue

KeptWasPassed ==
  \A n \in DOMAIN still :
    /\ ~ still[n].old
    /\ \E m \in DOMAIN items : m < index /\ items[m].user = still[n].user

ListsAreEmpty == ~ Expiring => items = << >> /\ still = << >>

QueueInv ==
  /\ RoomsInv /\ TypeOK
  /\ index >= 1
  /\ OnePerUser(queue) /\ OnePerUser(items) /\ OnePerUser(still)
  /\ SharedIsQueue /\ KeptWasPassed /\ ListsAreEmpty
  /\ OldEntriesLeave

-----------------------------------------------------------------------------
\* The lists.

\* What remains of a list has the entries of the other users, each once.
LEMMA RemainingEntries ==
  ASSUME NEW seq \in Seq(Entry), NEW us, NEW q \in Remaining(seq, us)
  PROVE  /\ q \in Seq(Entry)
         /\ \A i \in DOMAIN q : \E n \in DOMAIN seq : q[i] = seq[n] /\ seq[n].user \notin us
         /\ \A n \in DOMAIN seq : seq[n].user \notin us => \E i \in DOMAIN q : q[i] = seq[n]
         /\ OnePerUser(seq) => OnePerUser(q)
<1> DEFINE N == {n \in DOMAIN seq : seq[n].user \notin us}
<1>1. PICK f \in InOrder(N) : q = [i \in DOMAIN f |-> seq[f[i]]]
  BY DEF Remaining
<1>2. IsFiniteSet(N) /\ Cardinality(N) \in Nat
  <2>1. DOMAIN seq = 1 .. Len(seq) /\ Len(seq) \in Nat
    BY LenProperties
  <2>2. IsFiniteSet(DOMAIN seq) /\ N \in SUBSET DOMAIN seq
    BY <2>1, FS_Interval
  <2>3. IsFiniteSet(N)
    BY <2>2, FS_Subset
  <2>4. Cardinality(N) \in Nat
    BY <2>3, FS_CardinalityType
  <2> QED
    BY <2>1, <2>2, <2>3, <2>4
<1>3. /\ f \in [1 .. Cardinality(N) -> N]
      /\ \A i, j \in DOMAIN f : f[i] = f[j] => i = j
      /\ \A n \in N : \E i \in DOMAIN f : f[i] = n
  BY <1>1 DEF InOrder, Bijection, Injection, Surjection, IsInjective
<1> HIDE DEF N
<1>4. \A i \in DOMAIN f : f[i] \in N /\ q[i] = seq[f[i]]
  BY <1>1, <1>3
<1>5. \A n \in N : n \in DOMAIN seq /\ seq[n].user \notin us /\ seq[n] \in Entry
  BY ElementOfSeq, LenProperties DEF N
<1>6. q \in [1 .. Cardinality(N) -> Entry] /\ DOMAIN q = DOMAIN f
  BY <1>1, <1>3, <1>4, <1>5
<1>7. q \in Seq(Entry)
  BY <1>2, <1>6
<1>8. \A i \in DOMAIN q : \E n \in DOMAIN seq : q[i] = seq[n] /\ seq[n].user \notin us
  BY <1>4, <1>5, <1>6
<1>9. \A n \in N : \E i \in DOMAIN q : q[i] = seq[n]
  BY <1>3, <1>4, <1>6
<1>10. OnePerUser(seq) => OnePerUser(q)
  BY <1>3, <1>4, <1>5, <1>6 DEF OnePerUser
<1> QED
  BY <1>7, <1>8, <1>9, <1>10 DEF N

\* There is such a list: the entry at position n goes to as many places from the
\* front as there are remaining entries up to it.
LEMMA RemainingExists ==
  ASSUME NEW seq \in Seq(Entry), NEW us
  PROVE  Remaining(seq, us) # {}
<1> DEFINE N == {n \in DOMAIN seq : seq[n].user \notin us}
           UpTo(n) == {m \in N : m <= n}
           k == Cardinality(N)
           rank == [n \in N |-> Cardinality(UpTo(n))]
<1>1. IsFiniteSet(N) /\ k \in Nat /\ \A n \in N : n \in Nat
  <2>1. DOMAIN seq = 1 .. Len(seq) /\ Len(seq) \in Nat
    BY LenProperties
  <2>2. IsFiniteSet(DOMAIN seq) /\ N \in SUBSET DOMAIN seq
    BY <2>1, FS_Interval
  <2>3. IsFiniteSet(N)
    BY <2>2, FS_Subset
  <2>4. Cardinality(N) \in Nat
    BY <2>3, FS_CardinalityType
  <2> QED
    BY <2>1, <2>2, <2>3, <2>4
<1> HIDE DEF N
<1>2. \A n \in N : IsFiniteSet(UpTo(n)) /\ n \in UpTo(n) /\ Cardinality(UpTo(n)) \in 1 .. k
  <2> TAKE n \in N
  <2>1. n \in UpTo(n) /\ UpTo(n) \subseteq N
    BY <1>1
  <2>2. IsFiniteSet(UpTo(n)) /\ Cardinality(UpTo(n)) <= k
    BY <1>1, <2>1, FS_Subset
  <2>3. Cardinality(UpTo(n)) \in Nat /\ Cardinality(UpTo(n)) # 0
    BY <2>1, <2>2, FS_CardinalityType, FS_EmptySet
  <2> QED
    BY <1>1, <2>1, <2>2, <2>3
<1>3. \A m, n \in N : m < n => rank[m] < rank[n]
  <2> SUFFICES ASSUME NEW m \in N, NEW n \in N, m < n PROVE Cardinality(UpTo(m)) < Cardinality(UpTo(n))
    OBVIOUS
  <2>1. UpTo(m) \subseteq UpTo(n) /\ n \notin UpTo(m) /\ n \in UpTo(n)
    <3>1. m \in Nat /\ n \in Nat
      BY <1>1
    <3>2. \A i \in UpTo(m) : i \in N /\ i \in Nat /\ i <= m
      BY <1>1
    <3>3. \A i \in UpTo(m) : i <= n /\ i # n
      <4> HIDE DEF UpTo
      <4> QED
        BY <3>1, <3>2
    <3>4. n \in UpTo(n)
      BY <3>1
    <3> QED
      BY <3>2, <3>3, <3>4
  <2>2. Cardinality(UpTo(m)) <= Cardinality(UpTo(n)) /\ Cardinality(UpTo(m)) # Cardinality(UpTo(n))
    BY <1>2, <2>1, FS_Subset
  <2>3. Cardinality(UpTo(m)) \in Nat /\ Cardinality(UpTo(n)) \in Nat
    BY <1>2, FS_CardinalityType
  <2> HIDE DEF UpTo
  <2> QED
    BY <2>2, <2>3
<1>4. rank \in Surjection(N, 1 .. k)
  <2>1. rank \in [N -> 1 .. k]
    BY <1>2
  <2>2. \A m, n \in N : rank[m] = rank[n] => m = n
    <3> HIDE DEF rank
    <3>1. SUFFICES ASSUME NEW m \in N, NEW n \in N, m # n PROVE rank[m] # rank[n]
      OBVIOUS
    <3>2. m \in Nat /\ n \in Nat /\ rank[m] \in 1 .. k /\ rank[n] \in 1 .. k
      BY <1>1, <2>1
    <3> QED
      BY <1>1, <1>3, <3>1, <3>2
  <2>3. rank \in Injection(N, 1 .. k)
    BY <2>1, <2>2 DEF Injection, IsInjective
  <2>4. IsFiniteSet(1 .. k) /\ Cardinality(1 .. k) = k
    BY <1>1, FS_Interval
  <2> QED
    BY <2>3, <2>4, FS_Injection
<1> DEFINE f == [i \in 1 .. k |-> CHOOSE n \in N : rank[n] = i]
<1>5. \A i \in 1 .. k : f[i] \in N /\ rank[f[i]] = i
  BY <1>4 DEF Surjection
<1>6. \A n \in N : rank[n] \in 1 .. k
  BY <1>2
<1> HIDE DEF rank, UpTo, f
<1>7. \A n \in N : f[rank[n]] = n
  <2> TAKE n \in N
  <2>1. rank[n] \in 1 .. k /\ f[rank[n]] \in N /\ rank[f[rank[n]]] = rank[n]
    BY <1>5, <1>6
  <2>2. n \in Nat /\ f[rank[n]] \in Nat /\ rank[n] \in Nat
    BY <1>1, <2>1
  <2> QED
    BY <1>1, <1>3, <2>1, <2>2
<1>8. \A i, j \in 1 .. k : i < j => f[i] < f[j]
  <2> TAKE i, j \in 1 .. k
  <2>1. /\ f[i] \in N /\ f[j] \in N /\ rank[f[i]] = i /\ rank[f[j]] = j
        /\ f[i] \in Nat /\ f[j] \in Nat /\ i \in Nat /\ j \in Nat
    BY <1>1, <1>5
  <2> QED
    BY <1>1, <1>3, <2>1
<1>9. f \in [1 .. k -> N] /\ DOMAIN f = 1 .. k
  BY <1>5 DEF f
<1>10. f \in InOrder(N)
  BY <1>5, <1>6, <1>7, <1>8, <1>9 DEF InOrder, Bijection, Injection, Surjection, IsInjective
<1> QED
  BY <1>10 DEF Remaining, N

\* What enqueue leaves.
LEMMA EnqueuedEntries ==
  ASSUME queue \in Seq(Entry), NEW u \in Users, NEW q, q = Enqueue(u)
  PROVE  /\ q \in Seq(Entry)
         /\ Len(queue) <= Len(q)
         /\ \A n \in DOMAIN queue : n \in DOMAIN q /\ q[n] = queue[n]
         /\ \A n \in DOMAIN q : n \notin DOMAIN queue => q[n].user = u /\ ~ q[n].old
         /\ \E n \in DOMAIN q : q[n].user = u
         /\ OnePerUser(queue) => OnePerUser(q)
<1>1. CASE Queued(u)
  BY <1>1, LenProperties DEF Enqueue, Queued, Has
<1>2. CASE ~ Queued(u)
  <2> DEFINE e == [user |-> u, old |-> FALSE]
  <2>1. q = Append(queue, e) /\ e \in Entry
    BY <1>2 DEF Enqueue, Entry
  <2>2. /\ q \in Seq(Entry) /\ Len(q) = Len(queue) + 1 /\ q[Len(queue) + 1] = e
        /\ \A n \in 1 .. Len(queue) : q[n] = queue[n]
    BY <2>1, AppendProperties
  <2>3. /\ DOMAIN queue = 1 .. Len(queue) /\ DOMAIN q = 1 .. Len(queue) + 1
        /\ Len(queue) \in Nat
    BY <2>2, LenProperties
  <2>4. e.user = u /\ ~ e.old
    OBVIOUS
  <2> HIDE DEF e
  <2> QED
    BY <1>2, <2>2, <2>3, <2>4 DEF Queued, Has, OnePerUser
<1> QED
  BY <1>1, <1>2

-----------------------------------------------------------------------------
\* The requests and the loop keep the lists.

\* What leaves the lists and the loop alone.
LEMMA OtherStepsKeepQueue ==
  ASSUME QueueInv, RoomsInv', UNCHANGED <<queue, pc, items, shared, still, index, used, mate>>,
         connected' \in [Users -> BOOLEAN], waiting' \in [Users -> BOOLEAN], strays' \subseteq Users
  PROVE  QueueInv'
<1>1. TypeOK'
  BY DEF QueueInv, TypeOK, RoomsInv
<1>2. OnePerUser(queue)' /\ OnePerUser(items)' /\ OnePerUser(still)' /\ OldEntriesLeave'
  BY DEF QueueInv, OnePerUser, OldEntriesLeave
<1>3. SharedIsQueue' /\ KeptWasPassed' /\ ListsAreEmpty'
  BY DEF QueueInv, SharedIsQueue, KeptWasPassed, ListsAreEmpty, Expiring
<1> QED
  BY <1>1, <1>2, <1>3 DEF QueueInv

\* An enqueued entry is young, and the running iteration finds it if it looks at
\* this list.
LEMMA PlayKeepsQueue ==
  ASSUME QueueInv, NEW u \in Users, Play(u)
  PROVE  QueueInv'
<1>1. /\ queue' = Enqueue(u) /\ items' = (IF shared THEN queue' ELSE items)
      /\ waiting' = [waiting EXCEPT ![u] = TRUE]
      /\ UNCHANGED <<members, presence, userRoom, pc, still, index, used, mate, shared, connected, strays>>
  BY DEF Play, roomVars, loopVars
<1>2. TypeOK /\ RoomsInv
  BY DEF QueueInv
<1>3. /\ queue' \in Seq(Entry)
      /\ Len(queue) <= Len(queue')
      /\ \A n \in DOMAIN queue : n \in DOMAIN queue' /\ queue'[n] = queue[n]
      /\ \A n \in DOMAIN queue' : n \notin DOMAIN queue => queue'[n].user = u /\ ~ queue'[n].old
      /\ OnePerUser(queue')
  BY <1>1, <1>2, EnqueuedEntries DEF TypeOK, QueueInv
<1>4. RoomsInv'
  BY <1>1, <1>2, OtherStepsKeepBooks DEF TypeOK, RoomsTypeOK
<1>5. shared => items = queue /\ Expiring
  BY DEF QueueInv, SharedIsQueue
<1>6. TypeOK'
  BY <1>1, <1>2, <1>3, <1>4 DEF TypeOK, RoomsInv
<1>7. OnePerUser(queue)' /\ OnePerUser(items)' /\ OnePerUser(still)'
  BY <1>1, <1>3 DEF QueueInv, OnePerUser
<1>8. SharedIsQueue' /\ ListsAreEmpty'
  BY <1>1, <1>5 DEF QueueInv, SharedIsQueue, ListsAreEmpty, Expiring
<1>9. KeptWasPassed'
  <2>1. \A m \in DOMAIN items : m \in DOMAIN items' /\ items'[m] = items[m]
    BY <1>1, <1>3, <1>5
  <2> QED
    BY <1>1, <2>1 DEF QueueInv, KeptWasPassed
<1>10. OldEntriesLeave'
  BY <1>1, <1>3 DEF QueueInv, OldEntriesLeave
<1> QED
  BY <1>1, <1>4, <1>6, <1>7, <1>8, <1>9, <1>10 DEF QueueInv

\* A user who leaves takes his entry along, and the iteration goes on over the old
\* list.
LEMMA CancelKeepsQueue ==
  ASSUME QueueInv, RoomsInv', NEW u \in Users, Cancel(u),
         UNCHANGED <<pc, items, still, index, used, mate>>,
         connected' \in [Users -> BOOLEAN], waiting' \in [Users -> BOOLEAN]
  PROVE  QueueInv'
<1>1. queue' \in Remaining(queue, {u}) /\ shared' = FALSE /\ strays' \in {strays, strays \ {u}}
  BY DEF Cancel
<1>2. /\ queue' \in Seq(Entry)
      /\ \A i \in DOMAIN queue' : \E n \in DOMAIN queue : queue'[i] = queue[n]
      /\ OnePerUser(queue')
  BY <1>1, RemainingEntries DEF QueueInv, TypeOK
<1>3. TypeOK'
  BY <1>1, <1>2 DEF QueueInv, TypeOK, RoomsInv
<1>4. OnePerUser(queue)' /\ OnePerUser(items)' /\ OnePerUser(still)'
  BY <1>2 DEF QueueInv, OnePerUser
<1>5. SharedIsQueue' /\ KeptWasPassed' /\ ListsAreEmpty'
  BY <1>1 DEF QueueInv, SharedIsQueue, KeptWasPassed, ListsAreEmpty, Expiring
<1>6. OldEntriesLeave'
  BY <1>2 DEF QueueInv, OldEntriesLeave
<1> QED
  BY <1>3, <1>4, <1>5, <1>6 DEF QueueInv

LEMMA RequestKeepsQueue ==
  ASSUME QueueInv, NEW u \in Users, Request(u)
  PROVE  QueueInv'
<1>1. TypeOK /\ RoomsInv
  BY DEF QueueInv
<1>2. CASE Play(u)
  BY <1>2, PlayKeepsQueue
<1>3. CASE CancelPlay(u)
  <2>1. RoomsInv'
    BY <1>1, <1>3, OtherStepsKeepBooks DEF CancelPlay, roomVars, TypeOK, RoomsTypeOK
  <2> QED
    BY <1>1, <1>3, <2>1, CancelKeepsQueue DEF CancelPlay, loopVars, TypeOK
<1>4. CASE EnterRoom(u)
  <2>1. RoomsInv'
    BY <1>1, <1>4, CreateRoomKeepsBooks, JoinRoomKeepsBooks DEF EnterRoom
  <2> QED
    BY <1>1, <1>4, <2>1, OtherStepsKeepQueue DEF EnterRoom, loopVars, TypeOK
<1>5. CASE ClientDisconnected(u)
  <2>1. RoomsInv'
    BY <1>1, <1>5, MarkDisconnectedKeepsBooks DEF ClientDisconnected
  <2> QED
    BY <1>1, <1>5, <2>1, CancelKeepsQueue DEF ClientDisconnected, loopVars, TypeOK
<1>6. CASE LogIn(u)
  <2>1. RoomsInv'
    BY <1>1, <1>6, ReconnectKeepsBooks DEF LogIn
  <2> QED
    BY <1>1, <1>6, <2>1, OtherStepsKeepQueue DEF LogIn, loopVars, TypeOK
<1> QED
  BY <1>2, <1>3, <1>4, <1>5, <1>6 DEF Request

\* Time passes while the loop sleeps, when no iteration looks at a list.
LEMMA TimePassesKeepsQueue ==
  ASSUME QueueInv, NEW n \in DOMAIN queue, EntryTimesOut(n)
  PROVE  QueueInv'
<1> DEFINE e == [queue[n] EXCEPT !.old = TRUE]
<1>1. /\ pc = "sleep" /\ queue' = [queue EXCEPT ![n] = e]
      /\ UNCHANGED <<members, presence, userRoom, pc, items, shared, still, index, used, mate, connected, waiting, strays>>
  BY DEF EntryTimesOut, roomVars, loopVars
<1>2. TypeOK /\ RoomsInv
  BY DEF QueueInv
<1>3. queue \in Seq(Entry) /\ n \in 1 .. Len(queue) /\ queue[n] \in Entry
  BY <1>2, LenProperties, ElementOfSeq DEF TypeOK
<1>4. e \in Entry /\ e.user = queue[n].user
  BY <1>3 DEF Entry
<1> HIDE DEF e
<1>5. /\ queue' \in Seq(Entry) /\ DOMAIN queue' = DOMAIN queue
      /\ \A m \in DOMAIN queue : queue'[m].user = queue[m].user
  BY <1>1, <1>3, <1>4, ExceptSeq, LenProperties
<1>6. RoomsInv'
  BY <1>1, <1>2, OtherStepsKeepBooks DEF TypeOK, RoomsTypeOK
<1>7. TypeOK'
  BY <1>1, <1>2, <1>5, <1>6 DEF TypeOK, RoomsInv
<1>8. OnePerUser(queue)' /\ OnePerUser(items)' /\ OnePerUser(still)'
  BY <1>1, <1>5 DEF QueueInv, OnePerUser
<1>9. SharedIsQueue' /\ KeptWasPassed' /\ ListsAreEmpty' /\ OldEntriesLeave'
  BY <1>1 DEF QueueInv, SharedIsQueue, KeptWasPassed, ListsAreEmpty, OldEntriesLeave, Expiring
<1> QED
  BY <1>1, <1>6, <1>7, <1>8, <1>9 DEF QueueInv

LEMMA KeepEntryKeepsQueue == QueueInv /\ KeepEntry => QueueInv'
<1> SUFFICES ASSUME QueueInv, KeepEntry PROVE QueueInv'
  OBVIOUS
<1> DEFINE e == items[index]
<1>1. /\ pc = "expire" /\ index \in DOMAIN items /\ ~ e.old
      /\ still' = Append(still, e) /\ index' = index + 1
      /\ UNCHANGED <<members, presence, userRoom, queue, pc, items, shared, used, mate, connected, waiting, strays>>
  BY DEF KeepEntry, roomVars
<1>2. TypeOK /\ RoomsInv /\ index \in Nat
  BY DEF QueueInv, TypeOK
<1>3. items \in Seq(Entry) /\ still \in Seq(Entry) /\ e \in Entry
  BY <1>1, <1>2, LenProperties, ElementOfSeq DEF TypeOK
<1>4. e.user = items[index].user
  OBVIOUS
<1> HIDE DEF e
<1>5. /\ still' \in Seq(Entry) /\ DOMAIN still' = 1 .. Len(still) + 1 /\ DOMAIN still = 1 .. Len(still)
      /\ Len(still) \in Nat
      /\ \A n \in DOMAIN still : still'[n] = still[n]
      /\ still'[Len(still) + 1] = e
  BY <1>1, <1>3, AppendProperties, LenProperties
<1>6. \A n \in DOMAIN still' : n \in DOMAIN still \/ n = Len(still) + 1
  BY <1>5
<1>7. RoomsInv'
  BY <1>1, <1>2, OtherStepsKeepBooks DEF TypeOK, RoomsTypeOK
<1>8. TypeOK' /\ index' >= 1
  BY <1>1, <1>2, <1>5, <1>7 DEF TypeOK, RoomsInv, QueueInv
<1>9. \A n \in DOMAIN still : \E m \in DOMAIN items : m < index /\ items[m].user = still[n].user
  BY DEF QueueInv, KeptWasPassed
<1>10. \A n \in DOMAIN still : still[n].user # e.user
  BY <1>1, <1>2, <1>4, <1>9 DEF QueueInv, OnePerUser
<1>11. OnePerUser(queue)' /\ OnePerUser(items)' /\ OnePerUser(still)'
  BY <1>1, <1>5, <1>6, <1>10 DEF QueueInv, OnePerUser
<1>12. KeptWasPassed'
  <2>1. ASSUME NEW n \in DOMAIN still
        PROVE  ~ still'[n].old /\ \E m \in DOMAIN items : m < index + 1 /\ items[m].user = still'[n].user
    <3>1. PICK m \in DOMAIN items : m < index /\ items[m].user = still[n].user
      BY <1>9
    <3>2. m \in Nat
      BY <1>3, LenProperties
    <3> QED
      BY <1>2, <1>5, <3>1, <3>2 DEF QueueInv, KeptWasPassed
  <2>2. index < index + 1
    BY <1>2
  <2> QED
    BY <1>1, <1>4, <1>5, <1>6, <2>1, <2>2 DEF KeptWasPassed
<1>13. SharedIsQueue' /\ ListsAreEmpty' /\ OldEntriesLeave'
  BY <1>1 DEF QueueInv, SharedIsQueue, ListsAreEmpty, OldEntriesLeave, Expiring
<1> QED
  BY <1>7, <1>8, <1>11, <1>12, <1>13 DEF QueueInv

\* A match is of two users, since the opponent's entry is a later one.
LEMMA CandidatesAreLater ==
  ASSUME QueueInv, index \in DOMAIN queue, Candidates # {}
  PROVE  /\ Min(Candidates) \in Candidates /\ Min(Candidates) \in DOMAIN queue
         /\ Seeker \in Users /\ Opponent \in Users /\ Seeker # Opponent
         /\ Seeker \notin used /\ Opponent \notin used
<1>1. queue \in Seq(Entry) /\ index \in Nat
  BY DEF QueueInv, TypeOK
<1>2. DOMAIN queue = 1 .. Len(queue) /\ Len(queue) \in Nat /\ \A n \in DOMAIN queue : queue[n].user \in Users
  <2>1. \A n \in 1 .. Len(queue) : queue[n] \in Entry
    BY <1>1, ElementOfSeq
  <2> QED
    BY <1>1, <2>1, LenProperties DEF Entry
<1>3. /\ Seeker \notin used
      /\ Candidates \subseteq index + 1 .. Len(queue)
      /\ \A n \in Candidates : queue[n].user \notin used
  BY DEF Candidates
<1>4. Candidates \subseteq Nat /\ \A n \in Candidates : n \in DOMAIN queue /\ n # index
  BY <1>1, <1>2, <1>3
<1>5. Min(Candidates) \in Candidates
  <2> DEFINE R == {p \in Nat \X Nat : p[1] < p[2]}
  <2>1. IsWellFoundedOn(R, Nat)
    BY NatLessThanWellFounded, Zenon DEF OpToRel
  <2> HIDE DEF R
  <2>2. PICK x \in Candidates : \A y \in Candidates : <<y, x>> \notin R
    BY <1>4, <2>1, WFMin
  <2>3. \A y \in Candidates : x <= y
    <3> TAKE y \in Candidates
    <3>1. x \in Nat /\ y \in Nat
      BY <1>4
    <3>2. ~ (y < x)
      BY <2>2, <3>1 DEF R
    <3> QED
      BY <3>1, <3>2
  <2> QED
    BY <2>2, <2>3 DEF Min
<1>6. queue[index].user # queue[Min(Candidates)].user
  BY <1>4, <1>5 DEF QueueInv, OnePerUser
<1> QED
  BY <1>2, <1>3, <1>4, <1>5, <1>6 DEF Seeker, Opponent

LEMMA MatchFoundKeepsQueue == QueueInv /\ MatchFound => QueueInv'
<1> SUFFICES ASSUME QueueInv, MatchFound PROVE QueueInv'
  OBVIOUS
<1>1. /\ pc = "match" /\ pc' = "told_white" /\ CreateMatchedRoom(Seeker, Opponent)
      /\ used' = used \cup {Seeker, Opponent} /\ mate' = {Opponent}
      /\ waiting' = [waiting EXCEPT ![Seeker] = FALSE]
      /\ UNCHANGED <<queue, items, shared, still, index, connected, strays>>
  BY DEF MatchFound, Told
<1>2. Seeker \in Users /\ Opponent \in Users /\ Seeker # Opponent
  BY CandidatesAreLater DEF MatchFound
<1>3. RoomsInv'
  BY <1>1, <1>2, CreateMatchedRoomKeepsBooks DEF QueueInv
<1>4. TypeOK'
  BY <1>1, <1>2, <1>3 DEF QueueInv, TypeOK, RoomsInv
<1>5. OnePerUser(queue)' /\ OnePerUser(items)' /\ OnePerUser(still)'
  BY <1>1 DEF QueueInv, OnePerUser
<1>6. SharedIsQueue' /\ KeptWasPassed' /\ ListsAreEmpty' /\ OldEntriesLeave'
  BY <1>1 DEF QueueInv, SharedIsQueue, KeptWasPassed, ListsAreEmpty, OldEntriesLeave, Expiring
<1> QED
  BY <1>1, <1>3, <1>4, <1>5, <1>6 DEF QueueInv

LEMMA LoopKeepsQueue == QueueInv /\ Loop => QueueInv'
<1> SUFFICES ASSUME QueueInv, Loop PROVE QueueInv'
  OBVIOUS
<1>1. TypeOK /\ RoomsInv
  BY DEF QueueInv
<1>2. ASSUME UNCHANGED roomVars PROVE RoomsInv'
  BY <1>1, <1>2, OtherStepsKeepBooks DEF roomVars, TypeOK, RoomsTypeOK
<1>3. << >> \in Seq(Entry) /\ OnePerUser(<< >>)
  BY EmptySeq DEF OnePerUser
<1>4. CASE StartTick
  <2>1. TypeOK'
    BY <1>1, <1>2, <1>3, <1>4 DEF StartTick, TypeOK, RoomsInv, roomVars
  <2>2. OnePerUser(queue)' /\ OnePerUser(items)' /\ OnePerUser(still)'
    BY <1>3, <1>4 DEF StartTick, QueueInv, OnePerUser
  <2>3. SharedIsQueue' /\ KeptWasPassed' /\ ListsAreEmpty' /\ OldEntriesLeave'
    BY <1>4 DEF StartTick, SharedIsQueue, KeptWasPassed, ListsAreEmpty, OldEntriesLeave, Expiring
  <2> QED
    BY <1>2, <1>4, <2>1, <2>2, <2>3 DEF StartTick, QueueInv
<1>5. CASE KeepEntry
  BY <1>5, KeepEntryKeepsQueue
<1>6. CASE SendTimeout
  <2>1. TypeOK'
    BY <1>1, <1>2, <1>6 DEF SendTimeout, Told, TypeOK, RoomsInv, roomVars
  <2>2. SharedIsQueue' /\ KeptWasPassed' /\ ListsAreEmpty' /\ OldEntriesLeave'
    BY <1>6 DEF SendTimeout, QueueInv, SharedIsQueue, KeptWasPassed, ListsAreEmpty, OldEntriesLeave, Expiring
  <2> QED
    BY <1>2, <1>6, <2>1, <2>2 DEF SendTimeout, QueueInv, OnePerUser
<1>7. CASE TimeoutSent
  <2>1. TypeOK' /\ index' = index + 1 /\ index \in Nat
    BY <1>1, <1>2, <1>7 DEF TimeoutSent, TypeOK, RoomsInv, roomVars
  <2>2. KeptWasPassed'
    <3>1. \A m \in DOMAIN items : m \in Nat
      BY <1>1, LenProperties DEF TypeOK
    <3> QED
      BY <1>7, <2>1, <3>1 DEF TimeoutSent, QueueInv, KeptWasPassed
  <2>3. SharedIsQueue' /\ ListsAreEmpty' /\ OldEntriesLeave' /\ index' >= 1
    BY <1>7, <2>1 DEF TimeoutSent, QueueInv, SharedIsQueue, ListsAreEmpty, OldEntriesLeave, Expiring
  <2> QED
    BY <1>2, <1>7, <2>1, <2>2, <2>3 DEF TimeoutSent, QueueInv, OnePerUser
<1>8. CASE ExpireDone
  <2>1. TypeOK'
    BY <1>1, <1>2, <1>3, <1>8 DEF ExpireDone, TypeOK, RoomsInv, roomVars
  <2>2. OnePerUser(queue)' /\ OnePerUser(items)' /\ OnePerUser(still)'
    BY <1>3, <1>8 DEF ExpireDone, QueueInv, OnePerUser
  <2>3. SharedIsQueue' /\ KeptWasPassed' /\ ListsAreEmpty'
    BY <1>8 DEF ExpireDone, SharedIsQueue, KeptWasPassed, ListsAreEmpty, Expiring
  <2>4. OldEntriesLeave'
    BY <1>8 DEF ExpireDone, QueueInv, KeptWasPassed, OldEntriesLeave
  <2> QED
    BY <1>2, <1>8, <2>1, <2>2, <2>3, <2>4 DEF ExpireDone, QueueInv
<1>9. CASE MatchFound
  BY <1>9, MatchFoundKeepsQueue
<1>10. CASE NobodyNear \/ MatchRaises \/ TellBlack \/ MatchSent \/ TickGames
  <2>1. /\ UNCHANGED <<roomVars, queue, items, shared, still, used, connected>>
        /\ ~ Expiring /\ ~ Expiring' /\ index' \in {index, index + 1}
        /\ pc' \in {"match", "told_black", "games", "sleep"}
        /\ waiting' \in [Users -> BOOLEAN] /\ mate' \in {mate, {}} /\ strays' \in {strays, strays \cup used}
        /\ pc = "sleep" => pc' = "sleep"
    BY <1>1, <1>10 DEF NobodyNear, MatchRaises, TellBlack, MatchSent, TickGames, Expiring, Told, TypeOK
  <2>2. TypeOK' /\ index' >= 1
    BY <1>1, <1>2, <2>1 DEF TypeOK, RoomsInv, QueueInv
  <2>3. OnePerUser(queue)' /\ OnePerUser(items)' /\ OnePerUser(still)'
    BY <2>1 DEF QueueInv, OnePerUser
  <2>4. SharedIsQueue' /\ KeptWasPassed' /\ ListsAreEmpty'
    BY <2>1 DEF QueueInv, SharedIsQueue, KeptWasPassed, ListsAreEmpty
  <2>5. OldEntriesLeave'
    BY <1>10, <2>1 DEF QueueInv, OldEntriesLeave, NobodyNear, MatchRaises, TellBlack, MatchSent, TickGames
  <2> QED
    BY <1>2, <2>1, <2>2, <2>3, <2>4, <2>5 DEF QueueInv
<1>11. CASE MatchDone
  <2>1. /\ queue' \in Seq(Entry) /\ OnePerUser(queue')
        /\ \A i \in DOMAIN queue' : \E n \in DOMAIN queue : queue'[i] = queue[n]
    BY <1>11, RemainingEntries DEF MatchDone, Unmatched, QueueInv, TypeOK
  <2>2. TypeOK'
    BY <1>1, <1>2, <1>11, <2>1 DEF MatchDone, TypeOK, RoomsInv, roomVars
  <2>3. OnePerUser(queue)' /\ OnePerUser(items)' /\ OnePerUser(still)'
    BY <1>11, <2>1 DEF MatchDone, QueueInv, OnePerUser
  <2>4. SharedIsQueue' /\ KeptWasPassed' /\ ListsAreEmpty'
    <3>1. ~ shared /\ items = << >> /\ still = << >>
      BY <1>11 DEF MatchDone, QueueInv, SharedIsQueue, ListsAreEmpty, Expiring
    <3> QED
      BY <1>11, <3>1 DEF MatchDone, SharedIsQueue, KeptWasPassed, ListsAreEmpty
  <2>5. OldEntriesLeave'
    BY <1>11, <2>1 DEF MatchDone, QueueInv, OldEntriesLeave
  <2> QED
    BY <1>2, <1>11, <2>2, <2>3, <2>4, <2>5 DEF MatchDone, QueueInv
<1> QED
  BY <1>4, <1>5, <1>6, <1>7, <1>8, <1>9, <1>10, <1>11 DEF Loop

LEMMA QueueInitially == Init => QueueInv
<1> SUFFICES ASSUME Init PROVE QueueInv
  OBVIOUS
<1>1. RoomsInv
  BY RoomsInitially DEF Init
<1>2. << >> \in Seq(Entry)
  BY EmptySeq
<1>3. TypeOK
  BY <1>1, <1>2 DEF Init, TypeOK, RoomsInv
<1>4. OnePerUser(queue) /\ OnePerUser(items) /\ OnePerUser(still)
  BY DEF Init, OnePerUser
<1>5. SharedIsQueue /\ KeptWasPassed /\ ListsAreEmpty /\ OldEntriesLeave
  BY DEF Init, SharedIsQueue, KeptWasPassed, ListsAreEmpty, OldEntriesLeave, Expiring
<1> QED
  BY <1>1, <1>3, <1>4, <1>5 DEF Init, QueueInv

LEMMA QueuePreserved == QueueInv /\ [Next]_vars => QueueInv'
<1> SUFFICES ASSUME QueueInv, [Next]_vars PROVE QueueInv'
  OBVIOUS
<1>1. CASE UNCHANGED vars
  <2>1. RoomsInv'
    BY <1>1, OtherStepsKeepBooks DEF QueueInv, TypeOK, RoomsTypeOK, vars, roomVars
  <2> QED
    BY <1>1, <2>1, OtherStepsKeepQueue DEF vars, mmVars, QueueInv, TypeOK
<1> QED
  BY <1>1, LoopKeepsQueue, TimePassesKeepsQueue, RequestKeepsQueue DEF Next

\* The queue's invariant, and with it that the rooms' dictionaries agree.
LEMMA QueueIsKept == Spec => []QueueInv
  BY QueueInitially, QueuePreserved, PTL DEF Spec

\* Whenever requests come in between the loop's sends, no user has two entries: the
\* expiry pass puts back only those it found, and `enqueue` refuses who is there.
THEOREM OneEntryEach == Spec => []OneEntryPerUser
<1>1. QueueInv => OneEntryPerUser
  BY DEF QueueInv, OnePerUser, OneEntryPerUser
<1> QED
  BY QueueIsKept, <1>1, PTL

\* No entry that is out of time survives the expiry pass, however long its sends take.
THEOREM OldEntriesGo == Spec => []OldEntriesLeave
<1>1. QueueInv => OldEntriesLeave
  BY DEF QueueInv
<1> QED
  BY QueueIsKept, <1>1, PTL

\* Matches, lobby requests and the expiry pass leave the rooms' dictionaries in agreement.
THEOREM MatchesKeepRooms == Spec => []MembershipAgrees
<1>1. QueueInv => MembershipAgrees
  BY DEF QueueInv, RoomsInv
<1> QED
  BY QueueIsKept, <1>1, PTL

-----------------------------------------------------------------------------
\* Strays.

\* An operation on rooms moves nobody but its user.
LEMMA OthersStay ==
  ASSUME RoomsTypeOK, NEW u \in Users,
         CreateRoom(u) \/ (\E r \in RoomIds : JoinRoom(r, u)) \/ MarkDisconnected(u) \/ Reconnect(u)
  PROVE  \A v \in Users : v # u => userRoom'[v] = userRoom[v]
BY DEF RoomsTypeOK, CreateRoom, JoinRoom, Enter, MarkDisconnected, Reconnect, roomVars

Matching == pc \in {"match", "told_white", "told_black"}

\* Who is in a room and in a list is a stray, or was matched by the running pass.
ListedAreStrays ==
  \A u \in Users : InRoom(u) /\ Listed(u) => u \in strays \/ (Matching /\ u \in used)

StraysInv == QueueInv /\ ListedAreStrays

LEMMA RequestKeepsStrays ==
  ASSUME StraysInv, NEW u \in Users, Request(u)
  PROVE  ListedAreStrays'
<1>1. QueueInv /\ TypeOK /\ RoomsTypeOK /\ ListedAreStrays /\ pc' = pc /\ used' = used /\ still' = still
  BY DEF StraysInv, QueueInv, TypeOK, Request, Play, CancelPlay, EnterRoom, ClientDisconnected, LogIn, loopVars
<1>2. Matching' = Matching
  BY <1>1 DEF Matching
<1>3. CASE Play(u)
  <2>1. /\ ~ InRoom(u) /\ userRoom' = userRoom /\ strays' = strays
        /\ items' = IF shared THEN queue' ELSE items
    BY <1>3 DEF Play, roomVars
  <2>2. \A n \in DOMAIN queue' : queue'[n].user = u \/ \E m \in DOMAIN queue : queue'[n].user = queue[m].user
    BY <1>1, <1>3, EnqueuedEntries DEF Play, TypeOK
  <2>3. \A v \in Users : v # u /\ Listed(v)' => Listed(v)
    BY <1>1, <2>1, <2>2 DEF Listed, Queued, Has
  <2> QED
    BY <1>1, <1>2, <2>1, <2>3 DEF ListedAreStrays, InRoom
<1>4. CASE CancelPlay(u) \/ ClientDisconnected(u)
  <2>1. /\ queue' \in Remaining(queue, {u}) /\ items' = items
        /\ strays' = IF Has(items, u) \/ Has(still, u) THEN strays ELSE strays \ {u}
    BY <1>4 DEF CancelPlay, ClientDisconnected, Cancel
  <2>2. \A n \in DOMAIN queue' : queue'[n].user # u /\ \E m \in DOMAIN queue : queue'[n].user = queue[m].user
    <3> DEFINE us == {u}
    <3> HIDE DEF us
    <3>1. queue' \in Remaining(queue, us) /\ queue \in Seq(Entry)
      BY <1>1, <2>1 DEF us, TypeOK
    <3>2. \A i \in DOMAIN queue' : \E n \in DOMAIN queue : queue'[i] = queue[n] /\ queue[n].user \notin us
      BY <3>1, RemainingEntries
    <3> QED
      BY <3>2 DEF us
  <2>3. \A v \in Users : InRoom(v)' => InRoom(v)
    BY <1>1, <1>4 DEF CancelPlay, ClientDisconnected, MarkDisconnected, InRoom, roomVars, RoomsTypeOK
  <2>4. \A v \in Users : Listed(v)' => Listed(v) /\ (v \in strays => v \in strays')
    BY <1>1, <2>1, <2>2 DEF Listed, Queued, Has
  <2> QED
    BY <1>1, <1>2, <2>3, <2>4 DEF ListedAreStrays
<1>5. CASE EnterRoom(u)
  <2>1. UNCHANGED <<queue, items>> /\ strays' = IF Listed(u) THEN strays \cup {u} ELSE strays
    BY <1>5 DEF EnterRoom
  <2>2. \A v \in Users : v # u => userRoom'[v] = userRoom[v]
    BY <1>1, <1>5, OthersStay DEF EnterRoom
  <2>3. \A v \in Users : Listed(v)' = Listed(v)
    BY <1>1, <2>1 DEF Listed, Queued, Has
  <2> QED
    BY <1>1, <1>2, <2>1, <2>2, <2>3 DEF ListedAreStrays, InRoom
<1>6. CASE LogIn(u)
  <2>1. UNCHANGED <<userRoom, queue, items, strays>>
    BY <1>6 DEF LogIn, Reconnect, roomVars
  <2> QED
    BY <1>1, <1>2, <2>1 DEF ListedAreStrays, InRoom, Listed, Queued, Has
<1> QED
  BY <1>3, <1>4, <1>5, <1>6 DEF Request

LEMMA LoopKeepsStrays == StraysInv /\ Loop => ListedAreStrays'
<1> SUFFICES ASSUME StraysInv, Loop PROVE ListedAreStrays'
  OBVIOUS
<1>1. QueueInv /\ TypeOK /\ ListedAreStrays
  BY DEF StraysInv, QueueInv
<1>2. CASE StartTick
  BY <1>1, <1>2 DEF StartTick, ListedAreStrays, Matching, Listed, Queued, Has, InRoom, roomVars
<1>3. CASE KeepEntry
  <2>1. /\ pc = "expire" /\ pc' = pc /\ index \in DOMAIN items /\ still' = Append(still, items[index])
        /\ UNCHANGED <<userRoom, queue, items, strays>>
    BY <1>3 DEF KeepEntry, roomVars
  <2>2. still \in Seq(Entry) /\ items[index] \in Entry
    BY <1>1, <2>1, ElementOfSeq, LenProperties DEF TypeOK
  <2>3. \A n \in DOMAIN still' : still'[n] = items[index] \/ (n \in DOMAIN still /\ still'[n] = still[n])
    <3> DEFINE e == items[index]
    <3> HIDE DEF e
    <3>1. e \in Entry /\ still' = Append(still, e)
      BY <2>1, <2>2 DEF e
    <3>2. /\ DOMAIN still' = 1 .. Len(still) + 1 /\ DOMAIN still = 1 .. Len(still) /\ Len(still) \in Nat
          /\ still'[Len(still) + 1] = e
          /\ \A n \in 1 .. Len(still) : still'[n] = still[n]
      BY <2>2, <3>1, AppendProperties, LenProperties
    <3> QED
      BY <3>2 DEF e
  <2>4. \A v \in Users : Listed(v)' => Listed(v)
    BY <2>1, <2>3 DEF Listed, Queued, Has
  <2> QED
    BY <1>1, <2>1, <2>4 DEF ListedAreStrays, Matching, InRoom
<1>4. CASE SendTimeout \/ TimeoutSent
  <2>1. ~ Matching /\ UNCHANGED <<userRoom, queue, items, still, strays>>
    BY <1>4 DEF SendTimeout, TimeoutSent, Matching, roomVars
  <2> QED
    BY <1>1, <2>1 DEF ListedAreStrays, Listed, Queued, Has, InRoom
<1>5. CASE ExpireDone
  <2>1. /\ ~ Matching /\ queue' = still /\ items' = << >> /\ still' = << >> /\ userRoom' = userRoom
        /\ strays' = {u \in strays : Has(still, u)}
    BY <1>5 DEF ExpireDone, Matching, roomVars
  <2>2. \A v \in Users : Listed(v)' => Has(still, v)
    BY <2>1 DEF Listed, Queued, Has
  <2> QED
    BY <1>1, <2>1, <2>2 DEF ListedAreStrays, Listed, InRoom
<1>6. CASE MatchFound
  <2> DEFINE a == Seeker
             b == Opponent
  <2>1. /\ Matching /\ Matching' /\ UNCHANGED <<queue, items, still, strays>>
        /\ CreateMatchedRoom(a, b) /\ used' = used \cup {a, b}
    BY <1>6 DEF MatchFound, Matching
  <2> HIDE DEF a, b
  <2>2. \A v \in Users : v \in {a, b} \/ userRoom'[v] = userRoom[v]
    BY <1>1, <2>1 DEF CreateMatchedRoom, TypeOK, RoomsTypeOK
  <2> QED
    BY <1>1, <2>1, <2>2 DEF ListedAreStrays, Listed, Queued, Has, InRoom
<1>7. CASE MatchRaises
  BY <1>1, <1>7 DEF MatchRaises, ListedAreStrays, Listed, Queued, Has, InRoom, roomVars
<1>8. CASE NobodyNear \/ TellBlack \/ MatchSent
  <2>1. Matching /\ Matching' /\ UNCHANGED <<userRoom, queue, items, still, strays, used>>
    BY <1>8 DEF NobodyNear, TellBlack, MatchSent, Matching, roomVars
  <2> QED
    BY <1>1, <2>1 DEF ListedAreStrays, Listed, Queued, Has, InRoom
<1>9. CASE MatchDone
  <2>1. items = << >> /\ still = << >> /\ UNCHANGED <<userRoom, items, still, strays>>
    BY <1>1, <1>9 DEF MatchDone, QueueInv, ListsAreEmpty, Expiring, roomVars
  <2>2. \A i \in DOMAIN queue' : \E n \in DOMAIN queue : queue'[i] = queue[n] /\ queue[n].user \notin used
    BY <1>1, <1>9, RemainingEntries DEF MatchDone, Unmatched, TypeOK
  <2>3. \A v \in Users : Listed(v)' => Listed(v) /\ v \notin used
    BY <2>1, <2>2 DEF Listed, Queued, Has
  <2> QED
    BY <1>1, <2>1, <2>3 DEF ListedAreStrays, InRoom
<1>10. CASE TickGames
  BY <1>1, <1>10 DEF TickGames, ListedAreStrays, Matching, Listed, Queued, Has, InRoom, roomVars
<1> QED
  BY <1>2, <1>3, <1>4, <1>5, <1>6, <1>7, <1>8, <1>9, <1>10 DEF Loop

LEMMA StraysAreKept == Spec => []StraysInv
<1>1. Init => StraysInv
  BY QueueInitially DEF Init, RoomsInit, StraysInv, ListedAreStrays, InRoom
<1>2. StraysInv /\ [Next]_vars => StraysInv'
  <2> SUFFICES ASSUME StraysInv, [Next]_vars PROVE StraysInv'
    OBVIOUS
  <2>1. QueueInv' /\ QueueInv /\ ListedAreStrays
    BY QueuePreserved DEF StraysInv
  <2>2. ASSUME NEW n \in DOMAIN queue, EntryTimesOut(n) PROVE ListedAreStrays'
    <3>1. /\ UNCHANGED <<userRoom, pc, items, still, used, strays>>
          /\ DOMAIN queue' = DOMAIN queue /\ \A m \in DOMAIN queue : queue'[m].user = queue[m].user
      <4>1. queue \in [DOMAIN queue -> Entry]
        BY <2>1, LenProperties DEF QueueInv, TypeOK
      <4> QED
        BY <2>2, <4>1 DEF EntryTimesOut, roomVars, loopVars, Entry
    <3> QED
      BY <2>1, <3>1 DEF ListedAreStrays, Listed, Queued, Has, Matching, InRoom
  <2>3. CASE UNCHANGED vars
    <3>1. UNCHANGED <<userRoom, queue, pc, items, still, used, strays>>
      BY <2>3 DEF vars, roomVars, mmVars
    <3>2. Matching' = Matching /\ \A u \in Users : Listed(u)' = Listed(u) /\ InRoom(u)' = InRoom(u)
      BY <3>1 DEF Listed, Queued, Has, Matching, InRoom
    <3> QED
      BY <2>1, <3>1, <3>2 DEF ListedAreStrays, StraysInv
  <2> QED
    BY <2>1, <2>2, <2>3, LoopKeepsStrays, RequestKeepsStrays DEF Next, StraysInv
<1> QED
  BY <1>1, <1>2, PTL DEF Spec

\* Wherever requests come in and whoever goes where, `create_matched_room` raises in the
\* match pass only over a user whose entry outlived his way into a room.
THEOREM LostTicksHaveACause == Spec => TicksAreLostToStrays
<1>1. ASSUME StraysInv, [Next]_vars, pc = "match", pc' = "sleep"
      PROVE  {Seeker, Opponent} \cap strays # {}
  <2>1. MatchRaises
    <3>1. pc' # pc
      BY <1>1
    <3>2. ~ UNCHANGED vars
      BY <3>1 DEF vars, mmVars
    <3>3. \A u \in Users : ~ Request(u)
      BY <3>1 DEF Request, Play, CancelPlay, EnterRoom, ClientDisconnected, LogIn, loopVars
    <3>4. \A n \in DOMAIN queue : ~ EntryTimesOut(n)
      BY <1>1 DEF EntryTimesOut
    <3> QED
      BY <1>1, <3>2, <3>3, <3>4 DEF Next, Loop, StartTick, KeepEntry, SendTimeout, TimeoutSent, ExpireDone,
         NobodyNear, MatchFound, TellBlack, MatchSent, MatchDone, TickGames
  <2>2. /\ index \in DOMAIN queue /\ Min(Candidates) \in DOMAIN queue
        /\ Seeker \in Users /\ Opponent \in Users /\ Seeker \notin used /\ Opponent \notin used
        /\ InRoom(Seeker) \/ InRoom(Opponent)
    BY <1>1, <2>1, CandidatesAreLater DEF MatchRaises, CanMatch, StraysInv
  <2>3. Queued(Seeker) /\ Queued(Opponent)
    BY <2>2 DEF Queued, Has, Seeker, Opponent
  <2>4. \A u \in Users : InRoom(u) /\ Queued(u) /\ u \notin used => u \in strays
    BY <1>1 DEF StraysInv, ListedAreStrays, Listed
  <2> QED
    BY <2>2, <2>3, <2>4
<1>2. StraysInv /\ [Next]_vars => (pc = "match" /\ pc' = "sleep" => {Seeker, Opponent} \cap strays # {})
  BY <1>1
<1> QED
  BY <1>2, StraysAreKept, PTL DEF Spec, TicksAreLostToStrays

-----------------------------------------------------------------------------
\* On a calm server.

Calm == ~ SlowSends /\ Wanderers = {}

\* Whoever has an entry that counts waits at his window.
Waits(u) == connected[u] /\ waiting[u]

EntriesWait ==
  /\ pc = "expire" => \A n \in index .. Len(items) : Waits(items[n].user)
  /\ pc = "sending_timeout" =>
       /\ index \in DOMAIN items /\ ~ waiting[items[index].user]
       /\ \A n \in index + 1 .. Len(items) : Waits(items[n].user)
  /\ \A n \in DOMAIN still : Waits(still[n].user)
  /\ ~ Expiring => \A n \in DOMAIN queue : queue[n].user \in used \/ Waits(queue[n].user)

\* Who waits is in no room, but for the second of two who were just matched.
WaitingIsFree == \A u \in Users : waiting[u] => connected[u] /\ (u \in mate \/ ~ InRoom(u))

MatchedAreTold ==
  /\ mate # {} => pc = "told_white"
  /\ mate \subseteq used
  /\ \A u, v \in mate : u = v
  /\ pc \in {"sleep", "games"} => used = {}
  /\ Matching => \A u \in used : u \in mate \/ ~ waiting[u]

CalmInv ==
  /\ QueueInv
  /\ EntriesWait /\ WaitingIsFree /\ MatchedAreTold /\ WaitingIsQueued

\* What CalmInv says between two ticks, where the requests come in.
Settled ==
  /\ pc \in {"sleep", "games"} /\ used = {} /\ mate = {}
  /\ \A n \in DOMAIN queue : Waits(queue[n].user)
  /\ \A u \in Users : waiting[u] => connected[u] /\ ~ InRoom(u) /\ Queued(u)

LEMMA SettledIsCalm ==
  ASSUME QueueInv, pc \in {"sleep", "games"}
  PROVE  CalmInv <=> Settled
<1>1. items = << >> /\ still = << >> /\ Len(items) = 0 /\ index \in Nat /\ index >= 1
  BY EmptySeq DEF QueueInv, ListsAreEmpty, Expiring, TypeOK
<1>2. index .. Len(items) = {}
  BY <1>1
<1>3. ASSUME CalmInv PROVE Settled
  <2>1. used = {} /\ mate = {}
    BY <1>3 DEF CalmInv, MatchedAreTold
  <2>2. \A n \in DOMAIN queue : Waits(queue[n].user)
    BY <1>3, <2>1 DEF CalmInv, EntriesWait, Expiring
  <2>3. \A u \in Users : waiting[u] => connected[u] /\ ~ InRoom(u)
    BY <1>3, <2>1 DEF CalmInv, WaitingIsFree
  <2>4. \A u \in Users : waiting[u] => Queued(u)
    BY <1>1, <1>2, <1>3, <2>1 DEF CalmInv, WaitingIsQueued
  <2> QED
    BY <2>1, <2>2, <2>3, <2>4 DEF Settled
<1>4. ASSUME Settled PROVE CalmInv
  <2>1. EntriesWait
    BY <1>1, <1>4 DEF Settled, EntriesWait
  <2>2. WaitingIsFree /\ MatchedAreTold /\ WaitingIsQueued
    BY <1>4 DEF Settled, WaitingIsFree, MatchedAreTold, Matching, WaitingIsQueued
  <2> QED
    BY <2>1, <2>2 DEF CalmInv
<1> QED
  BY <1>3, <1>4

\* A request changes the window, the rooms and the entry of its own user together.
LEMMA RequestKeepsCalm ==
  ASSUME CalmInv, Calm, NEW u \in Users, Request(u)
  PROVE  CalmInv'
<1>1. QueueInv' /\ QueueInv /\ TypeOK /\ RoomsTypeOK
  BY RequestKeepsQueue DEF CalmInv, QueueInv, TypeOK
<1>2. /\ pc \in {"sleep", "games"} /\ UNCHANGED <<pc, used, mate>>
  BY DEF Request, Play, CancelPlay, EnterRoom, ClientDisconnected, LogIn, loopVars, AtAwait, Calm
<1>3. Settled
  BY <1>1, <1>2, SettledIsCalm DEF CalmInv
<1>4. queue \in Seq(Entry) /\ \A n \in DOMAIN queue : queue[n].user \in Users
  <2>1. \A n \in 1 .. Len(queue) : queue[n] \in Entry
    BY <1>1, ElementOfSeq DEF TypeOK
  <2> QED
    BY <1>1, <2>1, LenProperties DEF TypeOK, Entry
<1>5. SUFFICES /\ \A n \in DOMAIN queue' : connected'[queue'[n].user] /\ waiting'[queue'[n].user]
               /\ \A v \in Users : waiting'[v] =>
                    /\ connected'[v] /\ ~ InRoom(v)'
                    /\ \E n \in DOMAIN queue' : queue'[n].user = v
  <2>1. Settled'
    BY <1>2, <1>3, <1>5 DEF Settled, Waits, Queued, Has
  <2>2. ASSUME QueueInv', (pc \in {"sleep", "games"})' PROVE CalmInv' <=> Settled'
    BY <2>2, SettledIsCalm, PTL
  <2> QED
    BY <1>1, <1>2, <2>1, <2>2
<1>6. CASE Play(u)
  <2>1. /\ \A n \in DOMAIN queue : n \in DOMAIN queue' /\ queue'[n] = queue[n]
        /\ \A n \in DOMAIN queue' : n \notin DOMAIN queue => queue'[n].user = u
        /\ \E n \in DOMAIN queue' : queue'[n].user = u
    BY <1>4, <1>6, EnqueuedEntries DEF Play
  <2>2. connected[u] /\ ~ InRoom(u) /\ waiting' = [waiting EXCEPT ![u] = TRUE] /\ UNCHANGED <<connected, userRoom>>
    BY <1>6 DEF Play, roomVars
  <2>3. \A v \in Users : waiting'[v] = IF v = u THEN TRUE ELSE waiting[v]
    BY <1>1, <2>2 DEF TypeOK
  <2>4. \A n \in DOMAIN queue' : queue'[n].user = u \/ (n \in DOMAIN queue /\ queue'[n] = queue[n])
    BY <2>1
  <2>5. \A n \in DOMAIN queue' : connected'[queue'[n].user] /\ waiting'[queue'[n].user]
    BY <1>3, <1>4, <2>2, <2>3, <2>4 DEF Settled, Waits
  <2>6. ASSUME NEW v \in Users, waiting'[v], v # u
        PROVE  connected'[v] /\ ~ InRoom(v)' /\ \E n \in DOMAIN queue' : queue'[n].user = v
    BY <1>3, <2>1, <2>2, <2>3, <2>6 DEF Settled, Queued, Has, InRoom
  <2> QED
    BY <2>1, <2>2, <2>5, <2>6 DEF InRoom
<1>7. CASE CancelPlay(u) \/ ClientDisconnected(u)
  <2>1. queue' \in Remaining(queue, {u})
    BY <1>7 DEF CancelPlay, ClientDisconnected, Cancel
  <2>2. /\ \A i \in DOMAIN queue' : \E n \in DOMAIN queue : queue'[i] = queue[n] /\ queue[n].user # u
        /\ \A n \in DOMAIN queue : queue[n].user # u => \E i \in DOMAIN queue' : queue'[i] = queue[n]
    <3> DEFINE us == {u}
    <3> HIDE DEF us
    <3>1. queue' \in Remaining(queue, us) /\ queue \in Seq(Entry)
      BY <1>4, <2>1 DEF us
    <3>2. /\ \A i \in DOMAIN queue' : \E n \in DOMAIN queue : queue'[i] = queue[n] /\ queue[n].user \notin us
          /\ \A n \in DOMAIN queue : queue[n].user \notin us => \E i \in DOMAIN queue' : queue'[i] = queue[n]
      BY <3>1, RemainingEntries
    <3> QED
      BY <3>2 DEF us
  <2>3. /\ waiting' = [waiting EXCEPT ![u] = FALSE]
        /\ \A v \in Users : v # u => connected'[v] = connected[v]
    BY <1>1, <1>7 DEF CancelPlay, ClientDisconnected, TypeOK
  <2>4. \A v \in Users : v # u => userRoom'[v] = userRoom[v]
    BY <1>1, <1>7, OthersStay DEF CancelPlay, ClientDisconnected, roomVars
  <2>5. \A v \in Users : waiting'[v] = IF v = u THEN FALSE ELSE waiting[v]
    BY <1>1, <2>3 DEF TypeOK
  <2>6. \A n \in DOMAIN queue' : connected'[queue'[n].user] /\ waiting'[queue'[n].user]
    BY <1>3, <1>4, <2>2, <2>3, <2>5 DEF Settled, Waits
  <2>7. ASSUME NEW v \in Users, waiting'[v]
        PROVE  connected'[v] /\ ~ InRoom(v)' /\ \E n \in DOMAIN queue' : queue'[n].user = v
    <3>1. v # u /\ waiting[v]
      BY <2>5, <2>7
    <3>2. connected[v] /\ ~ InRoom(v) /\ \E n \in DOMAIN queue : queue[n].user = v
      BY <1>3, <3>1 DEF Settled, Queued, Has
    <3> QED
      BY <2>2, <2>3, <2>4, <3>1, <3>2 DEF InRoom
  <2> QED
    BY <2>6, <2>7
<1>8. CASE EnterRoom(u)
  <2>1. ~ waiting[u] /\ waiting' = [waiting EXCEPT ![u] = FALSE] /\ UNCHANGED <<queue, connected>>
    BY <1>8 DEF EnterRoom, Calm
  <2>2. \A v \in Users : v # u => userRoom'[v] = userRoom[v]
    BY <1>1, <1>8, OthersStay DEF EnterRoom
  <2>3. \A v \in Users : waiting'[v] = waiting[v]
    BY <1>1, <2>1 DEF TypeOK
  <2> QED
    BY <1>3, <1>4, <2>1, <2>2, <2>3 DEF Settled, Waits, Queued, Has, InRoom
<1>9. CASE LogIn(u)
  <2>1. /\ ~ connected[u] /\ connected' = [connected EXCEPT ![u] = TRUE] /\ UNCHANGED <<queue, waiting>>
    BY <1>9 DEF LogIn
  <2>2. \A v \in Users : v # u => userRoom'[v] = userRoom[v] /\ connected'[v] = connected[v]
    BY <1>1, <1>9, <2>1, OthersStay DEF LogIn, TypeOK
  <2> QED
    BY <1>3, <1>4, <2>1, <2>2 DEF Settled, Waits, Queued, Has, InRoom
<1> QED
  BY <1>6, <1>7, <1>8, <1>9 DEF Request

\* The users of the lists' entries.
LEMMA ListUsers ==
  ASSUME TypeOK
  PROVE  /\ \A n \in DOMAIN queue : queue[n].user \in Users
         /\ \A n \in DOMAIN items : items[n].user \in Users
         /\ \A n \in DOMAIN still : still[n].user \in Users
         /\ DOMAIN queue = 1 .. Len(queue) /\ DOMAIN items = 1 .. Len(items) /\ DOMAIN still = 1 .. Len(still)
         /\ Len(queue) \in Nat /\ Len(items) \in Nat /\ Len(still) \in Nat
<1>1. ASSUME NEW q \in Seq(Entry)
      PROVE  (\A n \in DOMAIN q : q[n].user \in Users) /\ DOMAIN q = 1 .. Len(q) /\ Len(q) \in Nat
  <2>1. \A n \in 1 .. Len(q) : q[n] \in Entry
    BY ElementOfSeq
  <2> QED
    BY <2>1, LenProperties DEF Entry
<1> QED
  BY <1>1 DEF TypeOK

\* The expiry pass: what it passes waits and is kept, or was told.
LEMMA ExpiryKeepsCalm ==
  ASSUME CalmInv, QueueInv', StartTick \/ KeepEntry \/ SendTimeout \/ TimeoutSent \/ ExpireDone
  PROVE  CalmInv'
<1>1. QueueInv /\ TypeOK /\ EntriesWait /\ WaitingIsFree /\ MatchedAreTold /\ WaitingIsQueued
  BY DEF CalmInv, QueueInv
<1>2. /\ UNCHANGED <<members, presence, userRoom, connected, mate>> /\ pc # "told_white" /\ mate = {}
      /\ pc' # "told_white" /\ pc' \notin {"sleep", "games"}
  BY <1>1 DEF StartTick, KeepEntry, SendTimeout, TimeoutSent, ExpireDone, roomVars, MatchedAreTold
<1>3. /\ \A n \in DOMAIN queue : queue[n].user \in Users
      /\ \A n \in DOMAIN items : items[n].user \in Users
      /\ \A n \in DOMAIN still : still[n].user \in Users
      /\ DOMAIN queue = 1 .. Len(queue) /\ DOMAIN items = 1 .. Len(items) /\ DOMAIN still = 1 .. Len(still)
      /\ Len(queue) \in Nat /\ Len(items) \in Nat /\ Len(still) \in Nat
      /\ index \in Nat /\ index >= 1
  BY <1>1, ListUsers DEF QueueInv, TypeOK
<1>4. MatchedAreTold'
  BY <1>1, <1>2 DEF StartTick, KeepEntry, SendTimeout, TimeoutSent, ExpireDone, MatchedAreTold, Matching
<1>5. CASE StartTick
  <2>1. Settled
    BY <1>1, <1>5, SettledIsCalm DEF StartTick, CalmInv
  <2>2. /\ pc' = "expire" /\ items' = queue /\ still' = << >> /\ index' = 1 /\ UNCHANGED <<queue, waiting>>
    BY <1>5 DEF StartTick
  <2>3. EntriesWait'
    BY <1>2, <1>3, <2>1, <2>2 DEF Settled, EntriesWait, Waits, Expiring
  <2>4. WaitingIsFree' /\ WaitingIsQueued'
    BY <1>2, <1>3, <2>1, <2>2 DEF Settled, WaitingIsFree, WaitingIsQueued, Queued, Has, InRoom
  <2> QED
    BY <1>4, <2>3, <2>4 DEF CalmInv
<1>6. CASE KeepEntry
  <2> DEFINE e == items[index]
  <2>1. /\ pc = "expire" /\ pc' = "expire" /\ index \in DOMAIN items /\ still' = Append(still, e)
        /\ index' = index + 1 /\ UNCHANGED <<queue, items, waiting>>
    BY <1>6 DEF KeepEntry
  <2>2. still \in Seq(Entry) /\ e \in Entry
    BY <1>1, <1>3, <2>1, ElementOfSeq DEF TypeOK
  <2>3. e = items[index] /\ Waits(e.user)
    BY <1>1, <1>3, <2>1 DEF EntriesWait
  <2> HIDE DEF e
  <2>4. /\ DOMAIN still' = 1 .. Len(still) + 1
        /\ \A n \in DOMAIN still : n \in DOMAIN still' /\ still'[n] = still[n]
        /\ Len(still) + 1 \in DOMAIN still' /\ still'[Len(still) + 1] = e
        /\ \A n \in DOMAIN still' : n \in DOMAIN still \/ n = Len(still) + 1
    BY <1>3, <2>1, <2>2, AppendProperties, LenProperties
  <2>5. \A n \in index' .. Len(items') : n \in index .. Len(items)
    BY <1>3, <2>1
  <2>6. EntriesWait'
    <3>1. \A n \in DOMAIN still' : Waits(still'[n].user)
      BY <1>1, <2>3, <2>4 DEF EntriesWait
    <3>2. \A n \in index' .. Len(items') : Waits(items[n].user)
      BY <1>1, <2>1, <2>5 DEF EntriesWait
    <3> QED
      BY <1>2, <2>1, <3>1, <3>2 DEF EntriesWait, Waits, Expiring
  <2>7. WaitingIsFree'
    BY <1>1, <1>2, <2>1 DEF WaitingIsFree, InRoom
  <2>8. WaitingIsQueued'
    <3> SUFFICES ASSUME NEW u \in Users, waiting[u]
                 PROVE  \/ \E n \in DOMAIN still' : still'[n].user = u
                        \/ \E n \in index' .. Len(items') : items[n].user = u
      BY <2>1 DEF WaitingIsQueued
    <3>1. (\E n \in DOMAIN still : still[n].user = u) \/ \E n \in index .. Len(items) : items[n].user = u
      BY <1>1, <1>2, <2>1 DEF WaitingIsQueued
    <3>2. \A n \in index .. Len(items) : n = index \/ n \in index' .. Len(items')
      BY <1>3, <2>1
    <3> QED
      BY <2>3, <2>4, <3>1, <3>2
  <2> QED
    BY <1>4, <2>6, <2>7, <2>8 DEF CalmInv
<1>7. CASE SendTimeout
  <2> DEFINE x == items[index].user
  <2>1. /\ pc = "expire" /\ pc' = "sending_timeout" /\ index \in DOMAIN items
        /\ waiting' = [waiting EXCEPT ![x] = FALSE] /\ UNCHANGED <<queue, items, still, index>>
    BY <1>7 DEF SendTimeout, Told
  <2>2. \A v \in Users : waiting'[v] = IF v = x THEN FALSE ELSE waiting[v]
    BY <1>1, <2>1 DEF TypeOK
  <2>3. \A n \in index + 1 .. Len(items) : n \in DOMAIN items /\ n \in index .. Len(items) /\ n # index
    BY <1>3
  <2>4. \A n \in index + 1 .. Len(items) : items[n].user # x
    BY <1>1, <2>1, <2>3 DEF QueueInv, OnePerUser
  <2>5. \A n \in DOMAIN still : still[n].user # x
    <3> TAKE n \in DOMAIN still
    <3>1. PICK m \in DOMAIN items : m < index /\ items[m].user = still[n].user
      BY <1>1 DEF QueueInv, KeptWasPassed
    <3>2. m # index
      BY <1>3, <3>1
    <3> QED
      BY <1>1, <2>1, <3>1, <3>2 DEF QueueInv, OnePerUser
  <2>6. x \in Users /\ ~ waiting'[x]
    BY <1>3, <2>1, <2>2
  <2> HIDE DEF x
  <2>7. EntriesWait'
    <3>1. \A n \in DOMAIN still : connected[still[n].user] /\ waiting'[still[n].user]
      BY <1>1, <1>3, <2>2, <2>5 DEF EntriesWait, Waits
    <3>2. \A n \in index + 1 .. Len(items) : connected[items[n].user] /\ waiting'[items[n].user]
      BY <1>1, <1>3, <2>1, <2>2, <2>3, <2>4 DEF EntriesWait, Waits
    <3> QED
      BY <1>2, <2>1, <2>6, <3>1, <3>2 DEF EntriesWait, Waits, Expiring, x
  <2>8. WaitingIsFree'
    BY <1>1, <1>2, <2>2 DEF WaitingIsFree, InRoom
  <2>9. WaitingIsQueued'
    BY <1>1, <1>2, <2>1, <2>2 DEF WaitingIsQueued
  <2> QED
    BY <1>4, <2>7, <2>8, <2>9 DEF CalmInv
<1>8. CASE TimeoutSent
  <2>1. /\ pc = "sending_timeout" /\ pc' = "expire" /\ index' = index + 1
        /\ UNCHANGED <<queue, items, still, waiting>>
    BY <1>8 DEF TimeoutSent
  <2>2. EntriesWait'
    BY <1>1, <1>2, <2>1 DEF EntriesWait, Waits, Expiring
  <2>3. WaitingIsFree'
    BY <1>1, <1>2, <2>1 DEF WaitingIsFree, InRoom
  <2>4. WaitingIsQueued'
    <3>1. \A n \in index .. Len(items) : n = index \/ n \in index' .. Len(items)
      BY <1>3, <2>1
    <3>2. ~ waiting[items[index].user]
      BY <1>1, <2>1 DEF EntriesWait
    <3> QED
      BY <1>1, <1>2, <2>1, <3>1, <3>2 DEF WaitingIsQueued
  <2> QED
    BY <1>4, <2>2, <2>3, <2>4 DEF CalmInv
<1>9. CASE ExpireDone
  <2>1. /\ pc = "expire" /\ pc' = "match" /\ queue' = still /\ still' = << >> /\ items' = << >>
        /\ UNCHANGED waiting /\ index .. Len(items) = {}
    BY <1>3, <1>9 DEF ExpireDone
  <2>2. EntriesWait'
    BY <1>1, <1>2, <2>1 DEF EntriesWait, Waits, Expiring
  <2>3. WaitingIsFree'
    BY <1>1, <1>2, <2>1 DEF WaitingIsFree, InRoom
  <2>4. WaitingIsQueued'
    BY <1>1, <1>2, <2>1 DEF WaitingIsQueued, Queued, Has
  <2> QED
    BY <1>4, <2>2, <2>3, <2>4 DEF CalmInv
<1> QED
  BY <1>5, <1>6, <1>7, <1>8, <1>9

\* The two of a match wait for one, so they are in no room.
LEMMA CandidatesWait ==
  ASSUME CalmInv, pc = "match", index \in DOMAIN queue, Candidates # {}
  PROVE  /\ Seeker \in Users /\ Opponent \in Users /\ Seeker # Opponent
         /\ Waits(Seeker) /\ Waits(Opponent) /\ ~ InRoom(Seeker) /\ ~ InRoom(Opponent)
<1>1. /\ Seeker \in Users /\ Opponent \in Users /\ Seeker # Opponent
      /\ Seeker \notin used /\ Opponent \notin used /\ Min(Candidates) \in DOMAIN queue
  BY CandidatesAreLater DEF CalmInv
<1>2. mate = {} /\ \A n \in DOMAIN queue : queue[n].user \in used \/ Waits(queue[n].user)
  BY DEF CalmInv, MatchedAreTold, EntriesWait, Expiring
<1>3. Waits(Seeker) /\ Waits(Opponent)
  BY <1>1, <1>2 DEF Seeker, Opponent
<1> QED
  BY <1>1, <1>2, <1>3 DEF CalmInv, WaitingIsFree, Waits

\* The match pass.
LEMMA MatchKeepsCalm ==
  ASSUME CalmInv, QueueInv',
         NobodyNear \/ MatchFound \/ MatchRaises \/ TellBlack \/ MatchSent \/ MatchDone \/ TickGames
  PROVE  CalmInv'
<1>1. QueueInv /\ TypeOK /\ EntriesWait /\ WaitingIsFree /\ MatchedAreTold /\ WaitingIsQueued
  BY DEF CalmInv, QueueInv
<1>2. /\ pc \in {"match", "told_white", "told_black", "games"} /\ ~ Expiring /\ ~ Expiring'
      /\ UNCHANGED <<items, still, connected>>
  BY DEF NobodyNear, MatchFound, MatchRaises, TellBlack, MatchSent, MatchDone, TickGames, Expiring
<1>3. items = << >> /\ still = << >> /\ Len(items) = 0 /\ index >= 1 /\ index' >= 1 /\ index \in Nat /\ index' \in Nat
  BY <1>1, <1>2, EmptySeq DEF QueueInv, ListsAreEmpty, TypeOK
<1>4. index .. Len(items) = {} /\ index' .. Len(items') = {}
  BY <1>2, <1>3
<1>5. /\ \A n \in DOMAIN queue : queue[n].user \in Users
      /\ \A n \in DOMAIN queue : queue[n].user \in used \/ Waits(queue[n].user)
      /\ \A u \in Users : waiting[u] => u \in mate \/ Queued(u)
  BY <1>1, <1>2, <1>3, <1>4, ListUsers DEF EntriesWait, WaitingIsQueued
<1>6. SUFFICES /\ \A n \in DOMAIN queue' : queue'[n].user \in used' \/ (connected[queue'[n].user] /\ waiting'[queue'[n].user])
               /\ \A u \in Users : waiting'[u] => u \in mate' \/ \E n \in DOMAIN queue' : queue'[n].user = u
               /\ WaitingIsFree' /\ MatchedAreTold'
  <2>1. EntriesWait'
    BY <1>2, <1>3, <1>6 DEF EntriesWait, Waits, Expiring
  <2>2. WaitingIsQueued'
    BY <1>2, <1>6 DEF WaitingIsQueued, Queued, Has, Expiring
  <2> QED
    BY <1>6, <2>1, <2>2 DEF CalmInv
<1>7. CASE NobodyNear
  <2>1. pc = "match" /\ pc' = pc /\ UNCHANGED <<userRoom, queue, used, mate, waiting>>
    BY <1>7 DEF NobodyNear, roomVars
  <2> QED
    BY <1>1, <1>2, <1>5, <2>1 DEF WaitingIsFree, MatchedAreTold, Matching, Waits, Queued, Has, InRoom
<1>8. CASE MatchFound
  <2>1. /\ pc = "match" /\ pc' = "told_white" /\ used' = used \cup {Seeker, Opponent} /\ mate' = {Opponent}
        /\ waiting' = [waiting EXCEPT ![Seeker] = FALSE] /\ queue' = queue
        /\ CreateMatchedRoom(Seeker, Opponent)
    BY <1>8 DEF MatchFound, Told
  <2>2. Seeker \in Users /\ Opponent \in Users /\ Seeker # Opponent /\ mate = {}
    BY <1>1, <1>8, <2>1, CandidatesWait DEF MatchFound, MatchedAreTold
  <2>3. \A v \in Users : waiting'[v] = IF v = Seeker THEN FALSE ELSE waiting[v]
    BY <1>1, <2>1 DEF TypeOK
  <2>4. \A v \in Users : v \notin {Seeker, Opponent} => userRoom'[v] = userRoom[v]
    BY <1>1, <2>1 DEF CreateMatchedRoom, TypeOK, RoomsTypeOK
  <2> DEFINE a == Seeker
             b == Opponent
  <2>5. a \in Users /\ b \in Users /\ a # b /\ used' = used \cup {a, b} /\ mate' = {b}
    BY <2>1, <2>2
  <2>6. /\ \A v \in Users : waiting'[v] = IF v = a THEN FALSE ELSE waiting[v]
        /\ \A v \in Users : v \notin {a, b} => userRoom'[v] = userRoom[v]
    BY <2>3, <2>4
  <2> HIDE DEF a, b
  <2>7. WaitingIsFree'
    BY <1>1, <1>2, <2>2, <2>5, <2>6 DEF WaitingIsFree, InRoom
  <2>8. MatchedAreTold'
    <3>1. \A v \in used' : v \in mate' \/ ~ waiting'[v]
      BY <1>1, <2>1, <2>2, <2>5, <2>6 DEF MatchedAreTold, Matching, TypeOK
    <3> QED
      BY <2>1, <2>5, <3>1 DEF MatchedAreTold, Matching
  <2>9. \A n \in DOMAIN queue : queue[n].user \in used' \/ (connected[queue[n].user] /\ waiting'[queue[n].user])
    BY <1>5, <2>5, <2>6 DEF Waits
  <2>10. \A u \in Users : waiting'[u] => u \in mate' \/ \E n \in DOMAIN queue : queue[n].user = u
    BY <1>5, <2>2, <2>6 DEF Queued, Has
  <2> QED
    BY <2>1, <2>7, <2>8, <2>9, <2>10
<1>9. CASE MatchRaises
  BY <1>9, CandidatesWait DEF MatchRaises, CanMatch
<1>10. CASE TellBlack
  <2>1. /\ pc = "told_white" /\ pc' = "told_black" /\ mate' = {} /\ UNCHANGED <<userRoom, queue, used>>
    BY <1>10 DEF TellBlack, roomVars
  <2>2. PICK b \in mate : waiting' = [waiting EXCEPT ![b] = FALSE]
    BY <1>10 DEF TellBlack, Told
  <2>3. mate = {b} /\ b \in used /\ b \in Users
    BY <1>1 DEF MatchedAreTold, TypeOK
  <2>4. \A v \in Users : waiting'[v] = IF v = b THEN FALSE ELSE waiting[v]
    BY <1>1, <2>2 DEF TypeOK
  <2>5. WaitingIsFree'
    BY <1>1, <1>2, <2>1, <2>3, <2>4 DEF WaitingIsFree, InRoom
  <2>6. MatchedAreTold'
    BY <1>1, <2>1, <2>3, <2>4 DEF MatchedAreTold, Matching, TypeOK
  <2>7. \A n \in DOMAIN queue : queue[n].user \in used' \/ (connected[queue[n].user] /\ waiting'[queue[n].user])
    BY <1>5, <2>1, <2>3, <2>4 DEF Waits
  <2>8. \A u \in Users : waiting'[u] => \E n \in DOMAIN queue : queue[n].user = u
    BY <1>5, <2>3, <2>4 DEF Queued, Has
  <2> QED
    BY <2>1, <2>5, <2>6, <2>7, <2>8
<1>11. CASE MatchSent
  <2>1. pc = "told_black" /\ pc' = "match" /\ UNCHANGED <<userRoom, queue, used, mate, waiting>>
    BY <1>11 DEF MatchSent, roomVars
  <2> QED
    BY <1>1, <1>2, <1>5, <2>1 DEF WaitingIsFree, MatchedAreTold, Matching, Waits, Queued, Has, InRoom
<1>12. CASE MatchDone
  <2>1. /\ pc = "match" /\ pc' = "games" /\ used' = {} /\ mate = {} /\ mate' = {}
        /\ UNCHANGED <<userRoom, waiting>>
    BY <1>1, <1>12 DEF MatchDone, roomVars, MatchedAreTold
  <2>2. /\ \A i \in DOMAIN queue' : \E n \in DOMAIN queue : queue'[i] = queue[n] /\ queue[n].user \notin used
        /\ \A n \in DOMAIN queue : queue[n].user \notin used => \E i \in DOMAIN queue' : queue'[i] = queue[n]
    BY <1>1, <1>12, RemainingEntries DEF MatchDone, Unmatched, TypeOK
  <2>3. \A u \in used : ~ waiting[u]
    BY <1>1, <2>1 DEF MatchedAreTold, Matching
  <2>4. \A n \in DOMAIN queue' : connected[queue'[n].user] /\ waiting[queue'[n].user]
    BY <1>5, <2>2 DEF Waits
  <2>5. \A u \in Users : waiting[u] => \E n \in DOMAIN queue' : queue'[n].user = u
    BY <1>5, <2>1, <2>2, <2>3 DEF Queued, Has
  <2>6. WaitingIsFree' /\ MatchedAreTold'
    BY <1>1, <1>2, <2>1 DEF WaitingIsFree, MatchedAreTold, Matching, InRoom
  <2> QED
    BY <2>1, <2>4, <2>5, <2>6
<1>13. CASE TickGames
  <2>1. pc = "games" /\ pc' = "sleep" /\ UNCHANGED <<userRoom, queue, used, mate, waiting>>
    BY <1>13 DEF TickGames, roomVars
  <2> QED
    BY <1>1, <1>2, <1>5, <2>1 DEF WaitingIsFree, MatchedAreTold, Matching, Waits, Queued, Has, InRoom
<1> QED
  BY <1>7, <1>8, <1>9, <1>10, <1>11, <1>12, <1>13

LEMMA CalmInitially == Init => CalmInv
<1> SUFFICES ASSUME Init PROVE CalmInv
  OBVIOUS
<1>1. QueueInv
  BY QueueInitially
<1>2. Settled
  BY DEF Init, Settled
<1> QED
  BY <1>1, <1>2, SettledIsCalm DEF Settled

LEMMA CalmPreserved ==
  ASSUME Calm
  PROVE  CalmInv /\ [Next]_vars => CalmInv'
<1> SUFFICES ASSUME CalmInv, [Next]_vars PROVE CalmInv'
  OBVIOUS
<1>1. QueueInv'
  BY QueuePreserved DEF CalmInv
<1>2. CASE Loop
  BY <1>1, <1>2, ExpiryKeepsCalm, MatchKeepsCalm DEF Loop
<1>3. ASSUME NEW n \in DOMAIN queue, EntryTimesOut(n) PROVE CalmInv'
  <2>1. /\ UNCHANGED <<members, presence, userRoom, pc, items, still, index, used, mate, connected, waiting>>
        /\ DOMAIN queue' = DOMAIN queue /\ \A m \in DOMAIN queue : queue'[m].user = queue[m].user
    <3>1. queue \in [DOMAIN queue -> Entry]
      BY LenProperties DEF CalmInv, QueueInv, TypeOK
    <3> QED
      BY <1>3, <3>1 DEF EntryTimesOut, roomVars, loopVars, Entry
  <2>2. EntriesWait' /\ WaitingIsFree' /\ MatchedAreTold' /\ WaitingIsQueued'
    BY <2>1 DEF CalmInv, EntriesWait, Waits, Expiring, WaitingIsFree, InRoom, MatchedAreTold, Matching,
       WaitingIsQueued, Queued, Has
  <2> QED
    BY <1>1, <2>2 DEF CalmInv
<1>4. ASSUME NEW u \in Users, Request(u) PROVE CalmInv'
  BY <1>4, RequestKeepsCalm
<1>5. CASE UNCHANGED vars
  BY <1>1, <1>5 DEF vars, roomVars, mmVars, CalmInv, EntriesWait, Waits, Expiring, WaitingIsFree, InRoom,
     MatchedAreTold, Matching, WaitingIsQueued, Queued, Has
<1> QED
  BY <1>2, <1>3, <1>4, <1>5 DEF Next

\* The queue's invariant on a calm server.
LEMMA CalmIsKept ==
  ASSUME SlowSends = FALSE, Wanderers = {}
  PROVE  Spec => []CalmInv
<1>1. Calm
  BY DEF Calm
<1>2. CalmInv /\ [Next]_vars => CalmInv'
  BY <1>1, CalmPreserved
<1> QED
  BY CalmInitially, <1>2, PTL DEF Spec

\* While no send suspends the loop and no queued user goes into a room, a window that
\* shows the queue belongs to a user who is in it.
THEOREM WaitingMeansQueued ==
  ASSUME SlowSends = FALSE, Wanderers = {}
  PROVE  Spec => []WaitingIsQueued
<1>1. CalmInv => WaitingIsQueued
  BY DEF CalmInv
<1>2. Spec => []CalmInv
  BY CalmIsKept
<1> QED
  BY <1>1, <1>2, PTL

\* A step of the match pass on a calm server matches two users or leaves the rooms alone,
\* and ends no tick early.
LEMMA CalmMatchPass ==
  ASSUME SlowSends = FALSE, CalmInv, [Next]_vars, pc = "match"
  PROVE  MatchFound \/ (UNCHANGED userRoom /\ pc' # "sleep")
<1>1. ~ MatchRaises
  BY CandidatesWait DEF MatchRaises, CanMatch
<1>2. ~ AtAwait
  BY DEF AtAwait
<1>3. \A u \in Users : ~ Request(u)
  BY <1>2 DEF Request, Play, CancelPlay, EnterRoom, ClientDisconnected, LogIn
<1>4. \A n \in DOMAIN queue : ~ EntryTimesOut(n)
  BY DEF EntryTimesOut
<1>5. CASE UNCHANGED vars
  BY <1>5 DEF vars, roomVars, mmVars
<1>6. CASE Loop
  BY <1>1, <1>6 DEF Loop, StartTick, KeepEntry, SendTimeout, TimeoutSent, ExpireDone, NobodyNear,
     TellBlack, MatchSent, MatchDone, TickGames, roomVars
<1> QED
  BY <1>3, <1>4, <1>5, <1>6 DEF Next

\* On a calm server a match is of two users who are there and whose windows show the queue.
THEOREM MatchedHaveWaited ==
  ASSUME SlowSends = FALSE, Wanderers = {}
  PROVE  Spec => MatchesThoseWhoWait
<1>1. ASSUME CalmInv, [Next]_vars, NEW u \in Users, pc = "match", ~ InRoom(u), userRoom'[u] # NoRoom
      PROVE  connected[u] /\ waiting[u]
  <2>1. MatchFound
    BY <1>1, CalmMatchPass DEF InRoom
  <2>2. u \in {Seeker, Opponent}
    BY <1>1, <2>1 DEF MatchFound, CreateMatchedRoom, CalmInv, QueueInv, TypeOK, RoomsTypeOK, InRoom
  <2> QED
    BY <1>1, <2>1, <2>2, CandidatesWait DEF MatchFound, Waits
<1>2. CalmInv /\ [Next]_vars =>
        \A u \in Users : pc = "match" /\ ~ InRoom(u) /\ userRoom'[u] # NoRoom => connected[u] /\ waiting[u]
  BY <1>1
<1>3. Spec => []CalmInv
  BY CalmIsKept
<1> QED
  BY <1>2, <1>3, PTL DEF Spec, MatchesThoseWhoWait
=============================================================================
