--------------------------- MODULE GameWindowProofs ---------------------------
(***************************************************************************)
(* What a window shows once it has caught up is what the server has, for   *)
(* every board, set of pieces and clock, and for any numbers of starts,    *)
(* logins, commands and messages under way.                                *)
(*                                                                         *)
(* The argument is about the last message that matters.  The messages that *)
(* set the board (or say that the game is over) are some of those under    *)
(* way; when the server is at rest the last of them says what the server   *)
(* has, and when none is under way the screen shows it already (Heard).    *)
(* The color is another matter: the field it is taken from may be newer    *)
(* than the event that takes it, so what counts is that nobody's role      *)
(* changes while he is connected (Outsider, RoleIsTold).                   *)
(***************************************************************************)
EXTENDS GameWindow, SequenceTheorems, TLAPS

\* The messages of a sequence.
Said(seq) == {seq[i] : i \in DOMAIN seq}

IsQueue(seq) == seq \in Seq(Said(seq))

\* No message of these types.
Silent(seq, kinds) == \A i \in DOMAIN seq : seq[i].type \notin kinds

\* The last message of these types is one of the wanted ones.
LastIs(seq, kinds, wanted) ==
  \E i \in DOMAIN seq :
    /\ seq[i] \in wanted
    /\ \A j \in DOMAIN seq : j > i => seq[j].type \notin kinds

\* Of what is on the wire and, before it, among the events, the last message of
\* these types is a wanted one; or there is none, and the screen shows it.
Heard(w, e, kinds, wanted, shown) ==
  \/ LastIs(w, kinds, wanted)
  \/ /\ Silent(w, kinds)
     /\ \/ LastIs(e, kinds, wanted)
        \/ Silent(e, kinds) /\ shown

Entering   == EnterMessages \cup {"enter_game"}
BoardKinds == Entering \cup {"state", "ack"}
OverKinds  == Entering \cup {"state", "game_over"}

SaysOver(m) == m.type = "game_over" \/ (m.type = "state" /\ m.over)

-----------------------------------------------------------------------------
\* The inductive invariant.

Books ==
  /\ IsQueue(wire) /\ IsQueue(events)
  /\ role \in Colors \cup {"viewer", Nobody}
  /\ ~ session => wire = <<>>
  /\ InRoom => room # "none"
  /\ rated => gameOver /\ Idle

\* Who is in no room has heard nothing of any, since he connected.
Outsider ==
  ~ InRoom =>
    /\ \A m \in Said(wire) \cup Said(events) : m.type = "login_ok"
    /\ ~ overShown /\ screen # "game"

\* Nobody is told too early that the game is over.
OverIsTrue ==
  /\ overShown => gameOver
  /\ \A m \in Said(wire) \cup Said(events) : SaysOver(m) => gameOver

\* What puts a user into a room names the role r.
Names(m, r) ==
  IF r = "viewer"
  THEN \/ m.type = "room_joined" /\ m.role = "viewer"
       \/ m.type = "rejoined_room" /\ m.color = "viewer"
  ELSE m.color = r

\* ("enter_game" is an event, no message.)
TellsRole(m, r) == m.type # "enter_game" /\ (m.type \in EnterMessages => Names(m, r))

RoleIsTold == \A m \in Said(wire) : TellsRole(m, role)

\* What net has, and what the screen has, of the role.
NetKnows == IF role = "viewer" THEN netRole = "viewer" \/ netColor = "viewer" ELSE netColor = role
ShownRole == IF role = "viewer" THEN netRole = "viewer" \/ myColor = "viewer" ELSE myColor = role

ColorIsKnown ==
  ~ gameOver /\ InRoom =>
    /\ (\E m \in Said(events) : m.type = "enter_game") => NetKnows
    /\ screen = "game" => ShownRole

BoardShown == screen = "game" => flying = {} /\ board = grid /\ types = kind

\* A server at rest has said how its board stands.
Quiet == Idle /\ motions = {} /\ ~ gameOver /\ InRoom /\ session

BoardIsTold == Quiet => Heard(wire, events, BoardKinds, {Snapshot}, BoardShown)

\* It has said that the game is over, if it is.
EndShown == screen = "game" => overShown

Ended == rated /\ InRoom /\ session

OverIsTold == Ended => Heard(wire, events, OverKinds, {Snapshot, MakeGameOver}, EndShown)

WindowInv ==
  /\ Books /\ Outsider /\ OverIsTrue /\ RoleIsTold
  /\ ColorIsKnown /\ BoardIsTold /\ OverIsTold

-----------------------------------------------------------------------------
\* Sequences of messages.

LEMMA Concatenated ==
  ASSUME NEW s, NEW t, IsQueue(s), IsQueue(t)
  PROVE  /\ IsQueue(s \o t)
         /\ Said(s \o t) = Said(s) \cup Said(t)
         /\ DOMAIN s = 1 .. Len(s) /\ Len(s) \in Nat
         /\ DOMAIN t = 1 .. Len(t) /\ Len(t) \in Nat
         /\ DOMAIN (s \o t) = 1 .. Len(s) + Len(t)
         /\ \A i \in DOMAIN s : i \in DOMAIN (s \o t) /\ (s \o t)[i] = s[i]
         /\ \A i \in DOMAIN t : Len(s) + i \in DOMAIN (s \o t) /\ (s \o t)[Len(s) + i] = t[i]
         /\ \A i \in DOMAIN (s \o t) : i \in DOMAIN s \/ i - Len(s) \in DOMAIN t
<1> DEFINE S == Said(s) \cup Said(t)
           st == s \o t
<1>1. s \in Seq(S) /\ t \in Seq(S)
  BY SeqMonotonic DEF IsQueue
<1>2. DOMAIN s = 1 .. Len(s) /\ Len(s) \in Nat /\ DOMAIN t = 1 .. Len(t) /\ Len(t) \in Nat
  BY <1>1, LenProperties
<1>3. /\ st \in Seq(S) /\ Len(st) = Len(s) + Len(t)
      /\ \A i \in 1 .. Len(s) + Len(t) : st[i] = IF i <= Len(s) THEN s[i] ELSE t[i - Len(s)]
  BY <1>1, ConcatProperties
<1>4. DOMAIN st = 1 .. Len(s) + Len(t)
  BY <1>3, LenProperties
<1> HIDE DEF st
<1>5. \A i \in DOMAIN s : i \in DOMAIN st /\ st[i] = s[i]
  BY <1>2, <1>3, <1>4
<1>6. \A i \in DOMAIN t : Len(s) + i \in DOMAIN st /\ st[Len(s) + i] = t[i]
  <2> TAKE i \in DOMAIN t
  <2>1. i \in Nat /\ i >= 1 /\ i <= Len(t)
    BY <1>2
  <2>2. Len(s) + i \in 1 .. Len(s) + Len(t) /\ ~ Len(s) + i <= Len(s) /\ (Len(s) + i) - Len(s) = i
    BY <2>1, <1>2
  <2> QED
    BY <2>2, <1>3, <1>4
<1>7. \A i \in DOMAIN st : \/ i \in DOMAIN s /\ st[i] = s[i]
                           \/ i - Len(s) \in DOMAIN t /\ st[i] = t[i - Len(s)]
  BY <1>2, <1>3, <1>4
<1>8. Said(st) = S
  <2>1. Said(st) \subseteq S
    BY <1>7 DEF Said
  <2>2. S \subseteq Said(st)
    BY <1>5, <1>6 DEF Said
  <2> QED
    BY <2>1, <2>2
<1>9. IsQueue(st)
  BY <1>3, <1>8 DEF IsQueue
<1> QED
  BY <1>2, <1>4, <1>5, <1>6, <1>7, <1>8, <1>9 DEF st

LEMMA Single ==
  ASSUME NEW m
  PROVE  /\ IsQueue(<<m>>) /\ Said(<<m>>) = {m}
         /\ DOMAIN <<m>> = {1} /\ <<m>>[1] = m
<1>1. DOMAIN <<m>> = {1} /\ <<m>>[1] = m /\ <<m>> \in Seq({m})
  OBVIOUS
<1> QED
  BY <1>1 DEF IsQueue, Said

LEMMA Pair ==
  ASSUME NEW m, NEW n
  PROVE  /\ IsQueue(<<m, n>>) /\ Said(<<m, n>>) = {m, n}
         /\ DOMAIN <<m, n>> = {1, 2} /\ <<m, n>>[1] = m /\ <<m, n>>[2] = n
<1>1. DOMAIN <<m, n>> = {1, 2} /\ <<m, n>>[1] = m /\ <<m, n>>[2] = n /\ <<m, n>> \in Seq({m, n})
  OBVIOUS
<1> QED
  BY <1>1 DEF IsQueue, Said

LEMMA Empty == IsQueue(<<>>) /\ Said(<<>>) = {} /\ DOMAIN <<>> = {}
<1>1. DOMAIN <<>> = {}
  OBVIOUS
<1>2. Said(<<>>) = {}
  BY <1>1 DEF Said
<1>3. <<>> \in Seq({})
  OBVIOUS
<1> QED
  BY <1>1, <1>2, <1>3 DEF IsQueue

\* Append(s, m) is s \o <<m>>.
LEMMA Appended ==
  ASSUME NEW s, NEW m, IsQueue(s)
  PROVE  Append(s, m) = s \o <<m>>
<1>1. s \in Seq(Said(s) \cup {m}) /\ m \in Said(s) \cup {m}
  BY SeqMonotonic DEF IsQueue
<1> QED
  BY <1>1, AppendIsConcat

LEMMA Rest ==
  ASSUME NEW s, IsQueue(s), s # <<>>
  PROVE  /\ IsQueue(Tail(s))
         /\ Head(s) = s[1] /\ 1 \in DOMAIN s
         /\ Head(s) \in Said(s) /\ Said(Tail(s)) \subseteq Said(s)
         /\ DOMAIN s = 1 .. Len(s) /\ Len(s) \in Nat
         /\ DOMAIN Tail(s) = 1 .. Len(s) - 1
         /\ \A i \in DOMAIN Tail(s) : i + 1 \in DOMAIN s /\ Tail(s)[i] = s[i + 1]
         /\ \A i \in DOMAIN s : i = 1 \/ i - 1 \in DOMAIN Tail(s)
<1> DEFINE S == Said(s)
           t == Tail(s)
<1>1. s \in Seq(S)
  BY DEF IsQueue
<1>2. /\ DOMAIN s = 1 .. Len(s) /\ Len(s) \in Nat /\ Len(s) # 0
  BY <1>1, LenProperties, EmptySeq
<1>3. /\ t \in Seq(S) /\ Len(t) = Len(s) - 1
      /\ \A i \in 1 .. Len(t) : t[i] = s[i + 1]
  BY <1>1, HeadTailProperties
<1>4. DOMAIN t = 1 .. Len(s) - 1
  BY <1>3, LenProperties
<1>5. Head(s) = s[1] /\ 1 \in DOMAIN s
  BY <1>1, <1>2
<1> HIDE DEF t
<1>6. \A i \in DOMAIN t : i + 1 \in DOMAIN s /\ t[i] = s[i + 1]
  BY <1>2, <1>3, <1>4
<1>7. \A i \in DOMAIN s : i = 1 \/ i - 1 \in DOMAIN t
  BY <1>2, <1>4
<1>8. Said(t) \subseteq S /\ Head(s) \in S
  BY <1>5, <1>6 DEF Said
<1>9. t \in Seq(Said(t))
  <2>1. Len(t) \in Nat /\ DOMAIN t = 1 .. Len(t) /\ t \in [1 .. Len(t) -> S]
    BY <1>3, LenProperties
  <2>2. t \in [1 .. Len(t) -> Said(t)]
    BY <2>1 DEF Said
  <2> QED
    BY <2>1, <2>2, SeqDef
<1> QED
  BY <1>2, <1>4, <1>5, <1>6, <1>7, <1>8, <1>9 DEF IsQueue, t

\* The last of the messages that matter, in a longer sequence and in its rest.
LEMMA LastOfConcatenated ==
  ASSUME NEW s, NEW t, IsQueue(s), IsQueue(t), NEW kinds, NEW wanted
  PROVE  /\ LastIs(t, kinds, wanted) => LastIs(s \o t, kinds, wanted)
         /\ LastIs(s, kinds, wanted) /\ Silent(t, kinds) => LastIs(s \o t, kinds, wanted)
         /\ Silent(s, kinds) /\ Silent(t, kinds) => Silent(s \o t, kinds)
<1> DEFINE st == s \o t
<1>1. /\ DOMAIN s = 1 .. Len(s) /\ Len(s) \in Nat
      /\ DOMAIN t = 1 .. Len(t) /\ Len(t) \in Nat
      /\ DOMAIN st = 1 .. Len(s) + Len(t)
      /\ \A i \in DOMAIN s : i \in DOMAIN st /\ st[i] = s[i]
      /\ \A i \in DOMAIN t : Len(s) + i \in DOMAIN st /\ st[Len(s) + i] = t[i]
      /\ \A i \in DOMAIN st : i \in DOMAIN s \/ i - Len(s) \in DOMAIN t
  BY Concatenated
<1> HIDE DEF st
<1>2. ASSUME NEW j \in DOMAIN st, j - Len(s) \in DOMAIN t
      PROVE  st[j] = t[j - Len(s)]
  <2>1. Len(s) + (j - Len(s)) = j
    BY <1>1
  <2> QED
    BY <2>1, <1>1, <1>2
<1>3. ASSUME LastIs(t, kinds, wanted)
      PROVE  LastIs(st, kinds, wanted)
  <2>1. PICK i \in DOMAIN t : /\ t[i] \in wanted
                              /\ \A j \in DOMAIN t : j > i => t[j].type \notin kinds
    BY <1>3 DEF LastIs
  <2>2. Len(s) + i \in DOMAIN st /\ st[Len(s) + i] \in wanted
    BY <1>1, <2>1
  <2>3. ASSUME NEW j \in DOMAIN st, j > Len(s) + i
        PROVE  st[j].type \notin kinds
    <3>1. j - Len(s) \in DOMAIN t /\ j - Len(s) > i
      BY <1>1, <2>3
    <3> QED
      BY <3>1, <2>1, <1>2
  <2> QED
    BY <2>2, <2>3 DEF LastIs
<1>4. ASSUME LastIs(s, kinds, wanted), Silent(t, kinds)
      PROVE  LastIs(st, kinds, wanted)
  <2>1. PICK i \in DOMAIN s : /\ s[i] \in wanted
                              /\ \A j \in DOMAIN s : j > i => s[j].type \notin kinds
    BY <1>4 DEF LastIs
  <2>2. i \in DOMAIN st /\ st[i] \in wanted
    BY <1>1, <2>1
  <2>3. ASSUME NEW j \in DOMAIN st, j > i
        PROVE  st[j].type \notin kinds
    <3>1. CASE j \in DOMAIN s
      BY <3>1, <2>1, <2>3, <1>1
    <3>2. CASE j - Len(s) \in DOMAIN t
      BY <3>2, <1>2, <1>4 DEF Silent
    <3> QED
      BY <3>1, <3>2, <1>1
  <2> QED
    BY <2>2, <2>3 DEF LastIs
<1>5. ASSUME Silent(s, kinds), Silent(t, kinds)
      PROVE  Silent(st, kinds)
  <2> SUFFICES ASSUME NEW j \in DOMAIN st PROVE st[j].type \notin kinds
    BY DEF Silent
  <2>1. CASE j \in DOMAIN s
    BY <2>1, <1>1, <1>5 DEF Silent
  <2>2. CASE j - Len(s) \in DOMAIN t
    BY <2>2, <1>2, <1>5 DEF Silent
  <2> QED
    BY <2>1, <2>2, <1>1
<1> QED
  BY <1>3, <1>4, <1>5 DEF st

LEMMA LastOfRest ==
  ASSUME NEW s, IsQueue(s), s # <<>>, NEW kinds, NEW wanted
  PROVE  /\ Silent(s, kinds) => Silent(Tail(s), kinds) /\ Head(s).type \notin kinds
         /\ LastIs(s, kinds, wanted) =>
              \/ LastIs(Tail(s), kinds, wanted)
              \/ Head(s) \in wanted /\ Silent(Tail(s), kinds)
<1> DEFINE t == Tail(s)
<1>1. /\ Head(s) = s[1] /\ 1 \in DOMAIN s
      /\ DOMAIN s = 1 .. Len(s) /\ Len(s) \in Nat
      /\ DOMAIN t = 1 .. Len(s) - 1
      /\ \A i \in DOMAIN t : i + 1 \in DOMAIN s /\ t[i] = s[i + 1]
      /\ \A i \in DOMAIN s : i = 1 \/ i - 1 \in DOMAIN t
  BY Rest
<1> HIDE DEF t
<1>2. Silent(s, kinds) => Silent(t, kinds) /\ Head(s).type \notin kinds
  BY <1>1 DEF Silent
<1>3. ASSUME LastIs(s, kinds, wanted)
      PROVE  LastIs(t, kinds, wanted) \/ (Head(s) \in wanted /\ Silent(t, kinds))
  <2>1. PICK i \in DOMAIN s : /\ s[i] \in wanted
                              /\ \A j \in DOMAIN s : j > i => s[j].type \notin kinds
    BY <1>3 DEF LastIs
  <2>2. \A j \in DOMAIN t : j + 1 > i => t[j].type \notin kinds
    BY <1>1, <2>1
  <2>3. CASE i = 1
    <3>1. \A j \in DOMAIN t : j + 1 > 1
      BY <1>1
    <3>2. Silent(t, kinds)
      BY <2>2, <2>3, <3>1 DEF Silent
    <3> QED
      BY <3>2, <2>1, <2>3, <1>1
  <2>4. CASE i # 1
    <3>1. i - 1 \in DOMAIN t /\ (i - 1) + 1 = i
      BY <2>4, <1>1
    <3>2. t[i - 1] \in wanted
      BY <3>1, <2>1, <1>1
    <3>3. \A j \in DOMAIN t : j > i - 1 => j + 1 > i
      BY <1>1
    <3> QED
      BY <3>1, <3>2, <3>3, <2>2 DEF LastIs
  <2> QED
    BY <2>3, <2>4
<1> QED
  BY <1>2, <1>3 DEF t

LEMMA LastOfOne ==
  ASSUME NEW m, NEW kinds, NEW wanted
  PROVE  /\ m \in wanted => LastIs(<<m>>, kinds, wanted)
         /\ m.type \notin kinds => Silent(<<m>>, kinds)
<1>1. DOMAIN <<m>> = {1} /\ <<m>>[1] = m
  BY Single
<1>2. ~ 1 > 1
  OBVIOUS
<1> QED
  BY <1>1, <1>2 DEF LastIs, Silent

LEMMA LastOfTwo ==
  ASSUME NEW m, NEW n, NEW kinds, NEW wanted, n \in wanted
  PROVE  LastIs(<<m, n>>, kinds, wanted)
<1>1. DOMAIN <<m, n>> = {1, 2} /\ <<m, n>>[2] = n
  BY Pair
<1>2. ~ 1 > 2 /\ ~ 2 > 2
  OBVIOUS
<1> QED
  BY <1>1, <1>2 DEF LastIs

-----------------------------------------------------------------------------
\* What is heard, whatever goes on between the server and the screen.

\* The server tells something wanted, or something that does not matter.
LEMMA HeardWhenTold ==
  ASSUME NEW w, NEW e, NEW t, IsQueue(w), IsQueue(t), NEW kinds, NEW wanted, NEW shown,
         \/ LastIs(t, kinds, wanted)
         \/ Silent(t, kinds) /\ Heard(w, e, kinds, wanted, shown)
  PROVE  Heard(w \o t, e, kinds, wanted, shown)
BY LastOfConcatenated DEF Heard

\* A message becomes an event of the same sort, and the wanted ones stay as they are.
LEMMA HeardWhenReceived ==
  ASSUME NEW w, NEW e, IsQueue(w), IsQueue(e), w # <<>>, NEW x,
         NEW kinds, NEW wanted, NEW shown,
         Head(w) \in wanted => x = Head(w),
         x.type \in kinds <=> Head(w).type \in kinds,
         Heard(w, e, kinds, wanted, shown)
  PROVE  Heard(Tail(w), Append(e, x), kinds, wanted, shown)
<1>1. Append(e, x) = e \o <<x>> /\ IsQueue(<<x>>)
  BY Appended, Single
<1>2. /\ x \in wanted => LastIs(Append(e, x), kinds, wanted)
      /\ LastIs(e, kinds, wanted) /\ x.type \notin kinds => LastIs(Append(e, x), kinds, wanted)
      /\ Silent(e, kinds) /\ x.type \notin kinds => Silent(Append(e, x), kinds)
  BY <1>1, LastOfConcatenated, LastOfOne
<1> QED
  BY <1>2, LastOfRest DEF Heard

\* Something that does not matter becomes an event.
LEMMA HeardWhenQueued ==
  ASSUME NEW w, NEW e, IsQueue(e), NEW x, NEW kinds, NEW wanted, NEW shown,
         x.type \notin kinds,
         Heard(w, e, kinds, wanted, shown)
  PROVE  Heard(w, Append(e, x), kinds, wanted, shown)
<1>1. Append(e, x) = e \o <<x>> /\ IsQueue(<<x>>)
  BY Appended, Single
<1>2. /\ LastIs(e, kinds, wanted) => LastIs(Append(e, x), kinds, wanted)
      /\ Silent(e, kinds) => Silent(Append(e, x), kinds)
  BY <1>1, LastOfConcatenated, LastOfOne
<1> QED
  BY <1>2 DEF Heard

\* The screen takes an event: after a wanted one it shows what it should, and
\* one that does not matter leaves it so.
LEMMA HeardWhenShown ==
  ASSUME NEW w, NEW e, IsQueue(e), e # <<>>, NEW kinds, NEW wanted,
         NEW shown \in BOOLEAN, NEW after \in BOOLEAN,
         Head(e) \in wanted => after,
         Head(e).type \notin kinds /\ shown => after,
         Heard(w, e, kinds, wanted, shown)
  PROVE  Heard(w, Tail(e), kinds, wanted, after)
BY LastOfRest DEF Heard

-----------------------------------------------------------------------------
\* What the invariant looks at.
screenVars == <<events, screen, board, types, flying, overShown, myColor, netRole, netColor>>
gameStateVars == <<grid, kind, gameOver>>

\* Whatever the server does is harmless if what it tells, t, is true of it
\* afterwards, and tells enough.
LEMMA ServerTells ==
  ASSUME WindowInv, NEW t, IsQueue(t),
         UNCHANGED screenVars,
         wire' = IF session' THEN wire \o t ELSE wire,
         session => session',
         role' \in Colors \cup {"viewer", Nobody},
         InRoom' => room' # "none",
         rated' => gameOver' /\ Idle',
         InRoom => role' = role /\ (gameOver => gameOver'),
         \A m \in Said(t) : /\ SaysOver(m) => gameOver'
                            /\ InRoom' \/ m.type = "login_ok"
                            /\ TellsRole(m, role'),
         Quiet' => \/ LastIs(t, BoardKinds, {Snapshot'})
                   \/ Silent(t, BoardKinds) /\ Quiet /\ UNCHANGED gameStateVars,
         Ended' => \/ LastIs(t, OverKinds, {Snapshot', MakeGameOver})
                   \/ Silent(t, OverKinds) /\ Ended /\ UNCHANGED gameStateVars
  PROVE  WindowInv'
<1>1. /\ Books /\ Outsider /\ OverIsTrue /\ RoleIsTold
      /\ ColorIsKnown /\ BoardIsTold /\ OverIsTold
      /\ IsQueue(wire) /\ IsQueue(events)
  BY DEF WindowInv, Books
<1>2. UNCHANGED <<events, screen, board, types, flying, overShown, myColor, netRole, netColor>>
  BY DEF screenVars
<1>3. /\ IsQueue(wire') /\ Said(wire') \subseteq Said(wire) \cup Said(t)
      /\ Said(events') = Said(events)
  BY <1>1, <1>2, Concatenated
<1>4. Books'
  BY <1>1, <1>2, <1>3 DEF Books
<1>5. Outsider'
  <2> SUFFICES ASSUME ~ InRoom'
               PROVE  /\ \A m \in Said(wire') \cup Said(events') : m.type = "login_ok"
                      /\ ~ overShown' /\ screen' # "game"
    BY DEF Outsider
  <2>1. ~ InRoom
    BY DEF InRoom
  <2>2. /\ \A m \in Said(wire) \cup Said(events) : m.type = "login_ok"
        /\ ~ overShown /\ screen # "game"
    BY <1>1, <2>1 DEF Outsider
  <2>3. \A m \in Said(t) : m.type = "login_ok"
    OBVIOUS
  <2> QED
    BY <1>2, <1>3, <2>2, <2>3
<1>6. OverIsTrue'
  <2>1. CASE gameOver'
    BY <2>1 DEF OverIsTrue
  <2>2. CASE ~ gameOver'
    <3>1. ~ overShown /\ \A m \in Said(wire) \cup Said(events) : ~ SaysOver(m)
      <4>1. CASE InRoom
        BY <4>1, <2>2, <1>1 DEF OverIsTrue
      <4>2. CASE ~ InRoom
        BY <4>2, <1>1 DEF Outsider, SaysOver
      <4> QED
        BY <4>1, <4>2
    <3> QED
      BY <3>1, <2>2, <1>2, <1>3 DEF OverIsTrue
  <2> QED
    BY <2>1, <2>2
<1>7. RoleIsTold'
  <2> SUFFICES ASSUME NEW m \in Said(wire')
               PROVE  TellsRole(m, role')
    BY DEF RoleIsTold
  <2>1. CASE m \in Said(t)
    BY <2>1
  <2>2. CASE m \in Said(wire) /\ InRoom
    BY <2>2, <1>1 DEF RoleIsTold
  <2>3. CASE m \in Said(wire) /\ ~ InRoom
    BY <2>3, <1>1 DEF Outsider, TellsRole, EnterMessages
  <2> QED
    BY <2>1, <2>2, <2>3, <1>3
<1>8. ColorIsKnown'
  <2> SUFFICES ASSUME ~ gameOver', InRoom'
               PROVE  /\ (\E m \in Said(events') : m.type = "enter_game") => NetKnows'
                      /\ screen' = "game" => ShownRole'
    BY DEF ColorIsKnown
  <2>1. CASE InRoom
    BY <2>1, <1>1, <1>2, <1>3 DEF ColorIsKnown, NetKnows, ShownRole
  <2>2. CASE ~ InRoom
    BY <2>2, <1>1, <1>2, <1>3 DEF Outsider
  <2> QED
    BY <2>1, <2>2
<1>9. BoardIsTold'
  <2> SUFFICES ASSUME Quiet'
               PROVE  Heard(wire', events, BoardKinds, {Snapshot'}, BoardShown')
    BY <1>2 DEF BoardIsTold
  <2>1. wire' = wire \o t
    BY DEF Quiet
  <2>2. CASE LastIs(t, BoardKinds, {Snapshot'})
    BY <2>1, <2>2, <1>1, HeardWhenTold
  <2>3. CASE Silent(t, BoardKinds) /\ Quiet /\ UNCHANGED gameStateVars
    <3>1. Snapshot' = Snapshot /\ (BoardShown' <=> BoardShown)
      BY <2>3, <1>2 DEF gameStateVars, Snapshot, BoardShown
    <3>2. Heard(wire, events, BoardKinds, {Snapshot}, BoardShown)
      BY <2>3, <1>1 DEF BoardIsTold
    <3>3. Heard(wire, events, BoardKinds, {Snapshot'}, BoardShown')
      BY <3>1, <3>2 DEF Heard
    <3> QED
      BY <2>1, <2>3, <3>3, <1>1, HeardWhenTold
  <2> QED
    BY <2>2, <2>3
<1>10. OverIsTold'
  <2> SUFFICES ASSUME Ended'
               PROVE  Heard(wire', events, OverKinds, {Snapshot', MakeGameOver}, EndShown')
    BY <1>2 DEF OverIsTold, MakeGameOver
  <2>1. wire' = wire \o t
    BY DEF Ended
  <2>2. CASE LastIs(t, OverKinds, {Snapshot', MakeGameOver})
    BY <2>1, <2>2, <1>1, HeardWhenTold
  <2>3. CASE Silent(t, OverKinds) /\ Ended /\ UNCHANGED gameStateVars
    <3>1. Snapshot' = Snapshot /\ (EndShown' <=> EndShown)
      BY <2>3, <1>2 DEF gameStateVars, Snapshot, EndShown
    <3>2. Heard(wire, events, OverKinds, {Snapshot, MakeGameOver}, EndShown)
      BY <2>3, <1>1 DEF OverIsTold
    <3>3. Heard(wire, events, OverKinds, {Snapshot', MakeGameOver}, EndShown')
      BY <3>1, <3>2 DEF Heard
    <3> QED
      BY <2>1, <2>3, <3>3, <1>1, HeardWhenTold
  <2> QED
    BY <2>2, <2>3
<1> QED
  BY <1>4, <1>5, <1>6, <1>7, <1>8, <1>9, <1>10 DEF WindowInv

\* It may also tell nothing.
LEMMA ServerIsSilent ==
  ASSUME WindowInv, UNCHANGED screenVars, UNCHANGED wire,
         session' = session,
         role' \in Colors \cup {"viewer", Nobody},
         InRoom' => room' # "none",
         rated' => gameOver' /\ Idle',
         InRoom => role' = role /\ (gameOver => gameOver'),
         Quiet' => Quiet /\ UNCHANGED gameStateVars,
         Ended' => Ended /\ UNCHANGED gameStateVars
  PROVE  WindowInv'
<1>1. /\ IsQueue(<<>>) /\ Said(<<>>) = {}
      /\ \A kinds : Silent(<<>>, kinds)
  BY Empty DEF Silent
<1>2. wire \o <<>> = wire
  BY ConcatEmptySeq DEF WindowInv, Books, IsQueue
<1> QED
  BY <1>1, <1>2, ServerTells

\* Nothing the invariant looks at has changed.
LEMMA NothingHappens ==
  ASSUME WindowInv, UNCHANGED <<screenVars, wire, seatVars, engineVars, ticking, rated>>
  PROVE  WindowInv'
<1>1. /\ session' = session /\ role' = role /\ room' = room /\ rated' = rated
      /\ gameOver' = gameOver /\ grid' = grid /\ kind' = kind /\ motions' = motions
      /\ landing' = landing /\ ticking' = ticking
  BY DEF seatVars, engineVars
<1>2. /\ InRoom' <=> InRoom
      /\ Idle' <=> Idle
      /\ UNCHANGED gameStateVars
      /\ Quiet' <=> Quiet
      /\ Ended' <=> Ended
  BY <1>1 DEF InRoom, Idle, Quiet, Ended, gameStateVars
<1> QED
  BY <1>1, <1>2, ServerIsSilent DEF WindowInv, Books

-----------------------------------------------------------------------------
\* The messages.

LEMMA MessageKinds ==
  /\ MakeLoginOk.type = "login_ok" /\ MakeGameOver.type = "game_over"
  /\ RoomCreated.type = "room_created" /\ RoomCreated.color = "w"
  /\ \A r, c : /\ RoomJoined(r, c).type = "room_joined"
               /\ RoomJoined(r, c).role = r /\ RoomJoined(r, c).color = c
  /\ \A c : RejoinedRoom(c).type = "rejoined_room" /\ RejoinedRoom(c).color = c
  /\ \A c : MatchFound(c).type = "match_found" /\ MatchFound(c).color = c
  /\ \A a, b : MakeAck(a, b).type = "ack"
  /\ \A a, b, c : /\ MakeState(a, b, c).type = "state" /\ MakeState(a, b, c).over = c
                  /\ MakeState(a, b, c).pieces = a /\ MakeState(a, b, c).kinds = b
BY DEF MakeLoginOk, MakeGameOver, RoomCreated, RoomJoined, RejoinedRoom, MatchFound, MakeAck,
       MakeState

\* What a login adds for somebody who is in a room.
LEMMA RejoinTells ==
  /\ IsQueue(Rejoin)
  /\ InRoom => \A kinds, wanted : Snapshot \in wanted => LastIs(Rejoin, kinds, wanted)
  /\ \A m \in Said(Rejoin) : /\ SaysOver(m) => gameOver
                             /\ InRoom
                             /\ TellsRole(m, role)
<1>1. CASE InRoom
  <2>1. Rejoin = <<RejoinedRoom(role), Snapshot>>
    BY <1>1 DEF Rejoin
  <2>2. IsQueue(Rejoin) /\ Said(Rejoin) = {RejoinedRoom(role), Snapshot}
    BY <2>1, Pair
  <2>3. ASSUME NEW kinds, NEW wanted, Snapshot \in wanted
        PROVE  LastIs(Rejoin, kinds, wanted)
    BY <2>1, <2>3, LastOfTwo
  <2>4. /\ ~ SaysOver(RejoinedRoom(role)) /\ TellsRole(RejoinedRoom(role), role)
        /\ SaysOver(Snapshot) => gameOver
        /\ TellsRole(Snapshot, role)
    BY MessageKinds DEF SaysOver, TellsRole, Names, Snapshot, EnterMessages
  <2> QED
    BY <1>1, <2>2, <2>3, <2>4
<1>2. CASE ~ InRoom
  BY <1>2, Empty DEF Rejoin
<1> QED
  BY <1>1, <1>2

-----------------------------------------------------------------------------
\* The message router.

LEMMA OnAuthKeepsInv ==
  ASSUME WindowInv, Idle, UNCHANGED screenVars, UNCHANGED ticking, OnAuth
  PROVE  WindowInv'
<1>1. /\ session' = TRUE /\ wire' = wire \o Rejoin
      /\ UNCHANGED <<room, role, rated>> /\ UNCHANGED <<grid, kind, motions, landing, gameOver>>
  BY DEF OnAuth, engineVars
<1>2. /\ InRoom' <=> InRoom
      /\ Idle' <=> Idle
      /\ Snapshot' = Snapshot
      /\ Quiet' => InRoom
      /\ Ended' => InRoom
  BY <1>1 DEF InRoom, Idle, Snapshot, Quiet, Ended
<1>3. Books
  BY DEF WindowInv
<1>4. /\ Quiet' => LastIs(Rejoin, BoardKinds, {Snapshot'})
      /\ Ended' => LastIs(Rejoin, OverKinds, {Snapshot', MakeGameOver})
  BY <1>2, RejoinTells
<1>5. \A m \in Said(Rejoin) : /\ SaysOver(m) => gameOver'
                              /\ InRoom' \/ m.type = "login_ok"
                              /\ TellsRole(m, role')
  BY <1>1, <1>2, RejoinTells
<1>6. /\ role' \in Colors \cup {"viewer", Nobody}
      /\ InRoom' => room' # "none"
      /\ rated' => gameOver' /\ Idle'
      /\ InRoom => role' = role /\ (gameOver => gameOver')
  BY <1>1, <1>2, <1>3 DEF Books
<1> QED
  BY <1>1, <1>4, <1>5, <1>6, RejoinTells, ServerTells

LEMMA OnLoginKeepsInv ==
  ASSUME WindowInv, Idle, UNCHANGED screenVars, UNCHANGED ticking, OnLogin
  PROVE  WindowInv'
<1>1. /\ UNCHANGED <<room, role, rated>> /\ UNCHANGED <<grid, kind, motions, landing, gameOver>>
      /\ UNCHANGED <<queued, engineVars>>
  BY DEF OnLogin, engineVars
<1>2. CASE UNCHANGED <<session, away, wire>>
  BY <1>1, <1>2, NothingHappens DEF seatVars
<1>3. CASE session' = TRUE /\ wire' = wire \o <<MakeLoginOk>> \o Rejoin
  <2> DEFINE t == <<MakeLoginOk>> \o Rejoin
  <2>1. /\ InRoom' <=> InRoom
        /\ Idle' <=> Idle
        /\ Snapshot' = Snapshot
        /\ Quiet' => InRoom
        /\ Ended' => InRoom
    BY <1>1 DEF InRoom, Idle, Snapshot, Quiet, Ended
  <2>2. Books
    BY DEF WindowInv
  <2>3. IsQueue(<<MakeLoginOk>>) /\ Said(<<MakeLoginOk>>) = {MakeLoginOk}
    BY Single
  <2>4. IsQueue(t) /\ Said(t) = {MakeLoginOk} \cup Said(Rejoin)
    BY <2>3, RejoinTells, Concatenated
  <2>5. wire' = wire \o t
    <3> DEFINE S == Said(wire) \cup Said(<<MakeLoginOk>>) \cup Said(Rejoin)
    <3>1. wire \in Seq(S) /\ <<MakeLoginOk>> \in Seq(S) /\ Rejoin \in Seq(S)
      BY <2>2, <2>3, RejoinTells, SeqMonotonic DEF Books, IsQueue
    <3> QED
      BY <3>1, <1>3, ConcatAssociative
  <2>6. \A kinds, wanted : InRoom /\ Snapshot \in wanted => LastIs(t, kinds, wanted)
    BY <2>3, RejoinTells, LastOfConcatenated
  <2> HIDE DEF t
  <2>7. /\ Quiet' => LastIs(t, BoardKinds, {Snapshot'})
        /\ Ended' => LastIs(t, OverKinds, {Snapshot', MakeGameOver})
    BY <2>1, <2>6
  <2>8. ~ SaysOver(MakeLoginOk) /\ MakeLoginOk.type = "login_ok" /\ TellsRole(MakeLoginOk, role)
    BY MessageKinds DEF SaysOver, TellsRole, EnterMessages
  <2>9. \A m \in Said(t) : /\ SaysOver(m) => gameOver'
                           /\ InRoom' \/ m.type = "login_ok"
                           /\ TellsRole(m, role')
    BY <1>1, <2>1, <2>4, <2>8, RejoinTells
  <2>10. /\ role' \in Colors \cup {"viewer", Nobody}
         /\ InRoom' => room' # "none"
         /\ rated' => gameOver' /\ Idle'
         /\ InRoom => role' = role /\ (gameOver => gameOver')
    BY <1>1, <2>1, <2>2 DEF Books
  <2> QED
    BY <1>3, <2>4, <2>5, <2>7, <2>9, <2>10, ServerTells
<1> QED
  BY <1>2, <1>3 DEF OnLogin

\* A command that asks for nothing a room depends on, or is refused.
LEMMA LightCommandsKeepInv ==
  ASSUME WindowInv, UNCHANGED screenVars, UNCHANGED ticking,
         Refuse \/ OnPlay \/ OnCancelPlay \/ OnUnauthenticated
  PROVE  WindowInv'
<1>1. /\ session' = session /\ role' = role /\ room' = room /\ rated' = rated /\ wire' = wire
      /\ gameOver' = gameOver /\ grid' = grid /\ kind' = kind /\ motions' = motions
      /\ landing' = landing /\ ticking' = ticking
  BY DEF Refuse, OnPlay, OnCancelPlay, OnUnauthenticated, seatVars, engineVars
<1>2. /\ InRoom' <=> InRoom
      /\ Idle' <=> Idle
      /\ UNCHANGED gameStateVars
      /\ Quiet' <=> Quiet
      /\ Ended' <=> Ended
  BY <1>1 DEF InRoom, Idle, Quiet, Ended, gameStateVars
<1> QED
  BY <1>1, <1>2, ServerIsSilent DEF WindowInv, Books

\* Both ways into a fresh game: the user's room is told its first board.
LEMMA NewGameKeepsInv ==
  ASSUME WindowInv, Idle, ~ InRoom, UNCHANGED screenVars, UNCHANGED <<ticking, session>>,
         NewGame, room' # "none", role' \in Colors,
         NEW enters, enters.type \in EnterMessages, enters.color = role',
         Tell(<<enters, NewSnapshot>>)
  PROVE  WindowInv'
<1> DEFINE t == <<enters, NewSnapshot>>
<1>1. /\ wire' = IF session' THEN wire \o t ELSE wire
      /\ session => session'
      /\ ~ gameOver' /\ ~ rated'
      /\ NewSnapshot = Snapshot'
  BY DEF Tell, NewGame, NewSnapshot, Snapshot
<1>2. IsQueue(t) /\ Said(t) = {enters, Snapshot'}
  BY <1>1, Pair
<1>3. \A kinds, wanted : Snapshot' \in wanted => LastIs(t, kinds, wanted)
  BY <1>1, LastOfTwo
<1> HIDE DEF t
<1>4. InRoom'
  BY NobodyAssumption DEF InRoom
<1>5. role' # "viewer"
  BY DEF Colors
<1>6. /\ ~ SaysOver(enters) /\ TellsRole(enters, role')
      /\ ~ SaysOver(Snapshot') /\ TellsRole(Snapshot', role')
  <2>1. ~ SaysOver(enters)
    BY DEF SaysOver, EnterMessages
  <2>2. Snapshot'.type = "state" /\ Snapshot'.over = gameOver'
    BY MessageKinds DEF Snapshot
  <2>3. ~ SaysOver(Snapshot') /\ TellsRole(Snapshot', role')
    BY <1>1, <2>2 DEF SaysOver, TellsRole, EnterMessages
  <2>4. TellsRole(enters, role')
    BY <1>5 DEF TellsRole, Names, EnterMessages
  <2> QED
    BY <2>1, <2>3, <2>4
<1>7. \A m \in Said(t) : /\ SaysOver(m) => gameOver'
                         /\ InRoom' \/ m.type = "login_ok"
                         /\ TellsRole(m, role')
  BY <1>2, <1>4, <1>6
<1>8. ~ Ended'
  BY <1>1 DEF Ended
<1> QED
  BY <1>1, <1>2, <1>3, <1>7, <1>8, ServerTells

LEMMA OnRoomCreateKeepsInv ==
  ASSUME WindowInv, Idle, UNCHANGED screenVars, UNCHANGED ticking, OnRoomCreate
  PROVE  WindowInv'
<1>1. CASE Refuse
  BY <1>1, LightCommandsKeepInv
<1>2. CASE ~ Refuse
  <2>1. /\ ~ InRoom /\ room' = "lone" /\ role' = "w" /\ NewGame
        /\ Tell(<<RoomCreated, NewSnapshot>>) /\ session' = session
    BY <1>2 DEF OnRoomCreate
  <2>2. RoomCreated.type \in EnterMessages /\ RoomCreated.color = role' /\ role' \in Colors
    BY <2>1, MessageKinds DEF EnterMessages, Colors
  <2> QED
    BY <2>1, <2>2, NewGameKeepsInv
<1> QED
  BY <1>1, <1>2

LEMMA OnRoomJoinKeepsInv ==
  ASSUME WindowInv, Idle, UNCHANGED screenVars, UNCHANGED ticking, OnRoomJoin
  PROVE  WindowInv'
<1>1. CASE Refuse
  BY <1>1, LightCommandsKeepInv
<1>2. CASE ~ Refuse
  <2> DEFINE joined == RoomJoined(JoinRole, IF JoinRole = "b" THEN "b" ELSE "w")
             t == <<joined, Snapshot>>
  <2>1. /\ ~ InRoom /\ role' = JoinRole /\ room' = "paired" /\ Tell(t)
        /\ session' = session /\ UNCHANGED <<rated, grid, kind, motions, landing, gameOver>>
    BY <1>2 DEF OnRoomJoin, engineVars
  <2>2. /\ wire' = IF session' THEN wire \o t ELSE wire
        /\ session => session'
        /\ Snapshot' = Snapshot
        /\ Idle' <=> Idle
    BY <2>1 DEF Tell, Snapshot, Idle
  <2>3. JoinRole \in {"b", "viewer"}
    BY DEF JoinRole
  <2>4. /\ joined.type = "room_joined" /\ joined.role = JoinRole
        /\ joined.color = IF JoinRole = "b" THEN "b" ELSE "w"
    BY MessageKinds
  <2>5. IsQueue(t) /\ Said(t) = {joined, Snapshot}
    BY Pair
  <2>6. \A kinds, wanted : Snapshot \in wanted => LastIs(t, kinds, wanted)
    BY LastOfTwo
  <2> HIDE DEF t, joined
  <2>7. role' \in Colors \cup {"viewer", Nobody} /\ InRoom'
    BY <2>1, <2>3, NobodyAssumption DEF InRoom, Colors
  <2>8. ~ SaysOver(joined) /\ TellsRole(joined, role')
    BY <2>1, <2>3, <2>4 DEF SaysOver, TellsRole, Names
  <2>9. TellsRole(Snapshot, role') /\ (SaysOver(Snapshot) => gameOver)
    BY MessageKinds DEF Snapshot, SaysOver, TellsRole, EnterMessages
  <2>10. \A m \in Said(t) : /\ SaysOver(m) => gameOver'
                            /\ InRoom' \/ m.type = "login_ok"
                            /\ TellsRole(m, role')
    BY <2>1, <2>5, <2>7, <2>8, <2>9
  <2>11. rated' => gameOver' /\ Idle'
    BY <2>1, <2>2 DEF WindowInv, Books
  <2>12. /\ Quiet' => LastIs(t, BoardKinds, {Snapshot'})
         /\ Ended' => LastIs(t, OverKinds, {Snapshot', MakeGameOver})
    BY <2>2, <2>6
  <2>13. room' # "none"
    BY <2>1
  <2> QED
    BY <2>1, <2>2, <2>5, <2>7, <2>10, <2>11, <2>12, <2>13, ServerTells
<1> QED
  BY <1>1, <1>2

\* A player's move and its ack: something flies from now on.
LEMMA MoveKeepsInv ==
  ASSUME WindowInv, Idle, UNCHANGED screenVars, UNCHANGED <<ticking, seatVars, rated>>,
         NEW s, NEW e, Engine!HandleMoveRequest(s, e),
         wire' = wire \/ wire' = IF session THEN wire \o <<MakeAck(s, e)>> ELSE wire,
         wire' # wire => InRoom
  PROVE  WindowInv'
<1>1. /\ motions' # {} /\ ~ gameOver /\ gameOver' = gameOver
      /\ session' = session /\ role' = role /\ room' = room /\ rated' = rated
  BY DEF Engine!HandleMoveRequest, seatVars
<1>2. ~ Quiet' /\ ~ rated /\ ~ Ended' /\ (InRoom' <=> InRoom)
  BY <1>1 DEF Quiet, Ended, InRoom, WindowInv, Books
<1>3. role' \in Colors \cup {"viewer", Nobody} /\ (InRoom' => room' # "none")
  BY <1>1, <1>2 DEF WindowInv, Books
<1>4. CASE wire' = wire
  BY <1>1, <1>2, <1>3, <1>4, ServerIsSilent
<1>5. CASE wire' # wire
  <2> DEFINE t == <<MakeAck(s, e)>>
  <2>1. wire' = IF session' THEN wire \o t ELSE wire
    BY <1>1, <1>5
  <2>2. IsQueue(t) /\ Said(t) = {MakeAck(s, e)}
    BY Single
  <2> HIDE DEF t
  <2>3. TellsRole(MakeAck(s, e), role') /\ ~ SaysOver(MakeAck(s, e))
    BY MessageKinds DEF TellsRole, EnterMessages, SaysOver
  <2>4. \A m \in Said(t) : /\ SaysOver(m) => gameOver'
                           /\ InRoom' \/ m.type = "login_ok"
                           /\ TellsRole(m, role')
    BY <1>2, <1>5, <2>2, <2>3
  <2> QED
    BY <1>1, <1>2, <1>3, <2>1, <2>2, <2>4, ServerTells
<1> QED
  BY <1>4, <1>5

LEMMA OnMoveKeepsInv ==
  ASSUME WindowInv, Idle, UNCHANGED screenVars, UNCHANGED ticking, OnMove
  PROVE  WindowInv'
<1>1. CASE Refuse
  BY <1>1, LightCommandsKeepInv
<1>2. CASE ~ Refuse
  <2>1. PICK s, e : /\ session /\ role \in Colors /\ Engine!HandleMoveRequest(s, e)
                    /\ Tell(<<MakeAck(s, e)>>) /\ UNCHANGED <<seatVars, rated>>
    BY <1>2 DEF OnMove
  <2>2. InRoom /\ wire' = IF session THEN wire \o <<MakeAck(s, e)>> ELSE wire
    BY <2>1, NobodyAssumption DEF InRoom, Tell
  <2> QED
    BY <2>1, <2>2, MoveKeepsInv
<1> QED
  BY <1>1, <1>2

LEMMA HandleRawKeepsInv == WindowInv /\ HandleRaw => WindowInv'
<1> SUFFICES ASSUME WindowInv, HandleRaw PROVE WindowInv'
  OBVIOUS
<1>1. Idle /\ UNCHANGED screenVars /\ UNCHANGED ticking
  BY DEF HandleRaw, screenVars, netVars, gameVars
<1> QED
  BY <1>1, OnAuthKeepsInv, OnLoginKeepsInv, LightCommandsKeepInv, OnRoomCreateKeepsInv,
     OnRoomJoinKeepsInv, OnMoveKeepsInv DEF HandleRaw

-----------------------------------------------------------------------------
\* The end of a connection, and the server's loop.

LEMMA DisconnectKeepsInv == WindowInv /\ Disconnect => WindowInv'
<1> SUFFICES ASSUME WindowInv, Disconnect PROVE WindowInv'
  OBVIOUS
<1>1. /\ wire' = <<>> /\ events' = <<>> /\ screen' = "login" /\ overShown' = FALSE
      /\ session' = FALSE /\ role' = IF role = "viewer" THEN Nobody ELSE role
      /\ UNCHANGED <<room, rated, gameOver, landing, ticking>>
  BY DEF Disconnect, Stop, MarkDisconnected, engineVars
<1>2. Books
  BY DEF WindowInv
<1>3. Idle' <=> Idle
  BY <1>1 DEF Idle
<1>4. /\ role' \in Colors \cup {"viewer", Nobody}
      /\ InRoom' => room' # "none"
  BY <1>1, <1>2 DEF Books, InRoom
<1>5. IsQueue(wire') /\ IsQueue(events') /\ Said(wire') = {} /\ Said(events') = {}
  BY <1>1, Empty
<1>6. Books'
  BY <1>1, <1>2, <1>3, <1>4, <1>5 DEF Books
<1>7. Outsider' /\ OverIsTrue' /\ RoleIsTold' /\ ColorIsKnown'
  BY <1>1, <1>5 DEF Outsider, OverIsTrue, RoleIsTold, ColorIsKnown
<1>8. BoardIsTold' /\ OverIsTold'
  BY <1>1 DEF BoardIsTold, OverIsTold, Quiet, Ended
<1> QED
  BY <1>6, <1>7, <1>8 DEF WindowInv

\* A game that is over stays so while its pieces come down.
LEMMA SettlingKeepsOver == Engine!Settling => (gameOver => gameOver')
BY DEF Engine!Settling, Engine!Settle, Engine!SettleInPlace, Engine!SettleOnJumper,
       Engine!SettleBlocked, Engine!SettleArrive, Engine!Taken

\* From the clock to the tick's end the server is not at rest.
LEMMA TickingKeepsInv ==
  ASSUME WindowInv, Tick \/ SettleLanding
  PROVE  WindowInv'
<1>1. /\ UNCHANGED screenVars /\ wire' = wire /\ session' = session /\ role' = role
      /\ room' = room /\ rated' = rated /\ ticking' = TRUE /\ (gameOver => gameOver')
  BY SettlingKeepsOver
     DEF Tick, SettleLanding, clientVars, linkVars, netVars, gameVars, screenVars, seatVars,
         Engine!UpdateGameClock
<1>2. ~ rated
  BY DEF Tick, SettleLanding, WindowInv, Books, Idle, Engine!UpdateGameClock
<1>3. ~ Quiet' /\ ~ Ended'
  BY <1>1, <1>2 DEF Quiet, Idle, Ended
<1>4. /\ role' \in Colors \cup {"viewer", Nobody}
      /\ InRoom' => room' # "none"
  BY <1>1 DEF WindowInv, Books, InRoom
<1> QED
  BY <1>1, <1>2, <1>3, <1>4, ServerIsSilent

LEMMA TickEndsKeepsInv ==
  ASSUME WindowInv, TickEnds
  PROVE  WindowInv'
<1>1. /\ UNCHANGED screenVars /\ session' = session /\ role' = role /\ room' = room
      /\ rated' = rated /\ UNCHANGED <<grid, kind, motions, landing, gameOver>>
      /\ ticking
  BY DEF TickEnds, netVars, gameVars, screenVars, seatVars, engineVars
<1>2. ~ rated
  BY <1>1 DEF WindowInv, Books, Idle
<1>3. /\ ~ Ended'
      /\ Quiet' => MotionsDone /\ InRoom
      /\ Snapshot' = Snapshot
      /\ InRoom' <=> InRoom
  BY <1>1, <1>2 DEF Ended, Quiet, InRoom, Snapshot, MotionsDone
<1>4. /\ role' \in Colors \cup {"viewer", Nobody}
      /\ InRoom' => room' # "none"
  BY <1>1 DEF WindowInv, Books, InRoom
<1>5. CASE MotionsDone /\ InRoom
  <2> DEFINE t == <<Snapshot>>
  <2>1. wire' = IF session' THEN wire \o t ELSE wire
    BY <1>1, <1>5 DEF TickEnds, TellIf, Tell
  <2>2. IsQueue(t) /\ Said(t) = {Snapshot}
    BY Single
  <2>3. LastIs(t, BoardKinds, {Snapshot'})
    BY <1>3, LastOfOne
  <2> HIDE DEF t
  <2>4. TellsRole(Snapshot, role') /\ (SaysOver(Snapshot) => gameOver)
    BY MessageKinds DEF Snapshot, SaysOver, TellsRole, EnterMessages
  <2>5. \A m \in Said(t) : /\ SaysOver(m) => gameOver'
                           /\ InRoom' \/ m.type = "login_ok"
                           /\ TellsRole(m, role')
    BY <1>1, <1>3, <1>5, <2>2, <2>4
  <2> QED
    BY <1>1, <1>2, <1>3, <1>4, <2>1, <2>2, <2>3, <2>5, ServerTells
<1>6. CASE ~ (MotionsDone /\ InRoom)
  <2>1. wire' = wire
    BY <1>6 DEF TickEnds, TellIf
  <2> QED
    BY <1>1, <1>2, <1>3, <1>4, <1>6, <2>1, ServerIsSilent
<1> QED
  BY <1>5, <1>6

LEMMA RateKeepsInv ==
  ASSUME WindowInv, Rate
  PROVE  WindowInv'
<1>1. /\ UNCHANGED screenVars /\ session' = session /\ role' = role /\ room' = room
      /\ gameOver /\ gameOver' = gameOver /\ UNCHANGED <<landing, ticking>> /\ Idle
  BY DEF Rate, netVars, gameVars, screenVars, seatVars, engineVars
<1>2. /\ ~ Quiet'
      /\ Ended' => InRoom
      /\ InRoom' <=> InRoom
      /\ Idle'
  BY <1>1 DEF Ended, Quiet, InRoom, Idle
<1>3. /\ role' \in Colors \cup {"viewer", Nobody}
      /\ InRoom' => room' # "none"
  BY <1>1 DEF WindowInv, Books, InRoom
<1>4. CASE InRoom
  <2> DEFINE t == <<MakeGameOver>>
  <2>1. wire' = IF session' THEN wire \o t ELSE wire
    BY <1>1, <1>4 DEF Rate, TellIf, Tell
  <2>2. IsQueue(t) /\ Said(t) = {MakeGameOver}
    BY Single
  <2>3. LastIs(t, OverKinds, {Snapshot', MakeGameOver})
    BY LastOfOne
  <2> HIDE DEF t
  <2>4. \A m \in Said(t) : /\ SaysOver(m) => gameOver'
                           /\ InRoom' \/ m.type = "login_ok"
                           /\ TellsRole(m, role')
    BY <1>1, <1>2, <1>4, <2>2, MessageKinds DEF TellsRole, EnterMessages
  <2> QED
    BY <1>1, <1>2, <1>3, <2>1, <2>2, <2>3, <2>4, ServerTells
<1>5. CASE ~ InRoom
  <2>1. wire' = wire
    BY <1>5 DEF Rate, TellIf
  <2> QED
    BY <1>1, <1>2, <1>3, <1>5, <2>1, ServerIsSilent
<1> QED
  BY <1>4, <1>5

-----------------------------------------------------------------------------
\* The other users.

LEMMA OtherRoomsKeepInv ==
  ASSUME WindowInv, OtherCreates \/ OtherJoins
  PROVE  WindowInv'
<1>1. /\ UNCHANGED screenVars /\ session' = session /\ role' = role /\ wire' = wire
      /\ UNCHANGED ticking
  BY DEF OtherCreates, OtherJoins, Others, TellIf, netVars, gameVars, screenVars
<1>2. InRoom' <=> InRoom
  BY <1>1 DEF InRoom
<1>3. role' \in Colors \cup {"viewer", Nobody} /\ (InRoom => room # "none")
  BY <1>1 DEF WindowInv, Books
<1>4. CASE OtherCreates
  <2>1. ~ InRoom /\ ~ rated'
    BY <1>3, <1>4 DEF OtherCreates, NewGame
  <2>2. ~ Quiet' /\ ~ Ended'
    BY <1>2, <2>1 DEF Quiet, Ended
  <2> QED
    BY <1>1, <1>2, <1>3, <2>1, <2>2, ServerIsSilent
<1>5. CASE OtherJoins
  <2>1. /\ room' = "paired" /\ rated' = rated
        /\ UNCHANGED <<grid, kind, motions, landing, gameOver>>
    BY <1>5 DEF OtherJoins, engineVars
  <2>2. /\ Quiet' <=> Quiet
        /\ Ended' <=> Ended
        /\ Idle' <=> Idle
        /\ UNCHANGED gameStateVars
    BY <1>1, <1>2, <2>1 DEF Quiet, Ended, Idle, gameStateVars
  <2>3. rated => gameOver /\ Idle
    BY DEF WindowInv, Books
  <2>4. rated' => gameOver' /\ Idle'
    BY <2>1, <2>2, <2>3
  <2>5. room' # "none"
    BY <2>1
  <2>6. gameOver' = gameOver
    BY <2>1
  <2> QED
    BY <1>1, <1>3, <2>2, <2>4, <2>5, <2>6, ServerIsSilent
<1> QED
  BY <1>4, <1>5

LEMMA OtherMovesKeepInv ==
  ASSUME WindowInv, OtherMoves
  PROVE  WindowInv'
<1>1. PICK s, e \in Squares : Engine!HandleMoveRequest(s, e) /\ Others(<<MakeAck(s, e)>>)
  BY DEF OtherMoves
<1>2. /\ Idle /\ UNCHANGED screenVars /\ UNCHANGED <<ticking, seatVars, rated>>
  BY <1>1 DEF OtherMoves, Others, netVars, gameVars, screenVars
<1>3. /\ wire' = wire \/ wire' = IF session THEN wire \o <<MakeAck(s, e)>> ELSE wire
      /\ wire' # wire => InRoom
  BY <1>1 DEF Others, TellIf, Tell
<1> QED
  BY <1>1, <1>2, <1>3, MoveKeepsInv

LEMMA ForfeitKeepsInv ==
  ASSUME WindowInv, Forfeit
  PROVE  WindowInv'
<1>1. /\ UNCHANGED screenVars /\ session' = session /\ role' = role /\ wire' = wire
      /\ room' = room /\ rated' = rated /\ ~ gameOver /\ gameOver'
  BY DEF Forfeit, Others, TellIf, netVars, gameVars, screenVars, seatVars, Engine!ForceForfeit
<1>2. ~ rated /\ ~ Quiet' /\ ~ Ended'
  BY <1>1 DEF WindowInv, Books, Quiet, Ended
<1>3. role' \in Colors \cup {"viewer", Nobody} /\ (InRoom' => room' # "none")
  BY <1>1 DEF WindowInv, Books, InRoom
<1> QED
  BY <1>1, <1>2, <1>3, ServerIsSilent

LEMMA MatchedKeepsInv ==
  ASSUME WindowInv, Matched
  PROVE  WindowInv'
<1>1. /\ Idle /\ ~ InRoom /\ UNCHANGED screenVars /\ UNCHANGED <<ticking, session>>
      /\ NewGame /\ room' # "none" /\ role' \in Colors
      /\ Tell(<<MatchFound(role'), NewSnapshot>>)
  BY DEF Matched, netVars, gameVars, screenVars
<1>2. MatchFound(role').type \in EnterMessages /\ MatchFound(role').color = role'
  BY MessageKinds DEF EnterMessages
<1> QED
  BY <1>1, <1>2, NewGameKeepsInv

LEMMA TimedOutKeepsInv ==
  ASSUME WindowInv, TimedOut
  PROVE  WindowInv'
<1>1. /\ UNCHANGED screenVars /\ session' = session /\ role' = role /\ wire' = wire
      /\ room' = room /\ rated' = rated /\ UNCHANGED <<grid, kind, motions, landing, gameOver, ticking>>
  BY DEF TimedOut, clientVars, linkVars, netVars, gameVars, screenVars, engineVars
<1>2. /\ Quiet' <=> Quiet
      /\ Ended' <=> Ended
      /\ Idle' <=> Idle
      /\ InRoom' <=> InRoom
      /\ UNCHANGED gameStateVars
  BY <1>1 DEF Quiet, Ended, Idle, InRoom, gameStateVars
<1>3. Books
  BY DEF WindowInv
<1>4. /\ role' \in Colors \cup {"viewer", Nobody} /\ (InRoom' => room' # "none")
      /\ rated' => gameOver' /\ Idle'
  BY <1>1, <1>2, <1>3 DEF Books
<1> QED
  BY <1>1, <1>2, <1>4, ServerIsSilent

-----------------------------------------------------------------------------
\* The window.

LEMMA WindowKeepsBooks ==
  ASSUME WindowInv, UNCHANGED serverVars,
         IsQueue(wire'), IsQueue(events'), Said(wire') \subseteq Said(wire),
         wire = <<>> => wire' = <<>>,
         Outsider', OverIsTrue', ColorIsKnown',
         Quiet /\ Heard(wire, events, BoardKinds, {Snapshot}, BoardShown)
           => Heard(wire', events', BoardKinds, {Snapshot}, BoardShown'),
         Ended /\ Heard(wire, events, OverKinds, {Snapshot, MakeGameOver}, EndShown)
           => Heard(wire', events', OverKinds, {Snapshot, MakeGameOver}, EndShown')
  PROVE  WindowInv'
<1>1. /\ session' = session /\ role' = role /\ room' = room /\ rated' = rated
      /\ UNCHANGED <<grid, kind, motions, landing, gameOver, ticking>>
  BY DEF serverVars, seatVars, engineVars
<1>2. /\ Quiet' <=> Quiet
      /\ Ended' <=> Ended
      /\ Idle' <=> Idle
      /\ InRoom' <=> InRoom
      /\ Snapshot' = Snapshot
  BY <1>1 DEF Quiet, Ended, Idle, InRoom, Snapshot
<1>3. Books'
  BY <1>1, <1>2 DEF WindowInv, Books
<1>4. RoleIsTold'
  BY <1>1 DEF WindowInv, RoleIsTold
<1>5. BoardIsTold'
  BY <1>2 DEF WindowInv, BoardIsTold
<1>6. OverIsTold'
  BY <1>2 DEF WindowInv, OverIsTold, MakeGameOver
<1> QED
  BY <1>3, <1>4, <1>5, <1>6 DEF WindowInv

LEMMA UnseenStepsKeepInv ==
  ASSUME WindowInv, UNCHANGED serverVars,
         \/ Start \/ PressLogin \/ PressCommand \/ HttpFails \/ SendAuth
         \/ \E s \in Squares : ClickSelects(s) \/ ClickSends(s)
  PROVE  WindowInv'
<1>1. UNCHANGED screenVars /\ UNCHANGED wire
  BY DEF Start, PressLogin, PressCommand, HttpFails, SendAuth, ClickSelects, ClickSends,
         linkVars, netVars, gameVars, screenVars
<1> QED
  BY <1>1, NothingHappens DEF serverVars

\* The game screen is left.
LEMMA LeavingKeepsInv ==
  ASSUME WindowInv, UNCHANGED serverVars, SwitchScreen \/ BackToLobby
  PROVE  WindowInv'
<1>1. /\ wire' = wire /\ events' = events /\ screen' # "game"
      /\ overShown' => overShown
      /\ UNCHANGED <<netRole, netColor>> \/ overShown
  BY DEF SwitchScreen, BackToLobby, linkVars, netVars, gameVars
<1>2. role' = role /\ gameOver' = gameOver /\ (InRoom' <=> InRoom)
  BY DEF serverVars, seatVars, engineVars, InRoom
<1>3. /\ IsQueue(wire) /\ IsQueue(events) /\ Outsider /\ OverIsTrue /\ ColorIsKnown
  BY DEF WindowInv, Books
<1>4. Outsider' /\ OverIsTrue'
  BY <1>1, <1>2, <1>3 DEF Outsider, OverIsTrue
<1>5. ColorIsKnown'
  <2>1. CASE overShown
    BY <2>1, <1>2, <1>3 DEF ColorIsKnown, OverIsTrue
  <2>2. CASE UNCHANGED <<netRole, netColor>>
    BY <2>2, <1>1, <1>2, <1>3 DEF ColorIsKnown, NetKnows
  <2> QED
    BY <2>1, <2>2, <1>1
<1>6. BoardShown' /\ EndShown'
  BY <1>1 DEF BoardShown, EndShown
<1>7. \A kinds, wanted, shown :
        /\ Heard(wire, events, kinds, wanted, shown) => Heard(wire', events', kinds, wanted, BoardShown')
        /\ Heard(wire, events, kinds, wanted, shown) => Heard(wire', events', kinds, wanted, EndShown')
  BY <1>1, <1>6 DEF Heard
<1> QED
  BY <1>1, <1>3, <1>4, <1>5, <1>7, WindowKeepsBooks

\* What still flies here comes down: the screen did not show the server's board.
LEMMA LocalLandingKeepsInv ==
  ASSUME WindowInv, UNCHANGED serverVars, LocalLanding
  PROVE  WindowInv'
<1>1. /\ wire' = wire /\ events' = events /\ screen' = screen /\ overShown' = overShown
      /\ UNCHANGED <<netRole, netColor, myColor>>
      /\ screen = "game" /\ flying # {}
  BY DEF LocalLanding, linkVars, netVars
<1>2. role' = role /\ gameOver' = gameOver /\ (InRoom' <=> InRoom)
  BY DEF serverVars, seatVars, engineVars, InRoom
<1>3. /\ IsQueue(wire) /\ IsQueue(events) /\ Outsider /\ OverIsTrue /\ ColorIsKnown
  BY DEF WindowInv, Books
<1>4. Outsider' /\ OverIsTrue' /\ ColorIsKnown'
  BY <1>1, <1>2, <1>3 DEF Outsider, OverIsTrue, ColorIsKnown, NetKnows, ShownRole
<1>5. ~ BoardShown /\ (EndShown' <=> EndShown)
  BY <1>1 DEF BoardShown, EndShown
<1>6. \A kinds, wanted :
        /\ Heard(wire, events, kinds, wanted, BoardShown) => Heard(wire', events', kinds, wanted, BoardShown')
        /\ Heard(wire, events, kinds, wanted, EndShown) => Heard(wire', events', kinds, wanted, EndShown')
  BY <1>1, <1>5 DEF Heard
<1> QED
  BY <1>1, <1>3, <1>4, <1>6, WindowKeepsBooks

LEMMA HttpAnswerKeepsInv ==
  ASSUME WindowInv, UNCHANGED serverVars, HttpAnswer
  PROVE  WindowInv'
<1>1. /\ wire' = wire /\ screen' = screen /\ overShown' = overShown
      /\ UNCHANGED <<netRole, netColor, myColor, flying, board, types>>
      /\ events' = events \/ events' = Append(events, MakeLoginOk)
  BY DEF HttpAnswer, linkVars, gameVars
<1>2. role' = role /\ gameOver' = gameOver /\ (InRoom' <=> InRoom) /\ grid' = grid /\ kind' = kind
  BY DEF serverVars, seatVars, engineVars, InRoom
<1>3. /\ IsQueue(wire) /\ IsQueue(events) /\ Outsider /\ OverIsTrue /\ ColorIsKnown
  BY DEF WindowInv, Books
<1>4. Append(events, MakeLoginOk) = events \o <<MakeLoginOk>>
  BY <1>3, Appended
<1>5. IsQueue(events') /\ Said(events') \subseteq Said(events) \cup {MakeLoginOk}
  <2>1. IsQueue(<<MakeLoginOk>>) /\ Said(<<MakeLoginOk>>) = {MakeLoginOk}
    BY Single
  <2>2. /\ IsQueue(events \o <<MakeLoginOk>>)
        /\ Said(events \o <<MakeLoginOk>>) = Said(events) \cup {MakeLoginOk}
    BY <2>1, <1>3, Concatenated
  <2> QED
    BY <2>2, <1>1, <1>3, <1>4
<1>6. MakeLoginOk.type = "login_ok" /\ ~ SaysOver(MakeLoginOk)
  BY MessageKinds DEF SaysOver
<1>7. Outsider' /\ OverIsTrue' /\ ColorIsKnown'
  BY <1>1, <1>2, <1>3, <1>5, <1>6 DEF Outsider, OverIsTrue, ColorIsKnown, NetKnows, ShownRole
<1>8. (BoardShown' <=> BoardShown) /\ (EndShown' <=> EndShown)
  BY <1>1, <1>2 DEF BoardShown, EndShown
<1>9. MakeLoginOk.type \notin BoardKinds /\ MakeLoginOk.type \notin OverKinds
  BY <1>6 DEF BoardKinds, OverKinds, Entering, EnterMessages
<1>10. \A wanted :
         /\ Heard(wire, events, BoardKinds, wanted, BoardShown)
              => Heard(wire', events', BoardKinds, wanted, BoardShown)
         /\ Heard(wire, events, OverKinds, wanted, EndShown)
              => Heard(wire', events', OverKinds, wanted, EndShown)
  BY <1>1, <1>3, <1>9, HeardWhenQueued
<1>11. \A wanted :
         /\ Heard(wire', events', BoardKinds, wanted, BoardShown)
              => Heard(wire', events', BoardKinds, wanted, BoardShown')
         /\ Heard(wire', events', OverKinds, wanted, EndShown)
              => Heard(wire', events', OverKinds, wanted, EndShown')
  BY <1>8 DEF Heard
<1> QED
  BY <1>1, <1>3, <1>5, <1>7, <1>10, <1>11, WindowKeepsBooks

LEMMA ReceiveKeepsInv ==
  ASSUME WindowInv, UNCHANGED serverVars, Receive
  PROVE  WindowInv'
<1> DEFINE m == Head(wire)
           x == IF m.type \in EnterMessages THEN [type |-> "enter_game"] ELSE m
<1>1. /\ wire # <<>> /\ wire' = Tail(wire) /\ events' = Append(events, x)
      /\ NetFields(m)
      /\ screen' = screen /\ overShown' = overShown
      /\ UNCHANGED <<myColor, flying, board, types>>
  BY DEF Receive, gameVars
<1>2. role' = role /\ gameOver' = gameOver /\ (InRoom' <=> InRoom) /\ grid' = grid /\ kind' = kind
  BY DEF serverVars, seatVars, engineVars, InRoom
<1>3. /\ IsQueue(wire) /\ IsQueue(events) /\ Outsider /\ OverIsTrue /\ RoleIsTold /\ ColorIsKnown
  BY DEF WindowInv, Books
<1>4. /\ IsQueue(wire') /\ Said(wire') \subseteq Said(wire) /\ m \in Said(wire)
  BY <1>1, <1>3, Rest
<1>5. [type |-> "enter_game"].type = "enter_game"
  OBVIOUS
<1>6. /\ m.type \in EnterMessages => x.type = "enter_game"
      /\ m.type \notin EnterMessages => x = m
  BY <1>5
<1> HIDE DEF m, x
<1>7. IsQueue(events') /\ Said(events') = Said(events) \cup {x}
  <2>1. events' = events \o <<x>>
    BY <1>1, <1>3, Appended
  <2>2. IsQueue(<<x>>) /\ Said(<<x>>) = {x}
    BY Single
  <2> QED
    BY <2>1, <2>2, <1>3, Concatenated
<1>8. Outsider'
  <2> SUFFICES ASSUME ~ InRoom
               PROVE  \A n \in Said(wire') \cup Said(events') : n.type = "login_ok"
    BY <1>1, <1>2, <1>3 DEF Outsider
  <2>1. \A n \in Said(wire) \cup Said(events) : n.type = "login_ok"
    BY <1>3 DEF Outsider
  <2>2. x.type = "login_ok"
    BY <2>1, <1>4, <1>6 DEF EnterMessages
  <2> QED
    BY <2>1, <2>2, <1>4, <1>7
<1>9. OverIsTrue'
  <2>1. SaysOver(x) => SaysOver(m)
    BY <1>6 DEF SaysOver
  <2> QED
    BY <2>1, <1>1, <1>2, <1>3, <1>4, <1>7 DEF OverIsTrue
<1>10. ColorIsKnown'
  <2> SUFFICES ASSUME ~ gameOver, InRoom
               PROVE  /\ (\E n \in Said(events') : n.type = "enter_game") => NetKnows'
                      /\ screen' = "game" => ShownRole'
    BY <1>2 DEF ColorIsKnown
  <2>1. /\ (\E n \in Said(events) : n.type = "enter_game") => NetKnows
        /\ screen = "game" => ShownRole
    BY <1>3 DEF ColorIsKnown
  <2>2. CASE m.type \in EnterMessages
    <3>1. Names(m, role)
      BY <2>2, <1>3, <1>4 DEF RoleIsTold, TellsRole
    <3>2. NetKnows'
      BY <3>1, <2>2, <1>1, <1>2 DEF NetFields, NetKnows, Names, EnterMessages
    <3>3. screen = "game" => ShownRole'
      BY <2>1, <3>1, <2>2, <1>1, <1>2 DEF NetFields, ShownRole, Names, EnterMessages
    <3> QED
      BY <3>2, <3>3, <1>1
  <2>3. CASE m.type \notin EnterMessages
    <3>1. netColor' = netColor /\ netRole' = netRole
      BY <2>3, <1>1 DEF NetFields, EnterMessages
    <3>2. (NetKnows' <=> NetKnows) /\ (ShownRole' <=> ShownRole)
      BY <3>1, <1>1, <1>2 DEF NetKnows, ShownRole
    <3>3. x.type # "enter_game"
      BY <2>3, <1>3, <1>4, <1>6 DEF RoleIsTold, TellsRole
    <3> QED
      BY <3>2, <3>3, <2>1, <1>1, <1>7
  <2> QED
    BY <2>2, <2>3
<1>11. (BoardShown' <=> BoardShown) /\ (EndShown' <=> EndShown)
  BY <1>1, <1>2 DEF BoardShown, EndShown
<1>12. /\ x.type \in BoardKinds <=> m.type \in BoardKinds
       /\ x.type \in OverKinds <=> m.type \in OverKinds
  BY <1>6 DEF BoardKinds, OverKinds, Entering
<1>13. m \in {Snapshot, MakeGameOver} => x = m
  BY <1>6, MessageKinds DEF Snapshot, EnterMessages
<1>14. \A shown :
         /\ Heard(wire, events, BoardKinds, {Snapshot}, shown)
              => Heard(wire', events', BoardKinds, {Snapshot}, shown)
         /\ Heard(wire, events, OverKinds, {Snapshot, MakeGameOver}, shown)
              => Heard(wire', events', OverKinds, {Snapshot, MakeGameOver}, shown)
  BY <1>1, <1>3, <1>12, <1>13, HeardWhenReceived DEF m
<1>15. \A wanted :
         /\ Heard(wire', events', BoardKinds, wanted, BoardShown)
              => Heard(wire', events', BoardKinds, wanted, BoardShown')
         /\ Heard(wire', events', OverKinds, wanted, EndShown)
              => Heard(wire', events', OverKinds, wanted, EndShown')
  BY <1>11 DEF Heard
<1> QED
  BY <1>1, <1>3, <1>4, <1>7, <1>8, <1>9, <1>10, <1>14, <1>15, WindowKeepsBooks

\* What each event does to the screen.
LEMMA EventEffect ==
  ASSUME ProcessEvent
  PROVE  LET e == Head(events) IN
         /\ e.type \in {"login_ok", "enter_game", "state", "ack", "game_over"}
         /\ e.type = "login_ok" => screen' = "lobby" /\ UNCHANGED gameVars
         /\ e.type = "enter_game" => EnterGame
         /\ e.type = "state" => ApplyState(e)
         /\ e.type = "ack" => ApplyAck(e)
         /\ e.type = "game_over" =>
              overShown' = TRUE /\ UNCHANGED <<screen, board, types, flying, selected, myColor>>
BY DEF ProcessEvent

LEMMA ProcessEventKeepsInv ==
  ASSUME WindowInv, UNCHANGED serverVars, ProcessEvent
  PROVE  WindowInv'
<1> DEFINE e == Head(events)
<1>1. /\ events # <<>> /\ events' = Tail(events)
      /\ wire' = wire /\ UNCHANGED <<netColor, netRole>>
  BY DEF ProcessEvent, linkVars
<1>2. /\ role' = role /\ gameOver' = gameOver /\ (InRoom' <=> InRoom)
      /\ grid' = grid /\ kind' = kind
  BY DEF serverVars, seatVars, engineVars, InRoom
<1>3. /\ IsQueue(wire) /\ IsQueue(events) /\ Outsider /\ OverIsTrue /\ ColorIsKnown
  BY DEF WindowInv, Books
<1>4. /\ IsQueue(events') /\ Said(events') \subseteq Said(events) /\ e \in Said(events)
  BY <1>1, <1>3, Rest
<1>5. /\ e.type \in {"login_ok", "enter_game", "state", "ack", "game_over"}
      /\ e.type = "login_ok" => screen' = "lobby" /\ UNCHANGED gameVars
      /\ e.type = "enter_game" => EnterGame
      /\ e.type = "state" => ApplyState(e)
      /\ e.type = "ack" => ApplyAck(e)
      /\ e.type = "game_over" =>
           overShown' = TRUE /\ UNCHANGED <<screen, board, types, flying, selected, myColor>>
  BY EventEffect
<1> HIDE DEF e
<1>6. Outsider'
  <2> SUFFICES ASSUME ~ InRoom
               PROVE  /\ \A n \in Said(wire') \cup Said(events') : n.type = "login_ok"
                      /\ ~ overShown' /\ screen' # "game"
    BY <1>2 DEF Outsider
  <2>1. /\ \A n \in Said(wire) \cup Said(events) : n.type = "login_ok"
        /\ ~ overShown /\ screen # "game"
    BY <1>3 DEF Outsider
  <2>2. screen' = "lobby" /\ overShown' = overShown
    BY <2>1, <1>4, <1>5 DEF gameVars
  <2> QED
    BY <2>1, <2>2, <1>1, <1>4
<1>7. OverIsTrue'
  <2>1. overShown' => overShown \/ SaysOver(e)
    BY <1>5 DEF gameVars, EnterGame, ApplyState, ApplyAck, SaysOver
  <2> QED
    BY <2>1, <1>1, <1>2, <1>3, <1>4 DEF OverIsTrue
<1>8. ColorIsKnown'
  <2> SUFFICES ASSUME ~ gameOver, InRoom
               PROVE  /\ (\E n \in Said(events') : n.type = "enter_game") => NetKnows'
                      /\ screen' = "game" => ShownRole'
    BY <1>2 DEF ColorIsKnown
  <2>1. /\ (\E n \in Said(events) : n.type = "enter_game") => NetKnows
        /\ screen = "game" => ShownRole
    BY <1>3 DEF ColorIsKnown
  <2>2. NetKnows' <=> NetKnows
    BY <1>1, <1>2 DEF NetKnows
  <2>3. CASE e.type = "enter_game"
    <3>1. NetKnows
      BY <2>1, <2>3, <1>4
    <3>2. myColor' = netColor
      BY <2>3, <1>5 DEF EnterGame
    <3>3. ShownRole'
      BY <3>1, <3>2, <1>1, <1>2 DEF NetKnows, ShownRole
    <3> QED
      BY <3>1, <3>3, <2>2
  <2>4. CASE e.type # "enter_game"
    <3>1. myColor' = myColor /\ (screen' = "game" => screen = "game")
      BY <2>4, <1>5 DEF gameVars, ApplyState, ApplyAck
    <3>2. ShownRole' <=> ShownRole
      BY <3>1, <1>1, <1>2 DEF ShownRole
    <3> QED
      BY <3>1, <3>2, <2>1, <2>2, <1>4
  <2> QED
    BY <2>3, <2>4
<1>9. /\ BoardShown \in BOOLEAN /\ BoardShown' \in BOOLEAN
      /\ EndShown \in BOOLEAN /\ EndShown' \in BOOLEAN
  BY DEF BoardShown, EndShown
<1>10. Snapshot.type = "state" /\ Snapshot.over = gameOver /\ Snapshot.pieces = grid
       /\ Snapshot.kinds = kind
  BY MessageKinds DEF Snapshot
<1>11. e \in {Snapshot} => BoardShown'
  <2> SUFFICES ASSUME e = Snapshot PROVE BoardShown'
    OBVIOUS
  <2>1. flying' = {} /\ board' = grid /\ types' = kind
    BY <1>5, <1>10 DEF ApplyState
  <2> QED
    BY <2>1, <1>2 DEF BoardShown
<1>12. e.type \notin BoardKinds /\ BoardShown => BoardShown'
  <2> SUFFICES ASSUME e.type \notin BoardKinds, BoardShown PROVE BoardShown'
    OBVIOUS
  <2>1. e.type \in {"login_ok", "game_over"}
    BY <1>5 DEF BoardKinds, Entering
  <2>2. UNCHANGED <<board, types, flying>> /\ (screen' = "game" => screen = "game")
    BY <2>1, <1>5 DEF gameVars
  <2> QED
    BY <2>2, <1>2 DEF BoardShown
<1>13. Ended /\ e \in {Snapshot, MakeGameOver} => EndShown'
  <2> SUFFICES ASSUME Ended, e \in {Snapshot, MakeGameOver} PROVE overShown'
    BY DEF EndShown
  <2>1. gameOver
    BY DEF WindowInv, Books, Ended
  <2>2. CASE e = Snapshot
    BY <2>1, <2>2, <1>5, <1>10 DEF ApplyState
  <2>3. CASE e = MakeGameOver
    BY <2>3, <1>5, MessageKinds
  <2> QED
    BY <2>2, <2>3
<1>14. e.type \notin OverKinds /\ EndShown => EndShown'
  <2> SUFFICES ASSUME e.type \notin OverKinds, EndShown PROVE EndShown'
    OBVIOUS
  <2>1. e.type \in {"login_ok", "ack"}
    BY <1>5 DEF OverKinds, Entering
  <2>2. overShown' = overShown /\ (screen' = "game" => screen = "game")
    BY <2>1, <1>5 DEF gameVars, ApplyAck
  <2> QED
    BY <2>2 DEF EndShown
<1>15. Heard(wire, events, BoardKinds, {Snapshot}, BoardShown)
         => Heard(wire', events', BoardKinds, {Snapshot}, BoardShown')
  BY <1>1, <1>3, <1>9, <1>11, <1>12, HeardWhenShown DEF e
<1>16. Ended /\ Heard(wire, events, OverKinds, {Snapshot, MakeGameOver}, EndShown)
         => Heard(wire', events', OverKinds, {Snapshot, MakeGameOver}, EndShown')
  BY <1>1, <1>3, <1>9, <1>13, <1>14, HeardWhenShown DEF e
<1> QED
  BY <1>1, <1>3, <1>4, <1>6, <1>7, <1>8, <1>15, <1>16, WindowKeepsBooks

LEMMA WindowKeepsInv == WindowInv /\ Window => WindowInv'
BY UnseenStepsKeepInv, LeavingKeepsInv, LocalLandingKeepsInv, HttpAnswerKeepsInv,
   ReceiveKeepsInv, ProcessEventKeepsInv
   DEF Window, Player, Threads

-----------------------------------------------------------------------------
\* The results.

LEMMA InvInitially == Init => WindowInv
<1> SUFFICES ASSUME Init PROVE WindowInv
  OBVIOUS
<1>1. /\ wire = <<>> /\ events = <<>> /\ screen = "login" /\ overShown = FALSE
      /\ session = FALSE /\ role = Nobody /\ rated = FALSE
  BY DEF Init, ClientInit
<1>2. IsQueue(wire) /\ IsQueue(events) /\ Said(wire) = {} /\ Said(events) = {}
  BY <1>1, Empty
<1>3. ~ InRoom /\ ~ Quiet /\ ~ Ended
  BY <1>1 DEF InRoom, Quiet, Ended
<1>4. Books
  BY <1>1, <1>2, <1>3 DEF Books
<1>5. Outsider /\ OverIsTrue /\ RoleIsTold /\ ColorIsKnown /\ BoardIsTold /\ OverIsTold
  BY <1>1, <1>2, <1>3 DEF Outsider, OverIsTrue, RoleIsTold, ColorIsKnown, BoardIsTold, OverIsTold
<1> QED
  BY <1>4, <1>5 DEF WindowInv

LEMMA InvPreserved == WindowInv /\ [Next]_vars => WindowInv'
<1> SUFFICES ASSUME WindowInv, [Next]_vars PROVE WindowInv'
  OBVIOUS
<1>1. CASE Next
  BY <1>1, WindowKeepsInv, HandleRawKeepsInv, DisconnectKeepsInv, TickingKeepsInv,
     TickEndsKeepsInv, RateKeepsInv, OtherRoomsKeepInv, OtherMovesKeepInv, ForfeitKeepsInv,
     MatchedKeepsInv, TimedOutKeepsInv
     DEF Next, ServerLoop
<1>2. CASE UNCHANGED vars
  <2>1. UNCHANGED <<screenVars, wire, seatVars, engineVars, ticking, rated>>
    BY <1>2 DEF vars, clientVars, serverVars, linkVars, netVars, gameVars, screenVars
  <2> QED
    BY <2>1, NothingHappens
<1> QED
  BY <1>1, <1>2

\* Nothing under way says nothing.
LEMMA NothingUnderWay ==
  ASSUME Caught, NEW kinds, NEW wanted, NEW shown, Heard(wire, events, kinds, wanted, shown)
  PROVE  shown
BY Empty DEF Caught, Heard, LastIs

LEMMA WindowIsRight == Spec => []WindowInv
BY InvInitially, InvPreserved, PTL DEF Spec

\* A window that has caught up with a server at rest shows the server's board,
\* whatever its own clock did to its board before, and in whichever order acks,
\* states, rejoins and logins came.
THEOREM BoardsAgreeAtRest == Spec => []QuietBoardIsTrue
<1>1. WindowInv => QuietBoardIsTrue
  <2> SUFFICES ASSUME WindowInv, Caught, Idle, motions = {}, ~ gameOver, InRoom, session,
                      screen = "game"
               PROVE  flying = {} /\ board = grid /\ types = kind
    BY DEF QuietBoardIsTrue
  <2>1. Heard(wire, events, BoardKinds, {Snapshot}, BoardShown)
    BY DEF WindowInv, BoardIsTold, Quiet
  <2>2. BoardShown
    BY <2>1, NothingUnderWay
  <2> QED
    BY <2>2 DEF BoardShown
<1> QED
  BY <1>1, WindowIsRight, PTL

\* In a rated game the window that has caught up says that it is over, so that
\* its player can leave; also after he went and came back, once or often.
THEOREM OverReachesTheScreen == Spec => []OverIsShown
<1>1. WindowInv => OverIsShown
  <2> SUFFICES ASSUME WindowInv, Caught, rated, InRoom, session, screen = "game"
               PROVE  overShown
    BY DEF OverIsShown
  <2>1. Heard(wire, events, OverKinds, {Snapshot, MakeGameOver}, EndShown)
    BY DEF WindowInv, OverIsTold, Ended
  <2>2. EndShown
    BY <2>1, NothingUnderWay
  <2> QED
    BY <2>2 DEF EndShown
<1> QED
  BY <1>1, WindowIsRight, PTL

\* While the game goes on its screen has the color, or the viewer's role, that
\* the server has for the player, though the color is read from a field that
\* later messages may have set.
THEOREM ColorsAgree == Spec => []ColorIsMine
<1>1. WindowInv => ColorIsMine
  BY DEF WindowInv, ColorIsKnown, ShownRole, ColorIsMine
<1> QED
  BY <1>1, WindowIsRight, PTL
=============================================================================
