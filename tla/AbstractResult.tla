--------------------------- MODULE AbstractResult ---------------------------
(***************************************************************************)
(* What the players of a room are promised about their game's result: it   *)
(* is decided once, it never changes, and both ratings follow it once, at  *)
(* the same moment.  An attempt that breaks off half way has changed       *)
(* white's rating, and is made again until one comes to its end.           *)
(***************************************************************************)
EXTENDS Naturals

CONSTANTS Rooms

VARIABLES
  result,   \* "open", or the side that won
  changes   \* how often the ratings of a room's white and black changed

vars == <<result, changes>>

Sides == {"white", "black"}

Init ==
  /\ result = [r \in Rooms |-> "open"]
  /\ changes = [r \in Rooms |-> [s \in Sides |-> 0]]

Decide(r, side) ==
  /\ result[r] = "open"
  /\ result' = [result EXCEPT ![r] = side]
  /\ UNCHANGED changes

\* The rating that counts is the one that reaches black, the second to be written.
Rate(r) ==
  /\ result[r] # "open"
  /\ changes[r]["black"] = 0
  /\ changes' = [changes EXCEPT ![r] = [s \in Sides |-> @[s] + 1]]
  /\ UNCHANGED result

BreakOff(r) ==
  /\ result[r] # "open"
  /\ changes[r]["black"] = 0
  /\ changes' = [changes EXCEPT ![r]["white"] = @ + 1]
  /\ UNCHANGED result

Next == \E r \in Rooms : Rate(r) \/ BreakOff(r) \/ \E side \in Sides : Decide(r, side)

Spec == Init /\ [][Next]_vars
=============================================================================
