-------------------------------- MODULE Queues --------------------------------
(***************************************************************************)
(* What is left of a list of queue entries when users are taken out of it, *)
(* for the list of MatchmakingService and the sorted set in Redis.         *)
(*                                                                         *)
(* Stated by what the list is and not by the order in which it is built:   *)
(* the prover has no facts about SelectSeq.                                *)
(***************************************************************************)
EXTENDS Integers, FiniteSets, Sequences, Functions

\* The numbering of the positions N in their order.
InOrder(N) ==
  {f \in Bijection(1 .. Cardinality(N), N) : \A i, j \in DOMAIN f : i < j => f[i] < f[j]}

\* The one list of the entries of seq whose user is not in us, in their order.
Remaining(seq, us) ==
  {[i \in DOMAIN f |-> seq[f[i]]] : f \in InOrder({n \in DOMAIN seq : seq[n].user \notin us})}
=============================================================================
