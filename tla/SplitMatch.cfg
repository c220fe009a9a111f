SPECIFICATION FairSpec
CONSTANTS
  u1 = u1
  u2 = u2
  s1 = s1
  Users = {u1, u2}
  Elo <- Ratings
  EloWindow = 100
  Shards = {s1}
  NoShard = NoShard
  Nobody = Nobody
  MaxRequests = 3
  MaxRestarts = 1
INVARIANTS
  PlayerIsRouted
  WaitingIsSomewhere
PROPERTIES
  OneAnswerPerPlay
  WaitingIsAnswered
