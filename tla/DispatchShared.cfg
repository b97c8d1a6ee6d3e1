\* Two requests share a primary route; one falls back to a route that shares a
\* seat and to an empty one, may hang up and belongs to a session, the other is
\* an image request; one seat is malformed, the database may fail.
CONSTANTS
  r1 = r1  r2 = r2  s1 = s1  s2 = s2
  main = main  spare = spare  bare = bare  k1 = k1
  NoSeat = NoSeat  NoSession = NoSession
  Requests = {r1, r2}
  Seats = {s1, s2}
  Routes = {main, spare, bare}
  Sessions = {k1}
  Pool <- MCPool
  Rank <- MCRank
  Sequential = {main}
  Chain <- MCChain
  SessionOf <- MCSessionOf
  Filtered = {r2}
  Capable = {s2}
  Servable <- MCServable
  CoolFor <- MCCoolFor
  ProbeCool = 1
  SoftWindow = 1
  MayHangUp = {r1}
  Broken = {s1}
SPECIFICATION FairSpec
INVARIANTS GivesUpExhausted TrailIsExact NoRetryWhileCooling
PROPERTIES Answered Promise
