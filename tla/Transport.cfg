\* Two concurrent calls over both carriers, one token renewal, one write applied;
\* one socket at a time, its subscriptions and its token.
SPECIFICATION TransportSpec
CONSTANTS
  Calls = {c1, c2}
  Endpoints = {e1}
  MaxGen = 2
  MaxVersion = 1
  None = None
  Resources = {r1, r2}
  SockIds = {s1, s2}
  MaxTimers = 2
  MaxToken = 1
  MaxUp = 2
  NoSock = NoSock
INVARIANTS
  NoCachedResult
  OneSocket
  SubscriptionsAgree
PROPERTIES
  KeepsPromise
  EveryCallSettles
  Reconnects
