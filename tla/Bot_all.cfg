SPECIFICATION FairSpec
CONSTANTS
  Monitors = {m1, m2}
  token = token
  noMint = noMint
  noTrader = noTrader
  Events <- MCEvents
  Tradable <- MCTradable
  Malformed <- MCMalformed
  None = None
  EventCap = 1
  ErrorCap = 1
  MaxEvents = 2
  MaxErrors = 1
INVARIANTS
  EventsAndTradesAccounted
  DiesOnlyOfAMint
PROPERTIES
  NothingIsStuck
CHECK_DEADLOCK FALSE
