\* Three seats under each strategy.
CONSTANTS
  r1 = r1
  r2 = r2
  Seats <- MCSeats
  OAuth <- MCOAuth
  Requests = {r1, r2}
  Casts <- MCCasts
  Window = "w7"
  Reports <- MCReports
  MaxPct = 2
  Horizon = 2
  Nobody = Nobody
SPECIFICATION SpecSeats
CHECK_DEADLOCK FALSE
INVARIANTS TypeOKSeats EvenTurns
PROPERTIES SparesSpent ResetsSoonest NotDominated
