\* Three seats: one direct, one bridged and OAuth, one with a bad base_url.
CONSTANTS
  a = a  b = b  m = m
  NoSeat = NoSeat
  Seats = {a, b, m}
  OAuth = {b}
  Malformed = {m}
  Bridged = {b}
SPECIFICATION FairSpec
INVARIANTS FirstDecisiveWins NothingIsMalformed
PROPERTIES RacersEnd OrphansArePiped
