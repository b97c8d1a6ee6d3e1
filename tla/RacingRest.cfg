\* Two seats race for a stream.
CONSTANTS
  a = a  b = b  m = m
  NoSeat = NoSeat
  Seats = {a, b}
  OAuth = {}
  Malformed = {}
  Bridged = {}
SPECIFICATION Spec
INVARIANTS RestIsReplayed
